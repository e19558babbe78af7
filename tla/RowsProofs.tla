----------------------------- MODULE RowsProofs -----------------------------
(***************************************************************************)
(* What the operators of Rows return, for any rows.  Induction over a       *)
(* sequence is induction over a set of sequences (SequenceSets): the        *)
(* provers are first-order.                                                 *)
(***************************************************************************)
EXTENDS Rows, WellFoundedInduction, SequenceTheorems, TLAPS

LEMMA NaturalSets ==
    ASSUME NEW P \in SUBSET Nat, 0 \in P, \A n \in P : n + 1 \in P
    PROVE  P = Nat
<1> SUFFICES ASSUME Nat \ P # {} PROVE FALSE
  OBVIOUS
<1> DEFINE T == Nat \ P
<1>1. IsWellFoundedOn(OpToRel(<, Nat), Nat)
  BY NatLessThanWellFounded
<1>2. \E x \in T : \A y \in T : ~ (<<y, x>> \in OpToRel(<, Nat))
  BY <1>1, WFMin
<1>3. PICK x \in T : \A y \in T : ~ (y < x)
  BY <1>2 DEF OpToRel
<1>4. x # 0 /\ x - 1 \in Nat /\ x - 1 < x
  OBVIOUS
<1>5. x - 1 \in P
  BY <1>3, <1>4
<1>6. x - 1 + 1 = x
  OBVIOUS
<1> QED BY <1>5, <1>6

LEMMA AppendIs ==
    ASSUME NEW S, NEW r \in Seq(S), NEW x \in S, NEW s \in Seq(S), Len(s) = Len(r) + 1,
           s[Len(r) + 1] = x, \A i \in 1 .. Len(r) : s[i] = r[i]
    PROVE  s = Append(r, x)
<1> DEFINE more == Append(r, x)
<1>1. /\ more \in Seq(S) /\ Len(more) = Len(r) + 1 /\ more[Len(r) + 1] = x
      /\ \A i \in 1 .. Len(r) : more[i] = r[i]
  BY AppendProperties
<1> HIDE DEF more
<1>2. \A i \in 1 .. Len(s) : i \in 1 .. Len(r) \/ i = Len(r) + 1
  OBVIOUS
<1>3. \A i \in 1 .. Len(s) : more[i] = s[i]
  BY <1>1, <1>2
<1> QED BY <1>1, <1>3, SeqEqual DEF more

\* A set of sequences that has the empty one and every extension of its own.
LEMMA SequenceSets ==
    ASSUME NEW S, NEW P \in SUBSET Seq(S), <<>> \in P,
           \A s \in P : \A x \in S : Append(s, x) \in P
    PROVE  P = Seq(S)
<1> DEFINE N == {n \in Nat : \A s \in Seq(S) : Len(s) = n => s \in P}
<1>1. 0 \in N
  <2> SUFFICES ASSUME NEW s \in Seq(S), Len(s) = 0 PROVE s \in P
    OBVIOUS
  <2>1. s = <<>>
    BY EmptySeq
  <2> QED BY <2>1
<1>2. \A n \in N : n + 1 \in N
  <2> TAKE n \in N
  <2> SUFFICES ASSUME NEW s \in Seq(S), Len(s) = n + 1 PROVE s \in P
    OBVIOUS
  <2> DEFINE r == SubSeq(s, 1, n)
  <2>1. r \in Seq(S) /\ Len(r) = n /\ \A i \in 1 .. n : r[i] = s[i]
    OBVIOUS
  <2>2. s[n + 1] \in S
    OBVIOUS
  <2>3. s = Append(r, s[n + 1])
    <3> HIDE DEF r, N
    <3> QED BY <2>1, <2>2, AppendIs
  <2>4. r \in P
    BY <2>1
  <2> QED BY <2>2, <2>3, <2>4
<1>3. N = Nat
  <2> HIDE DEF N
  <2> QED BY <1>1, <1>2, NaturalSets DEF N
<1>4. \A s \in Seq(S) : Len(s) \in N
  BY <1>3
<1> QED BY <1>4

-----------------------------------------------------------------------------
(* Kept, by its recursion.                                                   *)

KeptNext(rows, keep, f, n) ==
    IF n = 0 THEN <<>> ELSE IF keep[n] THEN Append(f[n - 1], rows[n]) ELSE f[n - 1]
KeptUpTo(rows, keep, f, k) == f = [n \in 0 .. k |-> KeptNext(rows, keep, f, n)]

LEMMA KeptUpToExists ==
    ASSUME NEW rows, NEW keep
    PROVE  \A k \in Nat : \E f : KeptUpTo(rows, keep, f, k)
<1> DEFINE N == {k \in Nat : \E f : KeptUpTo(rows, keep, f, k)}
<1>1. 0 \in N
  <2> DEFINE f == [n \in 0 .. 0 |-> <<>>]
  <2>1. KeptUpTo(rows, keep, f, 0)
    BY DEF KeptUpTo, KeptNext
  <2> QED BY <2>1
<1>2. \A k \in N : k + 1 \in N
  <2> SUFFICES ASSUME NEW k \in N PROVE \E f : KeptUpTo(rows, keep, f, k + 1)
    OBVIOUS
  <2>1. PICK f : KeptUpTo(rows, keep, f, k)
    OBVIOUS
  <2> DEFINE g == [n \in 0 .. k + 1 |-> IF n = k + 1 THEN KeptNext(rows, keep, f, n) ELSE f[n]]
  <2>2. \A n \in 0 .. k : g[n] = f[n] /\ f[n] = KeptNext(rows, keep, f, n)
    BY <2>1 DEF KeptUpTo
  <2>3. \A n \in 0 .. k + 1 : KeptNext(rows, keep, g, n) = KeptNext(rows, keep, f, n)
    <3> HIDE DEF g
    <3> QED BY <2>2 DEF KeptNext
  <2>4. \A n \in 0 .. k + 1 : g[n] = KeptNext(rows, keep, g, n)
    BY <2>2, <2>3
  <2>5. KeptUpTo(rows, keep, g, k + 1)
    BY <2>4 DEF KeptUpTo
  <2> QED BY <2>5
<1>3. N = Nat
  <2> HIDE DEF N
  <2> QED BY <1>1, <1>2, NaturalSets DEF N
<1> QED BY <1>3

LEMMA KeptIs ==
    ASSUME NEW rows, NEW keep, Len(rows) \in Nat
    PROVE  \E f : KeptUpTo(rows, keep, f, Len(rows)) /\ Kept(rows, keep) = f[Len(rows)]
<1> DEFINE f == CHOOSE f : KeptUpTo(rows, keep, f, Len(rows))
<1>1. KeptUpTo(rows, keep, f, Len(rows))
  BY KeptUpToExists
<1>2. Kept(rows, keep) = f[Len(rows)]
  BY DEF Kept, KeptUpTo, KeptNext
<1> QED BY <1>1, <1>2

Begins(rows, keep, more, hold, k, n) ==
    /\ k \in Nat /\ Len(rows) = k /\ n \in Nat /\ Len(more) = k + n
    /\ \A i \in 1 .. k : more[i] = rows[i] /\ hold[i] = keep[i]

LEMMA KeptAgree ==
    ASSUME NEW rows, NEW keep, NEW more, NEW hold, NEW k, NEW n,
           Begins(rows, keep, more, hold, k, n)
    PROVE  \E g : KeptUpTo(more, hold, g, k + n) /\ Kept(more, hold) = g[k + n]
                   /\ g[k] = Kept(rows, keep)
<1> USE DEF Begins
<1>1. PICK f : KeptUpTo(rows, keep, f, k) /\ Kept(rows, keep) = f[k]
  BY KeptIs
<1>2. PICK g : KeptUpTo(more, hold, g, k + n) /\ Kept(more, hold) = g[k + n]
  BY KeptIs
<1> DEFINE N == {i \in Nat : i <= k => f[i] = g[i]}
<1>3. 0 \in N
  BY <1>1, <1>2 DEF KeptUpTo, KeptNext
<1>4. \A i \in N : i + 1 \in N
  <2> SUFFICES ASSUME NEW i \in N, i + 1 <= k PROVE f[i + 1] = g[i + 1]
    OBVIOUS
  <2>1. /\ f[i] = g[i] /\ i + 1 - 1 = i /\ i + 1 # 0
        /\ more[i + 1] = rows[i + 1] /\ hold[i + 1] = keep[i + 1]
    OBVIOUS
  <2>2. i + 1 \in 0 .. k /\ i + 1 \in 0 .. k + n
    OBVIOUS
  <2>3. f[i + 1] = KeptNext(rows, keep, f, i + 1)
    BY <1>1, <2>2 DEF KeptUpTo
  <2>4. g[i + 1] = KeptNext(more, hold, g, i + 1)
    BY <1>2, <2>2 DEF KeptUpTo
  <2> QED BY <2>1, <2>3, <2>4 DEF KeptNext
<1>5. N = Nat
  <2> HIDE DEF N
  <2> QED BY <1>3, <1>4, NaturalSets DEF N
<1>6. f[k] = g[k]
  BY <1>5
<1> QED BY <1>1, <1>2, <1>6

-----------------------------------------------------------------------------
(* The rows that are in a set.                                               *)

Only(rows, set) == Kept(rows, [n \in DOMAIN rows |-> rows[n] \in set])

LEMMA OnlyIs ==
    ASSUME NEW S, NEW rows \in Seq(S), NEW keep, NEW set,
           \A n \in 1 .. Len(rows) : keep[n] = (rows[n] \in set)
    PROVE  Kept(rows, keep) = Only(rows, set)
<1> DEFINE hold == [n \in DOMAIN rows |-> rows[n] \in set]
           k == Len(rows)
<1>1. k \in Nat /\ DOMAIN rows = 1 .. k
  OBVIOUS
<1>2. \A i \in 1 .. k : rows[i] = rows[i] /\ hold[i] = keep[i]
  BY <1>1
<1> HIDE DEF hold, k
<1>3. PICK g : KeptUpTo(rows, hold, g, k + 0) /\ Kept(rows, hold) = g[k + 0]
                 /\ g[k] = Kept(rows, keep)
  <2>1. Begins(rows, keep, rows, hold, k, 0)
    BY <1>1, <1>2 DEF k, Begins
  <2> QED BY <2>1, KeptAgree
<1>4. k + 0 = k
  BY <1>1
<1> QED BY <1>3, <1>4 DEF Only, hold

LEMMA OnlyNone == ASSUME NEW set PROVE Only(<<>>, set) = <<>>
BY KeptIs DEF Only, KeptUpTo, KeptNext

LEMMA OnlyMore ==
    ASSUME NEW S, NEW rows \in Seq(S), NEW row \in S, NEW set
    PROVE  Only(Append(rows, row), set) =
             IF row \in set THEN Append(Only(rows, set), row) ELSE Only(rows, set)
<1> DEFINE more == Append(rows, row)
           k == Len(rows)
           keep == [n \in DOMAIN rows |-> rows[n] \in set]
           hold == [n \in DOMAIN more |-> more[n] \in set]
<1>1. /\ Len(more) = k + 1 /\ k \in Nat /\ more[k + 1] = row /\ \A i \in 1 .. k : more[i] = rows[i]
      /\ DOMAIN rows = 1 .. k /\ DOMAIN more = 1 .. k + 1
  OBVIOUS
<1> HIDE DEF more
<1>2. \A i \in 1 .. k : more[i] = rows[i] /\ hold[i] = keep[i]
  BY <1>1
<1>3. (row \in set => hold[k + 1] = TRUE) /\ (row \notin set => hold[k + 1] = FALSE)
  <2>1. hold[k + 1] = (more[k + 1] \in set)
    BY <1>1
  <2>2. CASE more[k + 1] \in set
    BY <1>1, <2>1, <2>2
  <2>3. CASE more[k + 1] \notin set
    <3>1. (more[k + 1] \in set) = FALSE
      BY <2>3
    <3> QED BY <1>1, <2>1, <2>3, <3>1
  <2> QED BY <2>2, <2>3
<1> HIDE DEF hold, keep, k
<1>4. PICK g : KeptUpTo(more, hold, g, k + 1) /\ Kept(more, hold) = g[k + 1]
                 /\ g[k] = Kept(rows, keep)
  <2>1. Begins(rows, keep, more, hold, k, 1)
    BY <1>1, <1>2 DEF k, Begins
  <2> QED BY <2>1, KeptAgree
<1>5. g[k + 1] = IF row \in set THEN Append(g[k], row) ELSE g[k]
  <2>1. g[k + 1] = KeptNext(more, hold, g, k + 1)
    BY <1>1, <1>4 DEF KeptUpTo
  <2>2. k + 1 # 0 /\ k + 1 - 1 = k
    BY <1>1
  <2>3. CASE row \in set
    <3>1. hold[k + 1] = TRUE
      BY <1>3, <2>3
    <3> QED BY <1>1, <2>1, <2>2, <2>3, <3>1 DEF KeptNext
  <2>4. CASE row \notin set
    <3>1. hold[k + 1] = FALSE
      BY <1>3, <2>4
    <3> QED BY <1>1, <2>1, <2>2, <2>4, <3>1 DEF KeptNext
  <2> QED BY <2>3, <2>4
<1> QED BY <1>4, <1>5 DEF Only, more, hold, keep

-----------------------------------------------------------------------------
(* Sequences whose elements have no type of their own.                       *)

IsSeq(s) == s \in Seq(ToSet(s))

LEMMA ConcatAppend ==
    ASSUME NEW S, NEW s \in Seq(S), NEW r \in Seq(S), NEW x \in S
    PROVE  s \o Append(r, x) = Append(s \o r, x)
<1>1. Append(r, x) = r \o <<x>> /\ Append(s \o r, x) = (s \o r) \o <<x>> /\ <<x>> \in Seq(S)
  BY AppendIsConcat, ConcatProperties
<1> QED BY <1>1, ConcatAssociative

LEMMA SeqIs == ASSUME NEW S, NEW s \in Seq(S) PROVE IsSeq(s) /\ ToSet(s) \subseteq S
BY DEF IsSeq, ToSet

LEMMA SeqIsFunction ==
    ASSUME NEW n \in Nat, NEW s, DOMAIN s = 1 .. n, s = [i \in 1 .. n |-> s[i]]
    PROVE  IsSeq(s) /\ Len(s) = n
<1>1. s \in [1 .. n -> ToSet(s)]
  BY DEF ToSet
<1> QED BY <1>1 DEF IsSeq

LEMMA SeqDomain ==
    ASSUME NEW s, IsSeq(s)
    PROVE  /\ Len(s) \in Nat /\ DOMAIN s = 1 .. Len(s)
           /\ \A i \in 1 .. Len(s) : s[i] \in ToSet(s)
           /\ \A x \in ToSet(s) : \E i \in 1 .. Len(s) : s[i] = x
BY DEF IsSeq, ToSet

LEMMA SeqOne == ASSUME NEW x PROVE IsSeq(<<x>>) /\ ToSet(<<x>>) = {x}
BY DEF IsSeq, ToSet

LEMMA SeqNone == IsSeq(<<>>) /\ ToSet(<<>>) = {}
BY DEF IsSeq, ToSet

LEMMA SeqAppend ==
    ASSUME NEW s, IsSeq(s), NEW x
    PROVE  /\ IsSeq(Append(s, x)) /\ ToSet(Append(s, x)) = ToSet(s) \cup {x}
           /\ Len(Append(s, x)) = Len(s) + 1
<1> DEFINE S == ToSet(s) \cup {x}
           t == Append(s, x)
<1>1. /\ Len(s) \in Nat /\ DOMAIN s = 1 .. Len(s)
      /\ s \in Seq(S) /\ x \in S
  BY DEF IsSeq
<1> HIDE DEF S
<1>2. /\ t \in Seq(S) /\ Len(t) = Len(s) + 1 /\ t[Len(s) + 1] = x
      /\ \A i \in 1 .. Len(s) : t[i] = s[i]
  BY <1>1, AppendProperties
<1> HIDE DEF t
<1>3. IsSeq(t) /\ DOMAIN t = 1 .. Len(s) + 1
  BY <1>1, <1>2, SeqIs
<1>4. ToSet(t) = ToSet(s) \cup {x}
  <2>1. \A i \in 1 .. Len(s) + 1 : i \in 1 .. Len(s) \/ i = Len(s) + 1
    BY <1>1
  <2>2. \A y \in ToSet(t) : y \in ToSet(s) \cup {x}
    BY <1>1, <1>2, <1>3, <2>1 DEF ToSet
  <2>3. \A y \in ToSet(s) : y \in ToSet(t)
    BY <1>1, <1>2, <1>3 DEF ToSet
  <2>4. x \in ToSet(t)
    BY <1>1, <1>2, <1>3 DEF ToSet
  <2> QED BY <2>2, <2>3, <2>4
<1> QED BY <1>2, <1>3, <1>4 DEF t

LEMMA SeqConcat ==
    ASSUME NEW s, IsSeq(s), NEW t, IsSeq(t)
    PROVE  /\ IsSeq(s \o t) /\ ToSet(s \o t) = ToSet(s) \cup ToSet(t)
           /\ Len(s \o t) = Len(s) + Len(t)
<1> DEFINE S == ToSet(s) \cup ToSet(t)
           c == s \o t
<1>1. s \in Seq(S) /\ t \in Seq(S)
  BY DEF IsSeq
<1>2. /\ Len(s) \in Nat /\ DOMAIN s = 1 .. Len(s)
      /\ Len(t) \in Nat /\ DOMAIN t = 1 .. Len(t)
  BY DEF IsSeq
<1> HIDE DEF S
<1>3. /\ c \in Seq(S) /\ Len(c) = Len(s) + Len(t)
      /\ \A i \in 1 .. Len(s) + Len(t) : c[i] = IF i <= Len(s) THEN s[i] ELSE t[i - Len(s)]
  BY <1>1, ConcatProperties
<1> HIDE DEF c
<1>4. IsSeq(c) /\ DOMAIN c = 1 .. Len(s) + Len(t)
  BY <1>3, SeqIs
<1>5. ToSet(c) = ToSet(s) \cup ToSet(t)
  <2>1. \A y \in ToSet(c) : y \in ToSet(s) \cup ToSet(t)
    <3> SUFFICES ASSUME NEW i \in 1 .. Len(s) + Len(t) PROVE c[i] \in ToSet(s) \cup ToSet(t)
      BY <1>4 DEF ToSet
    <3>1. CASE i <= Len(s)
      BY <1>2, <1>3, <3>1 DEF ToSet
    <3>2. CASE ~(i <= Len(s))
      <4>1. i - Len(s) \in 1 .. Len(t)
        BY <1>2, <3>2
      <4> QED BY <1>2, <1>3, <3>2, <4>1 DEF ToSet
    <3> QED BY <3>1, <3>2
  <2>2. \A i \in 1 .. Len(s) : s[i] \in ToSet(c)
    <3> TAKE i \in 1 .. Len(s)
    <3>1. i \in 1 .. Len(s) + Len(t) /\ i <= Len(s)
      BY <1>2
    <3> QED BY <1>3, <1>4, <3>1 DEF ToSet
  <2>3. \A i \in 1 .. Len(t) : t[i] \in ToSet(c)
    <3> TAKE i \in 1 .. Len(t)
    <3>1. Len(s) + i \in 1 .. Len(s) + Len(t) /\ ~(Len(s) + i <= Len(s)) /\ Len(s) + i - Len(s) = i
      BY <1>2
    <3>2. c[Len(s) + i] = t[i]
      BY <1>3, <3>1
    <3> QED BY <1>4, <3>1, <3>2 DEF ToSet
  <2>4. \A y \in ToSet(s) \cup ToSet(t) : y \in ToSet(c)
    BY <1>2, <2>2, <2>3 DEF ToSet
  <2> QED BY <2>1, <2>4
<1> QED BY <1>3, <1>4, <1>5 DEF c

-----------------------------------------------------------------------------
(* The laws of Only, by induction over the rows.                             *)

LEMMA OnlyElements ==
    ASSUME NEW s, IsSeq(s), NEW set
    PROVE  /\ IsSeq(Only(s, set)) /\ ToSet(Only(s, set)) = ToSet(s) \cap set
           /\ Len(Only(s, set)) <= Len(s)
<1> DEFINE S == ToSet(s)
           Right(r) == /\ IsSeq(Only(r, set)) /\ ToSet(Only(r, set)) = ToSet(r) \cap set
                       /\ Len(Only(r, set)) <= Len(r)
           P == {r \in Seq(S) : Right(r)}
<1>1. <<>> \in P
  BY OnlyNone, SeqNone
<1>2. \A r \in P : \A x \in S : Append(r, x) \in P
  <2> SUFFICES ASSUME NEW r \in Seq(S), Right(r), NEW x \in S PROVE Right(Append(r, x))
    BY DEF S
  <2> HIDE DEF S
  <2>1. IsSeq(r)
    BY SeqIs
  <2>2. ToSet(Append(r, x)) = ToSet(r) \cup {x} /\ Len(Append(r, x)) = Len(r) + 1
    BY <2>1, SeqAppend
  <2>3. Len(r) \in Nat /\ Len(Only(r, set)) \in Nat
    BY <2>1, SeqDomain
  <2>4. CASE x \in set
    <3>1. Only(Append(r, x), set) = Append(Only(r, set), x)
      BY <2>4, OnlyMore
    <3>2. /\ IsSeq(Append(Only(r, set), x))
          /\ ToSet(Append(Only(r, set), x)) = ToSet(Only(r, set)) \cup {x}
          /\ Len(Append(Only(r, set), x)) = Len(Only(r, set)) + 1
      BY SeqAppend
    <3>3. (ToSet(r) \cap set) \cup {x} = (ToSet(r) \cup {x}) \cap set
      BY <2>4
    <3> QED BY <2>2, <2>3, <3>1, <3>2, <3>3
  <2>5. CASE x \notin set
    <3>1. Only(Append(r, x), set) = Only(r, set)
      BY <2>5, OnlyMore
    <3>2. ToSet(r) \cap set = (ToSet(r) \cup {x}) \cap set
      BY <2>5
    <3> QED BY <2>2, <2>3, <3>1, <3>2
  <2> QED BY <2>4, <2>5
<1>3. P = Seq(S)
  <2> HIDE DEF P
  <2> QED BY <1>1, <1>2, SequenceSets DEF P
<1>4. s \in P
  BY <1>3 DEF IsSeq
<1> QED BY <1>4

LEMMA OnlySame ==
    ASSUME NEW s, IsSeq(s), NEW E, NEW F, \A x \in ToSet(s) : x \in E <=> x \in F
    PROVE  Only(s, E) = Only(s, F)
<1> DEFINE S == ToSet(s)
           P == {r \in Seq(S) : Only(r, E) = Only(r, F)}
<1>1. <<>> \in P
  BY OnlyNone
<1>2. \A r \in P : \A x \in S : Append(r, x) \in P
  <2> SUFFICES ASSUME NEW r \in Seq(S), Only(r, E) = Only(r, F), NEW x \in S
               PROVE  Only(Append(r, x), E) = Only(Append(r, x), F)
    BY DEF S
  <2>1. x \in E <=> x \in F
    OBVIOUS
  <2> HIDE DEF S
  <2>2. Only(Append(r, x), E) = IF x \in E THEN Append(Only(r, E), x) ELSE Only(r, E)
    BY OnlyMore
  <2>3. Only(Append(r, x), F) = IF x \in F THEN Append(Only(r, F), x) ELSE Only(r, F)
    BY OnlyMore
  <2> QED BY <2>1, <2>2, <2>3
<1>3. P = Seq(S)
  <2> HIDE DEF P
  <2> QED BY <1>1, <1>2, SequenceSets DEF P
<1>4. s \in P
  BY <1>3 DEF IsSeq
<1> QED BY <1>4

LEMMA OnlyAll ==
    ASSUME NEW s, IsSeq(s), NEW set, ToSet(s) \subseteq set
    PROVE  Only(s, set) = s
<1> DEFINE S == ToSet(s)
           P == {r \in Seq(S) : Only(r, set) = r}
<1>1. <<>> \in P
  BY OnlyNone
<1>2. \A r \in P : \A x \in S : Append(r, x) \in P
  <2> SUFFICES ASSUME NEW r \in Seq(S), Only(r, set) = r, NEW x \in S
               PROVE  Only(Append(r, x), set) = Append(r, x)
    BY DEF S
  <2>1. x \in set
    OBVIOUS
  <2> HIDE DEF S
  <2> QED BY <2>1, OnlyMore
<1>3. P = Seq(S)
  <2> HIDE DEF P
  <2> QED BY <1>1, <1>2, SequenceSets DEF P
<1>4. s \in P
  BY <1>3 DEF IsSeq
<1> QED BY <1>4

LEMMA OnlyNothing ==
    ASSUME NEW s, IsSeq(s), NEW set, \A x \in ToSet(s) : x \notin set
    PROVE  Only(s, set) = <<>>
<1>1. Only(s, set) = Only(s, {})
  BY OnlySame
<1> DEFINE P == {r \in Seq(ToSet(s)) : Only(r, {}) = <<>>}
<1>2. <<>> \in P
  BY OnlyNone
<1>3. \A r \in P : \A x \in ToSet(s) : Append(r, x) \in P
  BY OnlyMore
<1>4. P = Seq(ToSet(s))
  <2> HIDE DEF P
  <2> QED BY <1>2, <1>3, SequenceSets DEF P
<1>5. s \in P
  BY <1>4 DEF IsSeq
<1> QED BY <1>1, <1>5

LEMMA OnlyOfOnly ==
    ASSUME NEW s, IsSeq(s), NEW E, NEW F
    PROVE  Only(Only(s, E), F) = Only(s, E \cap F)
<1> DEFINE S == ToSet(s)
           P == {r \in Seq(S) : Only(Only(r, E), F) = Only(r, E \cap F)}
<1>1. <<>> \in P
  BY OnlyNone
<1>2. \A r \in P : \A x \in S : Append(r, x) \in P
  <2> HIDE DEF S
  <2> SUFFICES ASSUME NEW r \in Seq(S), Only(Only(r, E), F) = Only(r, E \cap F), NEW x \in S
               PROVE  Only(Only(Append(r, x), E), F) = Only(Append(r, x), E \cap F)
    <3>1. ASSUME NEW r \in Seq(S), NEW x \in S PROVE Append(r, x) \in Seq(S)
      OBVIOUS
    <3> QED BY <3>1
  <2>1. IsSeq(r) /\ ToSet(r) \subseteq S
    BY SeqIs
  <2> DEFINE k == Only(r, E)
  <2>2. k \in Seq(S)
    <3>1. IsSeq(k) /\ ToSet(k) \subseteq S
      BY <2>1, OnlyElements
    <3> QED BY <3>1, SeqMonotonic DEF IsSeq
  <2>3. Only(Append(r, x), E) = IF x \in E THEN Append(k, x) ELSE k
    BY OnlyMore
  <2>4. Only(Append(r, x), E \cap F) =
          IF x \in E /\ x \in F THEN Append(Only(r, E \cap F), x) ELSE Only(r, E \cap F)
    BY OnlyMore
  <2> HIDE DEF k
  <2>5. Only(Append(k, x), F) = IF x \in F THEN Append(Only(k, F), x) ELSE Only(k, F)
    BY <2>2, OnlyMore
  <2>6. Only(k, F) = Only(r, E \cap F)
    BY DEF k
  <2>7. CASE x \in E
    <3>1. Only(Append(r, x), E) = Append(k, x)
      BY <2>3, <2>7
    <3>2. Only(Append(k, x), F) = Only(Append(r, x), E \cap F)
      BY <2>4, <2>5, <2>6, <2>7
    <3> QED BY <3>1, <3>2
  <2>8. CASE x \notin E
    <3>1. Only(Append(r, x), E) = k
      BY <2>3, <2>8
    <3>2. Only(k, F) = Only(Append(r, x), E \cap F)
      BY <2>4, <2>6, <2>8
    <3> QED BY <3>1, <3>2
  <2> QED BY <2>7, <2>8
<1>3. P = Seq(S)
  <2> HIDE DEF P
  <2> QED BY <1>1, <1>2, SequenceSets DEF P
<1>4. s \in P
  BY <1>3 DEF IsSeq
<1> QED BY <1>4

LEMMA OnlyOfConcat ==
    ASSUME NEW s, IsSeq(s), NEW t, IsSeq(t), NEW set
    PROVE  Only(s \o t, set) = Only(s, set) \o Only(t, set)
<1> DEFINE T == ToSet(t)
           A == ToSet(s) \cup T
           P == {r \in Seq(T) : Only(s \o r, set) = Only(s, set) \o Only(r, set)}
<1>0. s \in Seq(A) /\ IsSeq(Only(s, set)) /\ T \subseteq A /\ ToSet(Only(s, set)) \subseteq A
  BY OnlyElements, SeqMonotonic DEF IsSeq
<1>1. <<>> \in P
  <2>1. s \o <<>> = s /\ Only(s, set) \o <<>> = Only(s, set)
    BY <1>0, ConcatEmptySeq DEF IsSeq
  <2>2. Only(<<>>, set) = <<>>
    BY OnlyNone
  <2>3. <<>> \in Seq(T)
    OBVIOUS
  <2> QED BY <2>1, <2>2, <2>3
<1>2. \A r \in P : \A x \in T : Append(r, x) \in P
  <2> SUFFICES ASSUME NEW r \in Seq(T), Only(s \o r, set) = Only(s, set) \o Only(r, set),
                      NEW x \in T
               PROVE  Only(s \o Append(r, x), set) = Only(s, set) \o Only(Append(r, x), set)
    BY DEF T
  <2> HIDE DEF T, A
  <2>1. r \in Seq(A) /\ x \in A /\ IsSeq(r)
    BY <1>0, SeqIs
  <2> DEFINE a == Only(s, set)
             b == Only(r, set)
  <2>2. a \in Seq(A) /\ b \in Seq(A)
    <3>1. IsSeq(b) /\ ToSet(b) \subseteq T
      BY <2>1, SeqIs, OnlyElements
    <3> QED BY <1>0, <3>1, SeqMonotonic DEF IsSeq
  <2>3. s \o r \in Seq(A)
    BY <1>0, <2>1, ConcatProperties
  <2>4. s \o Append(r, x) = Append(s \o r, x)
    BY <1>0, <2>1, ConcatAppend
  <2>5. a \o Append(b, x) = Append(a \o b, x)
    <3> HIDE DEF a, b
    <3> QED BY <2>1, <2>2, ConcatAppend
  <2>6. Only(Append(r, x), set) = IF x \in set THEN Append(b, x) ELSE b
    BY OnlyMore
  <2>7. Only(Append(s \o r, x), set) =
          IF x \in set THEN Append(Only(s \o r, set), x) ELSE Only(s \o r, set)
    <3> DEFINE u == s \o r
    <3> HIDE DEF u
    <3>1. u \in Seq(A)
      BY <2>3 DEF u
    <3>2. Only(Append(u, x), set) = IF x \in set THEN Append(Only(u, set), x) ELSE Only(u, set)
      BY <2>1, <3>1, OnlyMore
    <3> QED BY <3>2 DEF u
  <2> QED BY <2>4, <2>5, <2>6, <2>7
<1>3. P = Seq(T)
  <2> HIDE DEF P
  <2> QED BY <1>1, <1>2, SequenceSets DEF P
<1>4. t \in P
  BY <1>3 DEF IsSeq
<1> QED BY <1>4

-----------------------------------------------------------------------------
(* FlattenSeq, by its recursion.                                             *)

FlatNext(ss, f, n) == IF n = 1 THEN ss[n] ELSE f[n - 1] \o ss[n]
FlatUpTo(ss, f, k) == f = [n \in 1 .. k |-> FlatNext(ss, f, n)]

LEMMA FlatUpToExists == ASSUME NEW ss PROVE \A k \in Nat : \E f : FlatUpTo(ss, f, k)
<1> DEFINE N == {k \in Nat : \E f : FlatUpTo(ss, f, k)}
<1>1. 0 \in N
  <2> DEFINE f == [n \in 1 .. 0 |-> <<>>]
  <2>1. FlatUpTo(ss, f, 0)
    BY DEF FlatUpTo
  <2> QED BY <2>1
<1>2. \A k \in N : k + 1 \in N
  <2> SUFFICES ASSUME NEW k \in N PROVE \E f : FlatUpTo(ss, f, k + 1)
    OBVIOUS
  <2>1. PICK f : FlatUpTo(ss, f, k)
    OBVIOUS
  <2> DEFINE g == [n \in 1 .. k + 1 |-> IF n = k + 1 THEN FlatNext(ss, f, n) ELSE f[n]]
  <2>0. k \in Nat
    OBVIOUS
  <2>2. \A n \in 1 .. k : g[n] = f[n] /\ f[n] = FlatNext(ss, f, n)
    <3>1. \A n \in 1 .. k : g[n] = f[n]
      <4> HIDE DEF N
      <4> QED BY <2>0
    <3>2. \A n \in 1 .. k : f[n] = FlatNext(ss, f, n)
      BY <2>1 DEF FlatUpTo
    <3> QED BY <3>1, <3>2
  <2>3. \A n \in 1 .. k + 1 : FlatNext(ss, g, n) = FlatNext(ss, f, n)
    <3> HIDE DEF g
    <3> QED BY <2>2 DEF FlatNext
  <2>4. \A n \in 1 .. k + 1 : g[n] = FlatNext(ss, g, n)
    <3> HIDE DEF N
    <3>1. \A n \in 1 .. k + 1 : n = k + 1 \/ n \in 1 .. k
      BY <2>0
    <3>2. g[k + 1] = FlatNext(ss, f, k + 1)
      BY <2>0
    <3> HIDE DEF g
    <3>3. k + 1 \in 1 .. k + 1
      BY <2>0
    <3> QED BY <2>2, <2>3, <3>1, <3>2, <3>3
  <2>5. FlatUpTo(ss, g, k + 1)
    BY <2>4 DEF FlatUpTo
  <2> QED BY <2>5
<1>3. N = Nat
  <2> HIDE DEF N
  <2> QED BY <1>1, <1>2, NaturalSets DEF N
<1> QED BY <1>3

LEMMA FlatIs ==
    ASSUME NEW ss, Len(ss) \in Nat \ {0}
    PROVE  \E f : FlatUpTo(ss, f, Len(ss)) /\ FlattenSeq(ss) = f[Len(ss)]
<1> DEFINE f == CHOOSE f : FlatUpTo(ss, f, Len(ss))
<1>1. FlatUpTo(ss, f, Len(ss))
  BY FlatUpToExists
<1>2. FlattenSeq(ss) = f[Len(ss)]
  BY DEF FlattenSeq, FlatUpTo, FlatNext
<1> QED BY <1>1, <1>2

LEMMA FlatMore ==
    ASSUME NEW S, NEW ss \in Seq(S), NEW s \in S
    PROVE  FlattenSeq(Append(ss, s)) = IF ss = <<>> THEN s ELSE FlattenSeq(ss) \o s
<1> DEFINE more == Append(ss, s)
           k == Len(ss)
<1>1. /\ Len(more) = k + 1 /\ k \in Nat /\ more[k + 1] = s /\ \A i \in 1 .. k : more[i] = ss[i]
      /\ ss = <<>> <=> k = 0
  OBVIOUS
<1> HIDE DEF more
<1>2. PICK g : FlatUpTo(more, g, k + 1) /\ FlattenSeq(more) = g[k + 1]
  BY <1>1, FlatIs
<1>3. g[k + 1] = FlatNext(more, g, k + 1)
  <2> HIDE DEF k
  <2>1. k + 1 \in 1 .. k + 1
    BY <1>1
  <2> QED BY <1>2, <2>1 DEF FlatUpTo
<1>4. CASE k = 0
  BY <1>1, <1>2, <1>3, <1>4 DEF FlatNext, more
<1>5. CASE k # 0
  <2>1. PICK f : FlatUpTo(ss, f, k) /\ FlattenSeq(ss) = f[k]
    BY <1>1, <1>5, FlatIs
  <2> HIDE DEF k
  <2> DEFINE N == {n \in Nat : n + 1 <= k => f[n + 1] = g[n + 1]}
  <2>2. 0 \in N
    <3>1. 1 \in 1 .. k /\ 1 \in 1 .. k + 1 /\ 0 + 1 = 1
      BY <1>1, <1>5
    <3>2. f[1] = FlatNext(ss, f, 1) /\ g[1] = FlatNext(more, g, 1)
      BY <1>2, <2>1, <3>1 DEF FlatUpTo
    <3> QED BY <1>1, <3>1, <3>2 DEF FlatNext
  <2>3. \A n \in N : n + 1 \in N
    <3> SUFFICES ASSUME NEW n \in N, n + 1 + 1 <= k PROVE f[n + 1 + 1] = g[n + 1 + 1]
      OBVIOUS
    <3> DEFINE m == n + 1 + 1
    <3>1. m \in 1 .. k /\ m \in 1 .. k + 1 /\ m # 1 /\ m - 1 = n + 1 /\ f[n + 1] = g[n + 1]
      BY <1>1
    <3> HIDE DEF m
    <3>2. f[m] = FlatNext(ss, f, m) /\ g[m] = FlatNext(more, g, m)
      BY <1>2, <2>1, <3>1 DEF FlatUpTo
    <3>3. f[m] = g[m]
      BY <1>1, <3>1, <3>2 DEF FlatNext
    <3> QED BY <3>3 DEF m
  <2>4. N = Nat
    <3> HIDE DEF N
    <3> QED BY <2>2, <2>3, NaturalSets DEF N
  <2>5. k - 1 \in N /\ k - 1 + 1 = k
    BY <1>1, <1>5, <2>4
  <2>6. f[k] = g[k]
    BY <2>5
  <2>7. k + 1 # 1 /\ k + 1 - 1 = k
    BY <1>1, <1>5
  <2>8. g[k + 1] = g[k] \o s
    BY <1>1, <1>3, <2>7 DEF FlatNext
  <2> QED BY <1>1, <1>2, <1>5, <2>1, <2>6, <2>8 DEF more
<1> QED BY <1>4, <1>5

LEMMA FlatElements ==
    ASSUME NEW ss, IsSeq(ss), \A s \in ToSet(ss) : IsSeq(s)
    PROVE  /\ IsSeq(FlattenSeq(ss))
           /\ \A x : x \in ToSet(FlattenSeq(ss)) <=> \E s \in ToSet(ss) : x \in ToSet(s)
<1> DEFINE S == ToSet(ss)
           Right(r) == /\ IsSeq(FlattenSeq(r))
                       /\ \A x : x \in ToSet(FlattenSeq(r)) <=> \E s \in ToSet(r) : x \in ToSet(s)
           P == {r \in Seq(S) : Right(r)}
<1>1. <<>> \in P
  <2>1. FlattenSeq(<<>>) = <<>>
    BY DEF FlattenSeq
  <2> QED BY <2>1, SeqNone
<1>2. \A r \in P : \A s \in S : Append(r, s) \in P
  <2> SUFFICES ASSUME NEW r \in Seq(S), Right(r), NEW s \in S PROVE Right(Append(r, s))
    BY DEF S
  <2>1. IsSeq(s)
    OBVIOUS
  <2> HIDE DEF S
  <2>2. IsSeq(r) /\ ToSet(Append(r, s)) = ToSet(r) \cup {s}
    BY SeqIs, SeqAppend
  <2>3. CASE r = <<>>
    <3>1. FlattenSeq(Append(r, s)) = s /\ ToSet(Append(r, s)) = {s}
      BY <2>2, <2>3, FlatMore, SeqNone
    <3> QED BY <2>1, <3>1
  <2>4. CASE r # <<>>
    <3> DEFINE f == FlattenSeq(r)
    <3>1. FlattenSeq(Append(r, s)) = f \o s
      BY <2>4, FlatMore
    <3>2. IsSeq(f \o s) /\ ToSet(f \o s) = ToSet(f) \cup ToSet(s)
      BY <2>1, SeqConcat
    <3>3. \A x : x \in ToSet(f) <=> \E q \in ToSet(r) : x \in ToSet(q)
      OBVIOUS
    <3> HIDE DEF f
    <3> QED BY <2>2, <3>1, <3>2, <3>3
  <2> QED BY <2>3, <2>4
<1>3. P = Seq(S)
  <2> HIDE DEF P
  <2> QED BY <1>1, <1>2, SequenceSets DEF P
<1>4. ss \in P
  BY <1>3 DEF IsSeq
<1> QED BY <1>4

\* At most that many elements each.
LEMMA FlatLength ==
    ASSUME NEW ss, IsSeq(ss), NEW most \in Nat, \A s \in ToSet(ss) : IsSeq(s) /\ Len(s) <= most
    PROVE  Len(FlattenSeq(ss)) <= Len(ss) * most
<1> DEFINE S == ToSet(ss)
           Right(r) == IsSeq(FlattenSeq(r)) /\ Len(FlattenSeq(r)) <= Len(r) * most
           P == {r \in Seq(S) : Right(r)}
<1>1. <<>> \in P
  <2>1. FlattenSeq(<<>>) = <<>> /\ Len(<<>>) = 0 /\ 0 * most = 0
    BY DEF FlattenSeq
  <2> QED BY <2>1, SeqNone
<1>2. \A r \in P : \A s \in S : Append(r, s) \in P
  <2> SUFFICES ASSUME NEW r \in Seq(S), Right(r), NEW s \in S PROVE Right(Append(r, s))
    BY DEF S
  <2>1. IsSeq(s) /\ Len(s) <= most /\ Len(s) \in Nat
    BY SeqDomain
  <2> HIDE DEF S
  <2>2. Len(Append(r, s)) = Len(r) + 1 /\ Len(r) \in Nat
    OBVIOUS
  <2>3. (Len(r) + 1) * most = Len(r) * most + most /\ Len(r) * most \in Nat
    BY <2>2
  <2>4. CASE r = <<>>
    <3>1. FlattenSeq(Append(r, s)) = s
      BY <2>4, FlatMore
    <3> QED BY <2>1, <2>2, <2>3, <3>1
  <2>5. CASE r # <<>>
    <3> DEFINE f == FlattenSeq(r)
    <3>1. FlattenSeq(Append(r, s)) = f \o s
      BY <2>5, FlatMore
    <3>2. IsSeq(f \o s) /\ Len(f \o s) = Len(f) + Len(s) /\ Len(f) \in Nat
      BY <2>1, SeqConcat, SeqDomain
    <3> HIDE DEF f
    <3>3. Len(f) <= Len(r) * most
      BY DEF f
    <3> QED BY <2>1, <2>2, <2>3, <3>1, <3>2, <3>3
  <2> QED BY <2>4, <2>5
<1>3. P = Seq(S)
  <2> HIDE DEF P
  <2> QED BY <1>1, <1>2, SequenceSets DEF P
<1>4. ss \in P
  BY <1>3 DEF IsSeq
<1> QED BY <1>4

-----------------------------------------------------------------------------
(* Sequences without one of their elements.                                  *)

LEMMA SmallestPlace ==
    ASSUME NEW S \in SUBSET Nat, S # {}
    PROVE  Min(S) \in S /\ \A y \in S : Min(S) <= y
<1>1. IsWellFoundedOn(OpToRel(<, Nat), Nat)
  BY NatLessThanWellFounded
<1>2. \E x \in S : \A y \in S : ~ (<<y, x>> \in OpToRel(<, Nat))
  BY <1>1, WFMin
<1>3. PICK x \in S : \A y \in S : ~ (y < x)
  BY <1>2 DEF OpToRel
<1>4. x \in S /\ \A y \in S : x =< y
  BY <1>3
<1> QED BY <1>4 DEF Min

LEMMA TailElements ==
    ASSUME NEW s, IsSeq(s), s # <<>>
    PROVE  IsSeq(Tail(s)) /\ ToSet(Tail(s)) \subseteq ToSet(s) /\ Len(Tail(s)) = Len(s) - 1
<1> DEFINE S == ToSet(s)
<1>1. s \in Seq(S)
  BY DEF IsSeq
<1> HIDE DEF S
<1>2. Tail(s) \in Seq(S) /\ Len(Tail(s)) = Len(s) - 1
  BY <1>1
<1> QED BY <1>2, SeqIs DEF S

\* The places before it, and those after it.
LEMMA SeqAround ==
    ASSUME NEW s, IsSeq(s), NEW i \in DOMAIN s
    PROVE  LET a == SubSeq(s, 1, i - 1)
               b == SubSeq(s, i + 1, Len(s))
           IN  /\ IsSeq(a) /\ IsSeq(b) /\ RemoveAt(s, i) = a \o b
               /\ s = Append(a, s[i]) \o b
<1> DEFINE S == ToSet(s)
           a == SubSeq(s, 1, i - 1)
           b == SubSeq(s, i + 1, Len(s))
           c == Append(a, s[i])
           n == Len(s)
<1>1. s \in Seq(S) /\ n \in Nat /\ DOMAIN s = 1 .. n /\ s[i] \in S /\ i \in 1 .. n
  BY DEF IsSeq, ToSet
<1> HIDE DEF S
<1>2. a \in Seq(S) /\ Len(a) = i - 1 /\ \A j \in 1 .. i - 1 : a[j] = s[j]
  BY <1>1
<1>3. b \in Seq(S) /\ Len(b) = n - i /\ \A j \in 1 .. n - i : b[j] = s[i + j]
  BY <1>1
<1> HIDE DEF a, b
<1>4. c \in Seq(S) /\ Len(c) = i /\ c[i] = s[i] /\ \A j \in 1 .. i - 1 : c[j] = s[j]
  BY <1>1, <1>2, AppendProperties
<1> HIDE DEF c
<1> DEFINE d == c \o b
<1>5. /\ d \in Seq(S) /\ Len(d) = n
      /\ \A j \in 1 .. n : d[j] = IF j <= i THEN c[j] ELSE b[j - i]
  <2>1. /\ d \in Seq(S) /\ Len(d) = Len(c) + Len(b)
        /\ \A j \in 1 .. Len(c) + Len(b) : d[j] = IF j <= Len(c) THEN c[j] ELSE b[j - Len(c)]
    BY <1>3, <1>4, ConcatProperties
  <2>2. Len(c) + Len(b) = n
    BY <1>1, <1>3, <1>4
  <2> HIDE DEF d
  <2> QED BY <1>4, <2>1, <2>2
<1> HIDE DEF d
<1>6. \A j \in 1 .. n : d[j] = s[j]
  <2> TAKE j \in 1 .. n
  <2>1. CASE j < i
    BY <1>1, <1>4, <1>5, <2>1
  <2>2. CASE j = i
    BY <1>1, <1>4, <1>5, <2>2
  <2>3. CASE j > i
    <3>1. j - i \in 1 .. n - i /\ i + (j - i) = j /\ ~(j <= i)
      BY <1>1, <2>3
    <3> QED BY <1>3, <1>5, <3>1
  <2> QED BY <1>1, <2>1, <2>2, <2>3
<1>7. s = d
  BY <1>1, <1>5, <1>6, SeqEqual DEF n
<1>8. IsSeq(a) /\ IsSeq(b)
  BY <1>2, <1>3, SeqIs
<1>9. RemoveAt(s, i) = a \o b
  BY DEF RemoveAt, a, b, n
<1> QED BY <1>7, <1>8, <1>9 DEF a, b, c, d, n

LEMMA RemoveAtElements ==
    ASSUME NEW s, IsSeq(s), NEW i \in DOMAIN s
    PROVE  /\ IsSeq(RemoveAt(s, i)) /\ ToSet(RemoveAt(s, i)) \subseteq ToSet(s)
           /\ ToSet(s) = ToSet(RemoveAt(s, i)) \cup {s[i]}
<1> DEFINE a == SubSeq(s, 1, i - 1)
           b == SubSeq(s, i + 1, Len(s))
<1>1. IsSeq(a) /\ IsSeq(b) /\ RemoveAt(s, i) = a \o b /\ s = Append(a, s[i]) \o b
  BY SeqAround
<1> HIDE DEF a, b
<1>2. IsSeq(Append(a, s[i])) /\ ToSet(Append(a, s[i])) = ToSet(a) \cup {s[i]}
  BY <1>1, SeqAppend
<1>3. IsSeq(a \o b) /\ ToSet(a \o b) = ToSet(a) \cup ToSet(b)
  BY <1>1, SeqConcat
<1> DEFINE c == Append(a, s[i])
<1> HIDE DEF c
<1>4. ToSet(c \o b) = ToSet(c) \cup ToSet(b)
  BY <1>1, <1>2, SeqConcat DEF c
<1>5. ToSet(s) = (ToSet(a) \cup {s[i]}) \cup ToSet(b)
  BY <1>1, <1>2, <1>4 DEF c
<1> QED BY <1>1, <1>3, <1>5

LEMMA ExceptIsSeq ==
    ASSUME NEW s, IsSeq(s), NEW i \in DOMAIN s, NEW x
    PROVE  /\ IsSeq([s EXCEPT ![i] = x])
           /\ ToSet([s EXCEPT ![i] = x]) \subseteq ToSet(s) \cup {x}
<1> DEFINE t == [s EXCEPT ![i] = x]
           n == Len(s)
<1>1. n \in Nat /\ DOMAIN s = 1 .. n
  BY SeqDomain
<1>2. DOMAIN t = 1 .. n /\ t = [j \in 1 .. n |-> t[j]]
  BY <1>1 DEF IsSeq
<1>3. ToSet(t) \subseteq ToSet(s) \cup {x}
  BY <1>1, <1>2 DEF ToSet
<1> HIDE DEF t, n
<1> QED BY <1>1, <1>2, <1>3, SeqIsFunction DEF t

-----------------------------------------------------------------------------
(* Rows with ids of their own.                                               *)

Identified(s) == \A i, j \in DOMAIN s : s[i].id = s[j].id => i = j
Disjoint(s, t) == \A x \in ToSet(s), y \in ToSet(t) : x.id # y.id

LEMMA IdentifiedConcat ==
    ASSUME NEW s, IsSeq(s), NEW t, IsSeq(t)
    PROVE  Identified(s \o t) <=> Identified(s) /\ Identified(t) /\ Disjoint(s, t)
<1> DEFINE c == s \o t
           m == Len(s)
           n == Len(t)
<1>1. /\ m \in Nat /\ DOMAIN s = 1 .. m /\ n \in Nat /\ DOMAIN t = 1 .. n
      /\ DOMAIN c = 1 .. m + n
  BY SeqDomain, SeqConcat
<1>2. \A i \in 1 .. m + n : c[i] = IF i <= m THEN s[i] ELSE t[i - m]
  BY ConcatProperties DEF IsSeq
<1> HIDE DEF c, m, n
<1>3. /\ \A i \in 1 .. m : i \in 1 .. m + n /\ c[i] = s[i]
      /\ \A i \in 1 .. n : m + i \in 1 .. m + n /\ c[m + i] = t[i]
  <2>1. \A i \in 1 .. m : i \in 1 .. m + n /\ i <= m
    BY <1>1
  <2>2. \A i \in 1 .. n : m + i \in 1 .. m + n /\ ~(m + i <= m) /\ m + i - m = i
    BY <1>1
  <2>3. \A i \in 1 .. m : c[i] = s[i]
    BY <1>2, <2>1
  <2>4. ASSUME NEW i \in 1 .. n PROVE c[m + i] = t[i]
    <3> DEFINE p == m + i
    <3>1. p \in 1 .. m + n /\ ~(p <= m) /\ p - m = i
      BY <1>1
    <3> HIDE DEF p
    <3>2. c[p] = t[i]
      BY <1>2, <3>1
    <3> QED BY <3>2 DEF p
  <2> QED BY <2>1, <2>2, <2>3, <2>4
<1>4. ASSUME Identified(c) PROVE Identified(s) /\ Identified(t) /\ Disjoint(s, t)
  <2>1. Identified(s)
    BY <1>1, <1>3, <1>4 DEF Identified
  <2>2. Identified(t)
    <3> SUFFICES ASSUME NEW i \in 1 .. n, NEW j \in 1 .. n, t[i].id = t[j].id PROVE i = j
      BY <1>1 DEF Identified
    <3>1. m + i = m + j
      BY <1>1, <1>3, <1>4 DEF Identified
    <3> QED BY <1>1, <3>1
  <2>3. Disjoint(s, t)
    <3> SUFFICES ASSUME NEW i \in 1 .. m, NEW j \in 1 .. n, s[i].id = t[j].id PROVE FALSE
      BY <1>1 DEF Disjoint, ToSet
    <3>1. i = m + j
      BY <1>1, <1>3, <1>4 DEF Identified
    <3> QED BY <1>1, <3>1
  <2> QED BY <2>1, <2>2, <2>3
<1>5. ASSUME Identified(s), Identified(t), Disjoint(s, t) PROVE Identified(c)
  <2> SUFFICES ASSUME NEW i \in 1 .. m + n, NEW j \in 1 .. m + n, c[i].id = c[j].id PROVE i = j
    BY <1>1 DEF Identified
  <2>1. CASE i <= m /\ j <= m
    BY <1>1, <1>2, <1>5, <2>1 DEF Identified
  <2>2. CASE ~(i <= m) /\ ~(j <= m)
    <3>1. i - m \in 1 .. n /\ j - m \in 1 .. n
      BY <1>1, <2>2
    <3>2. i - m = j - m
      BY <1>1, <1>2, <1>5, <2>2, <3>1 DEF Identified
    <3> QED BY <1>1, <3>2
  <2>3. ASSUME NEW a \in 1 .. m + n, NEW b \in 1 .. m + n, a <= m, ~(b <= m) PROVE c[a].id # c[b].id
    <3>1. a \in 1 .. m /\ b - m \in 1 .. n
      BY <1>1, <2>3
    <3>2. s[a] \in ToSet(s) /\ t[b - m] \in ToSet(t) /\ c[a] = s[a] /\ c[b] = t[b - m]
      BY <1>1, <1>2, <2>3, <3>1 DEF ToSet
    <3> QED BY <1>5, <3>2 DEF Disjoint
  <2> QED BY <2>1, <2>2, <2>3
<1> QED BY <1>4, <1>5 DEF c

LEMMA IdentifiedOne == ASSUME NEW x PROVE Identified(<<x>>) /\ Identified(<<>>)
BY DEF Identified

LEMMA IdentifiedAppend ==
    ASSUME NEW s, IsSeq(s), NEW x
    PROVE  Identified(Append(s, x)) <=> Identified(s) /\ \A y \in ToSet(s) : y.id # x.id
<1>1. Append(s, x) = s \o <<x>>
  <2>1. s \in Seq(ToSet(s) \cup {x}) /\ x \in ToSet(s) \cup {x}
    BY SeqDomain DEF IsSeq
  <2> QED BY <2>1, AppendIsConcat
<1>2. IsSeq(<<x>>) /\ ToSet(<<x>>) = {x}
  BY SeqOne
<1> DEFINE one == <<x>>
<1>3. Identified(one)
  BY IdentifiedOne
<1> HIDE DEF one
<1> QED BY <1>1, <1>2, <1>3, IdentifiedConcat DEF Disjoint, one

LEMMA IdentifiedOnly ==
    ASSUME NEW s, IsSeq(s), Identified(s), NEW set
    PROVE  Identified(Only(s, set))
<1> DEFINE S == ToSet(s)
           P == {r \in Seq(S) : Identified(r) => Identified(Only(r, set))}
<1>1. <<>> \in P
  BY OnlyNone
<1>2. \A r \in P : \A x \in S : Append(r, x) \in P
  <2> SUFFICES ASSUME NEW r \in Seq(S), Identified(r) => Identified(Only(r, set)), NEW x \in S,
                      Identified(Append(r, x))
               PROVE  Identified(Only(Append(r, x), set))
    BY DEF S
  <2> HIDE DEF S
  <2>1. IsSeq(r) /\ IsSeq(Only(r, set)) /\ ToSet(Only(r, set)) \subseteq ToSet(r)
    BY SeqIs, OnlyElements
  <2>2. Identified(r) /\ \A y \in ToSet(r) : y.id # x.id
    BY <2>1, IdentifiedAppend
  <2>3. Identified(Append(Only(r, set), x))
    BY <2>1, <2>2, IdentifiedAppend
  <2> QED BY <2>2, <2>3, OnlyMore
<1>3. P = Seq(S)
  <2> HIDE DEF P
  <2> QED BY <1>1, <1>2, SequenceSets DEF P
<1>4. s \in P
  BY <1>3 DEF IsSeq
<1> QED BY <1>4

LEMMA IdentifiedRemoveAt ==
    ASSUME NEW s, IsSeq(s), Identified(s), NEW i \in DOMAIN s
    PROVE  Identified(RemoveAt(s, i))
<1> DEFINE a == SubSeq(s, 1, i - 1)
           b == SubSeq(s, i + 1, Len(s))
<1>1. IsSeq(a) /\ IsSeq(b) /\ RemoveAt(s, i) = a \o b /\ s = Append(a, s[i]) \o b
  BY SeqAround
<1> HIDE DEF a, b
<1> DEFINE c == Append(a, s[i])
<1>2. IsSeq(c) /\ ToSet(a) \subseteq ToSet(c)
  BY <1>1, SeqAppend
<1>3. s = c \o b
  BY <1>1
<1>4. Identified(c) => Identified(a)
  BY <1>1, IdentifiedAppend
<1> HIDE DEF c
<1>5. Identified(c) /\ Identified(b) /\ Disjoint(c, b)
  BY <1>1, <1>2, <1>3, IdentifiedConcat
<1> QED BY <1>1, <1>2, <1>4, <1>5, IdentifiedConcat DEF Disjoint

\* The same places are kept of two sequences, with the same rows there.
LEMMA OnlyPlaces ==
    ASSUME NEW s, IsSeq(s), NEW t, IsSeq(t), Len(s) = Len(t), NEW E, NEW F,
           \A i \in 1 .. Len(s) : (s[i] \in E <=> t[i] \in F) /\ (s[i] \in E => s[i] = t[i])
    PROVE  Only(s, E) = Only(t, F)
<1> DEFINE n == Len(s)
           keep == [i \in 1 .. n |-> s[i] \in E]
<1>1. n \in Nat /\ DOMAIN s = 1 .. n /\ DOMAIN t = 1 .. n
  BY SeqDomain
<1>2. \A i \in 1 .. n : keep[i] = (s[i] \in E) /\ keep[i] = (t[i] \in F)
  OBVIOUS
<1>3. \A i \in 1 .. n : (s[i] \in E => keep[i] = TRUE) /\ (s[i] \notin E => keep[i] = FALSE)
  <2> TAKE i \in 1 .. n
  <2>1. CASE s[i] \in E
    BY <1>2, <2>1
  <2>2. CASE s[i] \notin E
    <3>1. (s[i] \in E) = FALSE
      BY <2>2
    <3> QED BY <1>2, <2>2, <3>1
  <2> QED BY <2>1, <2>2
<1> HIDE DEF keep
<1>4. Only(s, E) = Kept(s, keep) /\ Only(t, F) = Kept(t, keep)
  BY <1>1, <1>2, OnlyIs DEF IsSeq
<1>8. PICK f : KeptUpTo(s, keep, f, n) /\ Only(s, E) = f[n]
  BY <1>1, <1>4, KeptIs
<1>9. PICK g : KeptUpTo(t, keep, g, n) /\ Only(t, F) = g[n]
  BY <1>1, <1>4, KeptIs
<1>10. \A i \in 1 .. n : s[i] \in E => s[i] = t[i]
  OBVIOUS
<1> HIDE DEF n
<1> DEFINE N == {k \in Nat : k <= n => f[k] = g[k]}
<1>5. 0 \in N
  BY <1>1, <1>8, <1>9 DEF KeptUpTo, KeptNext
<1>6. \A k \in N : k + 1 \in N
  <2> SUFFICES ASSUME NEW k \in N, k + 1 <= n PROVE f[k + 1] = g[k + 1]
    OBVIOUS
  <2>1. k + 1 \in 1 .. n /\ k + 1 \in 0 .. n /\ k + 1 # 0 /\ k + 1 - 1 = k /\ f[k] = g[k]
    BY <1>1
  <2>2. f[k + 1] = KeptNext(s, keep, f, k + 1) /\ g[k + 1] = KeptNext(t, keep, g, k + 1)
    BY <1>8, <1>9, <2>1 DEF KeptUpTo
  <2>3. CASE s[k + 1] \in E
    <3>1. keep[k + 1] = TRUE /\ s[k + 1] = t[k + 1]
      BY <1>3, <1>10, <2>1, <2>3
    <3> QED BY <2>1, <2>2, <3>1 DEF KeptNext
  <2>4. CASE s[k + 1] \notin E
    <3>1. keep[k + 1] = FALSE
      BY <1>3, <2>1, <2>4
    <3> QED BY <2>1, <2>2, <3>1 DEF KeptNext
  <2> QED BY <2>3, <2>4
<1>7. N = Nat
  <2> HIDE DEF N
  <2> QED BY <1>5, <1>6, NaturalSets DEF N
<1> QED BY <1>1, <1>7, <1>8, <1>9

\* Sequences of which no two have rows of one id.
Separate(ss) == \A i, j \in 1 .. Len(ss) : i # j => Disjoint(ss[i], ss[j])

LEMMA IdentifiedFlat ==
    ASSUME NEW ss, IsSeq(ss), \A s \in ToSet(ss) : IsSeq(s) /\ Identified(s), Separate(ss)
    PROVE  Identified(FlattenSeq(ss))
<1> DEFINE S == ToSet(ss)
           P == {r \in Seq(S) : Separate(r) => Identified(FlattenSeq(r))}
<1>1. <<>> \in P
  <2>1. FlattenSeq(<<>>) = <<>>
    BY DEF FlattenSeq
  <2>2. Identified(<<>>) /\ <<>> \in Seq(S)
    BY DEF Identified
  <2> QED BY <2>1, <2>2
<1>2. \A r \in P : \A s \in S : Append(r, s) \in P
  <2> SUFFICES ASSUME NEW r \in Seq(S), Separate(r) => Identified(FlattenSeq(r)), NEW s \in S,
                      Separate(Append(r, s))
               PROVE  Identified(FlattenSeq(Append(r, s)))
    BY DEF S
  <2>1. IsSeq(s) /\ Identified(s)
    OBVIOUS
  <2>0. \A q \in ToSet(r) : IsSeq(q)
    BY SeqIs
  <2> HIDE DEF S
  <2> DEFINE k == Len(r)
             more == Append(r, s)
  <2>2. /\ k \in Nat /\ Len(more) = k + 1 /\ more[k + 1] = s
        /\ \A i \in 1 .. k : more[i] = r[i] /\ i \in 1 .. k + 1 /\ i # k + 1
    OBVIOUS
  <2>3. k + 1 \in 1 .. k + 1
    BY <2>2
  <2>4. IsSeq(r) /\ ToSet(r) = {r[i] : i \in 1 .. k}
    BY SeqIs DEF ToSet
  <2> HIDE DEF k, more
  <2>5. Separate(r)
    BY <2>2 DEF Separate, k, more
  <2>6. \A i \in 1 .. k : Disjoint(r[i], s)
    <3> TAKE i \in 1 .. k
    <3>1. Disjoint(more[i], more[k + 1])
      BY <2>2, <2>3 DEF Separate, more
    <3> QED BY <2>2, <3>1
  <2>7. CASE r = <<>>
    BY <2>1, <2>7, FlatMore
  <2>8. CASE r # <<>>
    <3> DEFINE f == FlattenSeq(r)
    <3>1. FlattenSeq(Append(r, s)) = f \o s
      BY <2>8, FlatMore
    <3>2. IsSeq(f) /\ \A x : x \in ToSet(f) <=> \E q \in ToSet(r) : x \in ToSet(q)
      BY <2>0, <2>4, FlatElements
    <3>3. Identified(f)
      BY <2>5
    <3> HIDE DEF f
    <3>4. Disjoint(f, s)
      BY <2>4, <2>6, <3>2 DEF Disjoint
    <3> QED BY <2>1, <3>1, <3>2, <3>3, <3>4, IdentifiedConcat
  <2> QED BY <2>7, <2>8
<1>3. P = Seq(S)
  <2> HIDE DEF P
  <2> QED BY <1>1, <1>2, SequenceSets DEF P
<1>4. ss \in P
  BY <1>3 DEF IsSeq
<1> QED BY <1>4

\* Rows picked at different places.
LEMMA IdentifiedPlaces ==
    ASSUME NEW s, IsSeq(s), Identified(s), NEW m \in Nat, NEW at,
           \A k \in 1 .. m : at[k] \in 1 .. Len(s) /\ \A j \in 1 .. k - 1 : at[j] # at[k]
    PROVE  Identified([k \in 1 .. m |-> s[at[k]]])
<1>1. DOMAIN s = 1 .. Len(s)
  BY SeqDomain
<1>2. ASSUME NEW j \in 1 .. m, NEW k \in 1 .. m, s[at[j]].id = s[at[k]].id PROVE j = k
  <2>1. at[j] = at[k]
    BY <1>1, <1>2 DEF Identified
  <2>2. ~(j \in 1 .. k - 1) /\ ~(k \in 1 .. j - 1)
    BY <2>1
  <2> QED BY <2>2
<1> DEFINE t == [k \in 1 .. m |-> s[at[k]]]
<1>3. DOMAIN t = 1 .. m /\ \A k \in 1 .. m : t[k] = s[at[k]]
  OBVIOUS
<1> HIDE DEF t
<1>4. Identified(t)
  BY <1>2, <1>3 DEF Identified
<1> QED BY <1>4 DEF t

\* A filter and its opposite share the rows out.
LEMMA OnlyBoth ==
    ASSUME NEW s, IsSeq(s), NEW E, NEW F, \A x \in ToSet(s) : x \in E <=> x \notin F
    PROVE  Len(Only(s, E)) + Len(Only(s, F)) = Len(s)
<1> DEFINE S == ToSet(s)
           Right(r) == /\ IsSeq(Only(r, E)) /\ IsSeq(Only(r, F))
                       /\ Len(Only(r, E)) + Len(Only(r, F)) = Len(r)
           P == {r \in Seq(S) : Right(r)}
<1>1. <<>> \in P
  <2>1. Only(<<>>, E) = <<>> /\ Only(<<>>, F) = <<>> /\ Len(<<>>) = 0
    BY OnlyNone
  <2> QED BY <2>1, SeqNone
<1>2. \A r \in P : \A x \in S : Append(r, x) \in P
  <2> SUFFICES ASSUME NEW r \in Seq(S), Right(r), NEW x \in S PROVE Right(Append(r, x))
    BY DEF S
  <2>1. x \in E <=> x \notin F
    BY DEF S
  <2> HIDE DEF S
  <2> DEFINE a == Only(r, E)
             b == Only(r, F)
  <2>2. /\ Only(Append(r, x), E) = IF x \in E THEN Append(a, x) ELSE a
        /\ Only(Append(r, x), F) = IF x \in F THEN Append(b, x) ELSE b
    BY OnlyMore
  <2>3. IsSeq(a) /\ IsSeq(b) /\ Len(a) + Len(b) = Len(r)
    OBVIOUS
  <2>4. Len(Append(r, x)) = Len(r) + 1 /\ Len(r) \in Nat
    OBVIOUS
  <2> HIDE DEF a, b
  <2>5. /\ IsSeq(Append(a, x)) /\ Len(Append(a, x)) = Len(a) + 1 /\ Len(a) \in Nat
        /\ IsSeq(Append(b, x)) /\ Len(Append(b, x)) = Len(b) + 1 /\ Len(b) \in Nat
    BY <2>3, SeqAppend, SeqDomain
  <2> DEFINE c == Only(Append(r, x), E)
             d == Only(Append(r, x), F)
             a1 == Append(a, x)
             b1 == Append(b, x)
             more == Append(r, x)
  <2>6. (c = Append(a, x) /\ d = b) \/ (c = a /\ d = Append(b, x))
    BY <2>1, <2>2
  <2> HIDE DEF c, d, a1, b1, more
  <2>7. /\ Len(more) = Len(r) + 1 /\ Len(r) \in Nat
        /\ IsSeq(a1) /\ Len(a1) = Len(a) + 1 /\ Len(a) \in Nat
        /\ IsSeq(b1) /\ Len(b1) = Len(b) + 1 /\ Len(b) \in Nat
        /\ (c = a1 /\ d = b) \/ (c = a /\ d = b1)
    BY <2>4, <2>5, <2>6 DEF a1, b1, more
  <2>8. IsSeq(c) /\ IsSeq(d) /\ Len(c) + Len(d) = Len(more)
    BY <2>3, <2>7
  <2> QED BY <2>8 DEF c, d, more
<1>3. P = Seq(S)
  <2> HIDE DEF P
  <2> QED BY <1>1, <1>2, SequenceSets DEF P
<1>4. s \in P
  BY <1>3 DEF IsSeq
<1> QED BY <1>4

-----------------------------------------------------------------------------
(* Ascending sequences of naturals: postings and lists of positions.         *)

Ascends(s) == IsSeq(s) /\ ToSet(s) \subseteq Nat /\ \A i, j \in DOMAIN s : i < j => s[i] < s[j]

LEMMA AscendsNone == Ascends(<<>>)
BY SeqNone DEF Ascends

LEMMA AscendsAppend ==
    ASSUME NEW s, IsSeq(s), NEW x
    PROVE  Ascends(Append(s, x)) <=> Ascends(s) /\ x \in Nat /\ \A y \in ToSet(s) : y < x
<1> DEFINE t == Append(s, x)
           n == Len(s)
<1>1. /\ n \in Nat /\ DOMAIN s = 1 .. n /\ \A i \in 1 .. n : s[i] \in ToSet(s)
      /\ \A y \in ToSet(s) : \E i \in 1 .. n : s[i] = y
  BY SeqDomain
<1>2. /\ IsSeq(t) /\ ToSet(t) = ToSet(s) \cup {x} /\ Len(t) = n + 1
  BY SeqAppend
<1>3. /\ DOMAIN t = 1 .. n + 1 /\ t[n + 1] = x /\ \A i \in 1 .. n : t[i] = s[i]
  <2>1. s \in Seq(ToSet(s) \cup {x}) /\ x \in ToSet(s) \cup {x}
    BY <1>1 DEF IsSeq
  <2>2. DOMAIN t = 1 .. n + 1
    BY <1>2, SeqDomain
  <2> QED BY <2>1, <2>2, AppendProperties
<1> HIDE DEF t, n
<1>4. ASSUME Ascends(t) PROVE Ascends(s) /\ x \in Nat /\ \A y \in ToSet(s) : y < x
  <2>1. \A i, j \in 1 .. n : i < j => s[i] < s[j]
    BY <1>1, <1>3, <1>4 DEF Ascends
  <2>2. \A i \in 1 .. n : s[i] < x
    BY <1>1, <1>3, <1>4 DEF Ascends
  <2>3. ToSet(s) \subseteq Nat /\ x \in Nat
    BY <1>2, <1>4 DEF Ascends
  <2> QED BY <1>1, <2>1, <2>2, <2>3 DEF Ascends
<1>5. ASSUME Ascends(s), x \in Nat, \A y \in ToSet(s) : y < x PROVE Ascends(t)
  <2>1. \A i, j \in 1 .. n + 1 : i < j => i \in 1 .. n /\ (j \in 1 .. n \/ j = n + 1)
    BY <1>1
  <2>2. \A i \in 1 .. n : t[i] < x
    BY <1>1, <1>3, <1>5
  <2>3. \A i, j \in 1 .. n : i < j => t[i] < t[j]
    BY <1>1, <1>3, <1>5 DEF Ascends
  <2>4. \A i, j \in 1 .. n + 1 : i < j => t[i] < t[j]
    BY <1>3, <2>1, <2>2, <2>3
  <2> QED BY <1>2, <1>3, <1>5, <2>4 DEF Ascends
<1> QED BY <1>4, <1>5 DEF t

LEMMA AscendsOnly ==
    ASSUME NEW s, Ascends(s), NEW set
    PROVE  Ascends(Only(s, set)) /\ ToSet(Only(s, set)) = ToSet(s) \cap set
<1> DEFINE S == ToSet(s)
           P == {r \in Seq(S) : Ascends(r) => Ascends(Only(r, set))}
<1>1. <<>> \in P
  BY OnlyNone, AscendsNone
<1>2. \A r \in P : \A x \in S : Append(r, x) \in P
  <2> SUFFICES ASSUME NEW r \in Seq(S), Ascends(r) => Ascends(Only(r, set)), NEW x \in S,
                      Ascends(Append(r, x))
               PROVE  Ascends(Only(Append(r, x), set))
    BY AppendProperties
  <2>1. IsSeq(r) /\ IsSeq(Only(r, set)) /\ ToSet(Only(r, set)) \subseteq ToSet(r)
    BY SeqIs, OnlyElements
  <2>2. Ascends(r) /\ x \in Nat /\ \A y \in ToSet(r) : y < x
    BY <2>1, AscendsAppend
  <2>3. Ascends(Append(Only(r, set), x))
    BY <2>1, <2>2, AscendsAppend
  <2> QED BY <2>2, <2>3, OnlyMore
<1>3. P = Seq(S)
  <2> HIDE DEF P, S
  <2> QED BY <1>1, <1>2, SequenceSets DEF P
<1>4. s \in Seq(S)
  BY DEF Ascends, IsSeq
<1>5. Ascends(Only(s, set))
  BY <1>3, <1>4
<1> QED BY <1>5, OnlyElements DEF Ascends

LEMMA AscendsConcat ==
    ASSUME NEW s, Ascends(s), NEW t, Ascends(t), \A x \in ToSet(s), y \in ToSet(t) : x < y
    PROVE  Ascends(s \o t) /\ ToSet(s \o t) = ToSet(s) \cup ToSet(t)
<1> DEFINE T == ToSet(t)
           Below(r) == \A x \in ToSet(s), y \in ToSet(r) : x < y
           P == {r \in Seq(T) : Ascends(r) /\ Below(r) => Ascends(s \o r)}
<1>0. IsSeq(s) /\ IsSeq(t)
  BY DEF Ascends
<1>1. <<>> \in P
  <2>1. s \o <<>> = s
    BY <1>0, ConcatEmptySeq DEF IsSeq
  <2> QED BY <2>1
<1>2. \A r \in P : \A x \in T : Append(r, x) \in P
  <2> SUFFICES ASSUME NEW r \in Seq(T), Ascends(r) /\ Below(r) => Ascends(s \o r), NEW x \in T,
                      Ascends(Append(r, x)), Below(Append(r, x))
               PROVE  Ascends(s \o Append(r, x))
    BY AppendProperties
  <2>1. IsSeq(r) /\ ToSet(Append(r, x)) = ToSet(r) \cup {x}
    BY SeqIs, SeqAppend
  <2>2. Ascends(r) /\ x \in Nat /\ \A y \in ToSet(r) : y < x
    BY <2>1, AscendsAppend
  <2>3. Below(r) /\ \A y \in ToSet(s) : y < x
    BY <2>1
  <2>4. Ascends(s \o r) /\ ToSet(s \o r) = ToSet(s) \cup ToSet(r) /\ IsSeq(s \o r)
    BY <1>0, <2>1, <2>2, <2>3, SeqConcat
  <2>5. Ascends(Append(s \o r, x))
    BY <2>2, <2>3, <2>4, AscendsAppend
  <2>6. s \o Append(r, x) = Append(s \o r, x)
    <3> DEFINE A == ToSet(s) \cup T
    <3>1. s \in Seq(A) /\ r \in Seq(A) /\ x \in A
      BY <1>0, SeqMonotonic DEF IsSeq
    <3> HIDE DEF A
    <3> QED BY <3>1, ConcatAppend
  <2> QED BY <2>5, <2>6
<1>3. P = Seq(T)
  <2> HIDE DEF P, T
  <2> QED BY <1>1, <1>2, SequenceSets DEF P
<1>4. t \in Seq(T)
  BY <1>0 DEF IsSeq
<1>5. Ascends(s \o t)
  BY <1>3, <1>4
<1> QED BY <1>0, <1>5, SeqConcat

\* An ascending sequence is known by its members.
LEMMA AscendsBefore ==
    ASSUME NEW s, Ascends(s), NEW t, Ascends(t), ToSet(s) = ToSet(t), NEW i \in Nat \ {0},
           i <= Len(s), i <= Len(t), \A j \in 1 .. i - 1 : s[j] = t[j]
    PROVE  ~ s[i] < t[i]
<1> SUFFICES ASSUME s[i] < t[i] PROVE FALSE
  OBVIOUS
<1>1. /\ Len(s) \in Nat /\ DOMAIN s = 1 .. Len(s) /\ Len(t) \in Nat /\ DOMAIN t = 1 .. Len(t)
      /\ \A x \in ToSet(t) : \E j \in 1 .. Len(t) : t[j] = x
      /\ s[i] \in ToSet(s) /\ s[i] \in Nat /\ t[i] \in Nat
  BY SeqDomain DEF Ascends
<1>2. PICK j \in 1 .. Len(t) : t[j] = s[i]
  BY <1>1
<1>3. CASE j < i
  <2>1. s[j] < s[i] /\ s[j] = t[j]
    BY <1>1, <1>3 DEF Ascends
  <2> QED BY <1>1, <1>2, <2>1
<1>4. CASE j = i
  BY <1>1, <1>2, <1>4
<1>5. CASE i < j
  <2>1. t[i] < t[j]
    BY <1>1, <1>5 DEF Ascends
  <2> QED BY <1>1, <1>2, <2>1
<1> QED BY <1>1, <1>3, <1>4, <1>5

LEMMA AscendsShort ==
    ASSUME NEW s, Ascends(s), NEW t, Ascends(t), ToSet(s) = ToSet(t),
           \A j \in 1 .. Len(s) : j <= Len(t) => s[j] = t[j]
    PROVE  ~ Len(s) < Len(t)
<1> SUFFICES ASSUME Len(s) < Len(t) PROVE FALSE
  OBVIOUS
<1>1. /\ Len(s) \in Nat /\ DOMAIN s = 1 .. Len(s) /\ Len(t) \in Nat /\ DOMAIN t = 1 .. Len(t)
      /\ \A x \in ToSet(s) : \E j \in 1 .. Len(s) : s[j] = x
      /\ \A j \in 1 .. Len(t) : t[j] \in ToSet(t) /\ t[j] \in Nat
  BY SeqDomain DEF Ascends
<1> DEFINE n == Len(s) + 1
<1>2. n \in 1 .. Len(t)
  BY <1>1
<1>3. PICK j \in 1 .. Len(s) : s[j] = t[n]
  BY <1>1, <1>2
<1>4. t[j] < t[n] /\ t[j] = s[j] /\ t[j] \in Nat
  BY <1>1, <1>2 DEF Ascends
<1> QED BY <1>3, <1>4

LEMMA AscendsEqual ==
    ASSUME NEW s, Ascends(s), NEW t, Ascends(t), ToSet(s) = ToSet(t)
    PROVE  s = t
<1>1. /\ Len(s) \in Nat /\ DOMAIN s = 1 .. Len(s) /\ Len(t) \in Nat /\ DOMAIN t = 1 .. Len(t)
      /\ s \in Seq(ToSet(s)) /\ t \in Seq(ToSet(s))
      /\ \A j \in 1 .. Len(t) : t[j] \in Nat
      /\ \A j \in 1 .. Len(s) : s[j] \in Nat
  BY SeqDomain DEF Ascends, IsSeq
<1> DEFINE D == {j \in 1 .. Len(s) : j <= Len(t) /\ s[j] # t[j]}
<1>2. D = {}
  <2> SUFFICES ASSUME D # {} PROVE FALSE
    OBVIOUS
  <2> DEFINE i == Min(D)
  <2>1. i \in D /\ \A j \in D : i <= j
    <3>1. D \in SUBSET Nat
      BY <1>1
    <3> HIDE DEF D
    <3> QED BY <3>1, SmallestPlace
  <2> HIDE DEF i
  <2>2. i \in Nat \ {0} /\ i <= Len(s) /\ i <= Len(t) /\ s[i] # t[i]
    BY <1>1, <2>1
  <2>3. \A j \in 1 .. i - 1 : s[j] = t[j] /\ t[j] = s[j]
    BY <1>1, <2>1, <2>2
  <2>4. ~ s[i] < t[i]
    BY <2>2, <2>3, AscendsBefore
  <2>5. ~ t[i] < s[i]
    BY <2>2, <2>3, AscendsBefore
  <2>6. s[i] \in Nat /\ t[i] \in Nat
    BY <1>1, <2>2
  <2> QED BY <2>2, <2>4, <2>5, <2>6
<1>3. ~ Len(s) < Len(t)
  BY <1>2, AscendsShort
<1>4. ~ Len(t) < Len(s)
  <2>1. \A j \in 1 .. Len(t) : j <= Len(s) => t[j] = s[j]
    BY <1>1, <1>2
  <2> QED BY <2>1, AscendsShort
<1>5. Len(s) = Len(t)
  <2> DEFINE m == Len(s)
             n == Len(t)
  <2>1. m \in Nat /\ n \in Nat /\ ~ m < n /\ ~ n < m
    BY <1>1, <1>3, <1>4
  <2> HIDE DEF m, n
  <2>2. m = n
    BY <2>1
  <2> QED BY <2>2 DEF m, n
<1>6. \A j \in 1 .. Len(s) : s[j] = t[j]
  BY <1>1, <1>2, <1>5
<1> QED BY <1>1, <1>5, <1>6, SeqEqual

LEMMA GreatestPlace ==
    ASSUME NEW n \in Nat, NEW S \in SUBSET (0 .. n), S # {}
    PROVE  Max(S) \in S /\ \A y \in S : Max(S) >= y
<1> DEFINE T == {k \in Nat : n - k \in S}
<1>1. T # {} /\ T \in SUBSET Nat
  <2>1. PICK y \in S : TRUE
    OBVIOUS
  <2>2. n - y \in T
    BY <2>1
  <2> QED BY <2>2
<1>2. Min(T) \in T /\ \A y \in T : Min(T) <= y
  <2> HIDE DEF T
  <2> QED BY <1>1, SmallestPlace
<1> DEFINE m == n - Min(T)
<1>3. m \in S
  BY <1>2
<1>4. ASSUME NEW y \in S PROVE m >= y
  <2>1. n - y \in Nat /\ n - (n - y) = y
    OBVIOUS
  <2>2. Min(T) <= n - y
    BY <1>2, <2>1
  <2>3. Min(T) \in Nat
    BY <1>2
  <2> HIDE DEF T
  <2> QED BY <2>2, <2>3
<1> HIDE DEF m
<1> QED BY <1>3, <1>4 DEF Max
=============================================================================
