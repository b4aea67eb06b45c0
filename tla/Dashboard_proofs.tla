-------------------------- MODULE Dashboard_proofs --------------------------
(***************************************************************************)
(* Proofs about the dashboard of a plan, for any plans, users, orders of   *)
(* the ranking, moves of the viewer and orders of the answers, and about   *)
(* its arithmetic, for rankings of any length.                             *)
(***************************************************************************)
EXTENDS Dashboard, SequenceTheorems, FiniteSetTheorems, NaturalsInduction, WellFoundedInduction, TLAPS

----------------------------------------------------------------------------
(* Arithmetic.                                                             *)

\* Induction up to n, over the set of the numbers a fact holds for.
LEMMA UpTo ==
  ASSUME NEW n \in Nat, NEW T \in SUBSET (0 .. n), 0 \in T,
         \A i \in T : i < n => i + 1 \in T
  PROVE  T = 0 .. n
<1> SUFFICES ASSUME T # 0 .. n PROVE FALSE
  OBVIOUS
<1> DEFINE U == (0 .. n) \ T
           R == OpToRel(<, Nat)
<1>1. U # {} /\ U \subseteq Nat
  <2>1. PICK x \in 0 .. n : x \notin T
    OBVIOUS
  <2> QED
    BY <2>1
<1>2. IsWellFoundedOn(R, Nat)
  BY NatLessThanWellFounded
<1>3. \A x, y \in Nat : x < y => <<x, y>> \in R
  BY DEF OpToRel
<1> HIDE DEF R, U
<1>4. PICK x \in U : \A y \in U : ~(<<y, x>> \in R)
  BY <1>1, <1>2, WFMin
<1>5. x \in 0 .. n /\ x # 0 /\ x - 1 \in 0 .. n /\ x - 1 < x /\ x - 1 < n
  BY <1>4 DEF U
<1>6. x - 1 \in U
  <2> SUFFICES ASSUME x - 1 \in T PROVE FALSE
    BY <1>5 DEF U
  <2>1. (x - 1) + 1 \in T
    BY <1>5
  <2> QED
    BY <1>4, <1>5, <2>1 DEF U
<1>7. <<x - 1, x>> \in R
  BY <1>3, <1>5
<1> QED
  BY <1>4, <1>6, <1>7

LEMMA DivBounds ==
  ASSUME NEW x \in Nat, NEW c \in Nat \ {0}
  PROVE  (x \div c) \in Nat /\ (x \div c) * c <= x /\ x < (x \div c) * c + c
OBVIOUS

LEMMA TruncateDown ==
  ASSUME NEW x \in Nat
  PROVE  /\ Truncate(x) \in Nat
         /\ Truncate(x) * Cents <= x
         /\ x - (Cents - 1) <= Truncate(x) * Cents
BY DivBounds, CentsAssumption DEF Truncate

LEMMA WordHolds ==
  ASSUME NEW q \in Nat, q < WordLimit
  PROVE  Word(q) = q
BY WordLimitAssumption DEF Word

\* A row of a ranking, as far as the sums read it.
Money == Int \cup {NoMoney}

LEMMA AmountType ==
  ASSUME NEW row, row.money \in Money
  PROVE  Amount(row) \in Int
BY DEF Amount, Money

LEMMA TotalsDef ==
  ASSUME NEW rows, Len(rows) \in Nat
  PROVE  Totals(rows) =
           [i \in 0 .. Len(rows) |-> IF i = 0 THEN 0 ELSE Step(Totals(rows)[i - 1], rows[i])]
<1> DEFINE add(acc, i) == Step(acc, rows[i])
<1>1. FiniteNatInductiveDefHypothesis(Totals(rows), 0, add, 0, Len(rows))
  BY DEF FiniteNatInductiveDefHypothesis, Totals
<1>2. FiniteNatInductiveDefConclusion(Totals(rows), 0, add, 0, Len(rows))
  BY <1>1, FiniteNatInductiveDef
<1> QED
  BY <1>2 DEF FiniteNatInductiveDefConclusion

LEMMA ExactTotalsDef ==
  ASSUME NEW rows, Len(rows) \in Nat
  PROVE  ExactTotals(rows) =
           [i \in 0 .. Len(rows) |-> IF i = 0 THEN 0 ELSE ExactTotals(rows)[i - 1] + Amount(rows[i])]
<1> DEFINE add(acc, i) == acc + Amount(rows[i])
<1>1. FiniteNatInductiveDefHypothesis(ExactTotals(rows), 0, add, 0, Len(rows))
  BY DEF FiniteNatInductiveDefHypothesis, ExactTotals
<1>2. FiniteNatInductiveDefConclusion(ExactTotals(rows), 0, add, 0, Len(rows))
  BY <1>1, FiniteNatInductiveDef
<1> QED
  BY <1>2 DEF FiniteNatInductiveDefConclusion

\* Sums of amounts that are not negative grow with the rows.
LEMMA ExactGrows ==
  ASSUME NEW rows, Len(rows) \in Nat,
         \A i \in 1 .. Len(rows) : Amount(rows[i]) \in Nat
  PROVE  /\ \A i \in 0 .. Len(rows) : ExactTotals(rows)[i] \in Nat
         /\ \A i \in 0 .. Len(rows) : ExactTotals(rows)[i] <= ExactCents(rows)
<1> DEFINE n == Len(rows)
           sum == ExactTotals(rows)
<1>1. /\ sum[0] = 0
      /\ \A i \in 0 .. n : i < n => sum[i + 1] = sum[i] + Amount(rows[i + 1])
  <2> HIDE DEF sum
  <2>1. sum = [i \in 0 .. n |-> IF i = 0 THEN 0 ELSE sum[i - 1] + Amount(rows[i])]
    BY ExactTotalsDef DEF sum
  <2>2. sum[0] = 0
    BY <2>1
  <2>3. ASSUME NEW i \in 0 .. n, i < n PROVE sum[i + 1] = sum[i] + Amount(rows[i + 1])
    <3>1. i + 1 \in 0 .. n /\ i + 1 # 0 /\ (i + 1) - 1 = i
      BY <2>3
    <3> QED
      BY <2>1, <3>1
  <2> QED
    BY <2>2, <2>3
<1> HIDE DEF sum
<1>2. \A i \in 0 .. n : sum[i] \in Nat
  <2> DEFINE T == {i \in 0 .. n : sum[i] \in Nat}
  <2>1. 0 \in T
    BY <1>1
  <2>2. \A i \in T : i < n => i + 1 \in T
    BY <1>1
  <2>3. T = 0 .. n
    <3> HIDE DEF T
    <3>1. T \in SUBSET (0 .. n)
      BY DEF T
    <3> QED
      BY <2>1, <2>2, <3>1, UpTo
  <2> QED
    BY <2>3
<1>3. \A i \in 0 .. n : sum[n - i] <= sum[n]
  <2> DEFINE T == {i \in 0 .. n : sum[n - i] <= sum[n]}
  <2>1. 0 \in T
    BY <1>2
  <2>2. ASSUME NEW i \in T, i < n PROVE i + 1 \in T
    <3> DEFINE j == n - (i + 1)
    <3>1. j \in 0 .. n /\ j < n /\ j + 1 = n - i /\ j + 1 \in 1 .. n
      BY <2>2
    <3>2. sum[j + 1] = sum[j] + Amount(rows[j + 1])
      BY <1>1, <3>1
    <3>3. sum[j] \in Nat /\ sum[n] \in Nat /\ Amount(rows[j + 1]) \in Nat
      BY <1>2, <3>1
    <3>4. sum[j] <= sum[n]
      BY <2>2, <3>1, <3>2, <3>3
    <3> QED
      BY <2>2, <3>4
  <2>3. T = 0 .. n
    <3> HIDE DEF T
    <3>1. T \in SUBSET (0 .. n)
      BY DEF T
    <3> QED
      BY <2>1, <2>2, <3>1, UpTo
  <2> QED
    BY <2>3
<1>4. ASSUME NEW i \in 0 .. n PROVE sum[i] <= sum[n]
  <2>1. n - i \in 0 .. n /\ n - (n - i) = i
    BY <1>4
  <2> QED
    BY <1>3, <2>1
<1> QED
  BY <1>2, <1>4 DEF sum, ExactCents

\* One row more: the cents the total loses are those of one cut.
LEMMA StepErrsLow ==
  ASSUME NEW acc \in Nat, NEW exact \in Nat, NEW row, Amount(row) \in Nat, NEW i \in Nat,
         exact - i * (Cents - 1) <= acc * Cents, acc * Cents <= exact,
         exact + Amount(row) < Cents * WordLimit
  PROVE  /\ Step(acc, row) \in Nat
         /\ (exact + Amount(row)) - (i + 1) * (Cents - 1) <= Step(acc, row) * Cents
         /\ Step(acc, row) * Cents <= exact + Amount(row)
<1> DEFINE x == acc * Cents + Amount(row)
           q == Truncate(x)
<1>1. Cents \in Nat \ {0} /\ WordLimit \in Nat \ {0}
  BY CentsAssumption, WordLimitAssumption
<1>2. x \in Nat /\ x <= exact + Amount(row)
  BY <1>1
<1>3. q \in Nat /\ q * Cents <= x /\ x - (Cents - 1) <= q * Cents
  BY <1>2, TruncateDown
<1>4. Step(acc, row) = Word(q)
  BY DEF Step
<1> HIDE DEF q
<1>5. q * Cents < Cents * WordLimit
  BY <1>1, <1>2, <1>3
<1>6. q < WordLimit
  BY <1>1, <1>3, <1>5
<1>7. Step(acc, row) = q
  BY <1>3, <1>4, <1>6, WordHolds
<1>8. (i + 1) * (Cents - 1) = i * (Cents - 1) + (Cents - 1)
  BY <1>1
<1>9. i * (Cents - 1) \in Int
  BY <1>1
<1>10. (exact + Amount(row)) - (i + 1) * (Cents - 1) <= q * Cents
  BY <1>1, <1>3, <1>8, <1>9
<1> QED
  BY <1>2, <1>3, <1>7, <1>10, <1>1

\* The running total stays below the exact sum, by less than a unit a row.
LEMMA TotalErrs ==
  ASSUME NEW rows, Len(rows) \in Nat, Countable(rows), DOMAIN rows = 1 .. Len(rows),
         \A i \in 1 .. Len(rows) : rows[i].money \in Money
  PROVE  /\ SumMoney(rows) \in Nat /\ ExactCents(rows) \in Nat
         /\ ExactCents(rows) - Len(rows) * (Cents - 1) <= SumMoney(rows) * Cents
         /\ SumMoney(rows) * Cents <= ExactCents(rows)
<1> DEFINE n == Len(rows)
           sum == ExactTotals(rows)
           total == Totals(rows)
           T == {i \in 0 .. n : /\ total[i] \in Nat
                                /\ sum[i] - i * (Cents - 1) <= total[i] * Cents
                                /\ total[i] * Cents <= sum[i]}
<1>1. \A i \in 1 .. n : Amount(rows[i]) \in Nat
  BY AmountType DEF Countable
<1>2. /\ \A i \in 0 .. n : sum[i] \in Nat /\ sum[i] <= ExactCents(rows)
      /\ ExactCents(rows) < Cents * WordLimit
  BY <1>1, ExactGrows DEF Countable
<1>3. /\ sum[0] = 0 /\ total[0] = 0
      /\ \A i \in 1 .. n : /\ sum[i] = sum[i - 1] + Amount(rows[i])
                           /\ total[i] = Step(total[i - 1], rows[i])
  <2> HIDE DEF sum, total
  <2>1. /\ sum = [i \in 0 .. n |-> IF i = 0 THEN 0 ELSE sum[i - 1] + Amount(rows[i])]
        /\ total = [i \in 0 .. n |-> IF i = 0 THEN 0 ELSE Step(total[i - 1], rows[i])]
    BY ExactTotalsDef, TotalsDef DEF sum, total
  <2> QED
    BY <2>1
<1>4. Cents \in Nat \ {0} /\ WordLimit \in Nat \ {0}
  BY CentsAssumption, WordLimitAssumption
<1> HIDE DEF sum, total
<1>5. 0 \in T
  BY <1>3, <1>4
<1>6. ASSUME NEW i \in T, i < n PROVE i + 1 \in T
  <2>1. i + 1 \in 1 .. n /\ i \in 0 .. n /\ (i + 1) - 1 = i /\ i + 1 \in 0 .. n
    BY <1>6
  <2>2. /\ sum[i + 1] = sum[i] + Amount(rows[i + 1])
        /\ total[i + 1] = Step(total[i], rows[i + 1])
    BY <1>3, <2>1
  <2>3. /\ Amount(rows[i + 1]) \in Nat /\ sum[i] \in Nat /\ sum[i + 1] \in Nat
        /\ sum[i + 1] <= ExactCents(rows) /\ ExactCents(rows) \in Int
    <3>1. ExactCents(rows) = sum[n] /\ n \in 0 .. n
      BY DEF sum, ExactCents
    <3> QED
      BY <1>1, <1>2, <2>1, <3>1
  <2>4. sum[i] + Amount(rows[i + 1]) < Cents * WordLimit
    BY <1>2, <1>4, <2>2, <2>3
  <2>5. /\ total[i] \in Nat
        /\ sum[i] - i * (Cents - 1) <= total[i] * Cents
        /\ total[i] * Cents <= sum[i]
    BY <1>6
  <2>6. /\ Step(total[i], rows[i + 1]) \in Nat
        /\ (sum[i] + Amount(rows[i + 1])) - (i + 1) * (Cents - 1) <= Step(total[i], rows[i + 1]) * Cents
        /\ Step(total[i], rows[i + 1]) * Cents <= sum[i] + Amount(rows[i + 1])
    BY <2>1, <2>3, <2>4, <2>5, StepErrsLow
  <2> QED
    BY <2>1, <2>2, <2>6
<1>7. T = 0 .. n
  <2> HIDE DEF T
  <2>1. T \in SUBSET (0 .. n)
    BY DEF T
  <2> QED
    BY <1>5, <1>6, <2>1, UpTo
<1>8. n \in T /\ ExactCents(rows) = sum[n] /\ SumMoney(rows) = total[n] /\ sum[n] \in Nat
  BY <1>7, <1>2 DEF sum, total, ExactCents, SumMoney
<1> QED
  BY <1>8

\* Rows compared with a lower total: more are above it, fewer below it.
LEMMA CountsErrLow ==
  ASSUME NEW rows, Len(rows) \in Nat, DOMAIN rows = 1 .. Len(rows),
         \A i \in 1 .. Len(rows) : rows[i].money \in Money,
         NEW total \in Int, NEW exact \in Int, total * Cents <= exact
  PROVE  /\ countUsersAboveAverage(rows, total) >=
              Cardinality({i \in 1 .. Len(rows) : rows[i].money # NoMoney /\ rows[i].money * Len(rows) > exact})
         /\ countUsersBelowAverage(rows, total) <=
              Cardinality({i \in 1 .. Len(rows) : rows[i].money # NoMoney /\ rows[i].money * Len(rows) < exact})
<1> DEFINE n == Len(rows)
           above1 == {i \in 1 .. n : rows[i].money # NoMoney /\ rows[i].money * n > exact}
           above2 == {i \in 1 .. n : rows[i].money # NoMoney /\ rows[i].money * n > total * Cents}
           below1 == {i \in 1 .. n : rows[i].money # NoMoney /\ rows[i].money * n < exact}
           below2 == {i \in 1 .. n : rows[i].money # NoMoney /\ rows[i].money * n < total * Cents}
<1>1. total * Cents \in Int
  BY CentsAssumption
<1>2. above1 \subseteq above2 /\ below2 \subseteq below1
  BY <1>1 DEF Money
<1>3. IsFiniteSet(1 .. n)
  BY FS_Interval
<1>4. IsFiniteSet(above2) /\ IsFiniteSet(below1)
  BY <1>3, FS_Subset
<1> HIDE DEF above1, above2, below1, below2
<1>5. Cardinality(above1) <= Cardinality(above2) /\ Cardinality(below2) <= Cardinality(below1)
  BY <1>2, <1>4, FS_Subset
<1>6. /\ Cardinality(above1) \in Nat /\ Cardinality(above2) \in Nat
  BY <1>2, <1>4, FS_Subset, FS_CardinalityType
<1>7. /\ countUsersAboveAverage(rows, total) = Cardinality(above2)
      /\ countUsersBelowAverage(rows, total) = Cardinality(below2)
  BY DEF above2, below2, countUsersAboveAverage, countUsersBelowAverage
<1> QED
  BY <1>5, <1>6, <1>7 DEF above1, below1

----------------------------------------------------------------------------
(* Queues of queries.                                                      *)

Asks ==
  [period |-> Plans, variables |-> Plans, indicators |-> Plans \X Plans \X Viewed,
   commission |-> Key, deals |-> Plans \X Plans \X Viewed, incentives |-> Key, goals |-> Key,
   ranking |-> Plans \X Sorts \X Viewed, profiles |-> SUBSET WithPicture]

QueuesOK(queries) == \A k \in Kinds : queries[k] \in Seq(Asks[k])

AsksOK(asks) == DOMAIN asks \subseteq Kinds /\ \A k \in DOMAIN asks : asks[k] \in Asks[k]

LEMMA AppendedLast ==
  ASSUME NEW S, NEW s \in Seq(S), NEW e \in S
  PROVE  Append(s, e) \in Seq(S) /\ Append(s, e) # <<>> /\ Last(Append(s, e)) = e
<1>1. /\ Append(s, e) \in Seq(S) /\ Append(s, e) # <<>>
      /\ Len(Append(s, e)) = Len(s) + 1 /\ Append(s, e)[Len(s) + 1] = e
  BY AppendProperties
<1> QED
  BY <1>1 DEF Last

LEMMA RemoveType ==
  ASSUME NEW S, NEW s \in Seq(S), NEW i \in DOMAIN s
  PROVE  RemoveAt(s, i) \in Seq(S) /\ s[i] \in S /\ s # <<>>
<1>1. /\ Len(s) \in Nat /\ i \in 1 .. Len(s) /\ \A j \in 1 .. Len(s) : s[j] \in S
  BY LenProperties
<1>2. SubSeq(s, 1, i - 1) \in Seq(S)
  <2>1. 1 \in Int /\ i - 1 \in Int /\ \A j \in 1 .. i - 1 : s[j] \in S
    BY <1>1
  <2> QED
    BY <2>1, SubSeqProperties
<1>3. SubSeq(s, i + 1, Len(s)) \in Seq(S)
  <2>1. i + 1 \in Int /\ Len(s) \in Int /\ \A j \in i + 1 .. Len(s) : s[j] \in S
    BY <1>1
  <2> QED
    BY <2>1, SubSeqProperties
<1>4. RemoveAt(s, i) \in Seq(S)
  BY <1>2, <1>3, ConcatProperties DEF RemoveAt
<1> QED
  BY <1>1, <1>4, EmptySeq

LEMMA RemovedFirst ==
  ASSUME NEW S, NEW s \in Seq(S), 1 \in DOMAIN s
  PROVE  \/ RemoveAt(s, 1) = <<>> /\ s[1] = Last(s)
         \/ RemoveAt(s, 1) # <<>> /\ Last(RemoveAt(s, 1)) = Last(s)
<1>1. Len(s) \in Nat /\ Len(s) >= 1 /\ s # <<>>
  BY LenProperties, EmptySeq
<1>2. RemoveAt(s, 1) = Tail(s)
  BY <1>1 DEF RemoveAt
<1>3. /\ Tail(s) \in Seq(S) /\ Len(Tail(s)) = Len(s) - 1
      /\ \A i \in 1 .. Len(Tail(s)) : Tail(s)[i] = s[i + 1]
  BY <1>1, HeadTailProperties
<1>4. Tail(s) # <<>> => Len(Tail(s)) \in Nat \ {0}
  BY <1>3, EmptySeq
<1>5. CASE Tail(s) = <<>>
  <2>1. Len(Tail(s)) = 0
    <3>1. Len(<<>>) = 0
      BY EmptySeq
    <3> QED
      BY <1>5, <3>1, Zenon
  <2>2. Len(s) - 1 = 0
    BY <1>3, <2>1, Zenon
  <2>3. Len(s) = 1
    BY <1>1, <2>2
  <2> QED
    BY <1>2, <1>5, <2>3 DEF Last
<1>6. CASE Tail(s) # <<>>
  <2>1. Len(Tail(s)) \in 1 .. Len(Tail(s)) /\ Len(Tail(s)) + 1 = Len(s)
    BY <1>1, <1>3, <1>4, <1>6
  <2>2. Tail(s)[Len(Tail(s))] = s[Len(s)]
    BY <1>3, <2>1
  <2> QED
    BY <1>2, <1>6, <2>2 DEF Last
<1> QED
  BY <1>5, <1>6

\* What is asked for is the last of its queue, whether it was sent or shared.
LEMMA SentLast ==
  ASSUME NEW queries, NEW asks, QueuesOK(queries), AsksOK(asks)
  PROVE  /\ DOMAIN Sent(queries, asks) = Kinds
         /\ QueuesOK(Sent(queries, asks))
         /\ \A k \in DOMAIN asks : /\ Sent(queries, asks)[k] # <<>>
                                   /\ Last(Sent(queries, asks)[k]) = asks[k]
         /\ \A k \in Kinds \ DOMAIN asks : Sent(queries, asks)[k] = queries[k]
         /\ \A k \in Kinds : queries[k] # <<>> => Sent(queries, asks)[k] # <<>>
<1> DEFINE sent == Sent(queries, asks)
<1>1. DOMAIN sent = Kinds
  BY DEF Sent
<1>2. ASSUME NEW k \in DOMAIN asks
      PROVE  /\ sent[k] \in Seq(Asks[k]) /\ sent[k] # <<>> /\ Last(sent[k]) = asks[k]
  <2>1. k \in Kinds /\ asks[k] \in Asks[k] /\ queries[k] \in Seq(Asks[k])
    BY DEF AsksOK, QueuesOK
  <2>2. CASE queries[k] # <<>> /\ Last(queries[k]) = asks[k]
    BY <2>1, <2>2 DEF Sent
  <2>3. CASE ~(queries[k] # <<>> /\ Last(queries[k]) = asks[k])
    <3>1. sent[k] = Append(queries[k], asks[k])
      BY <2>1, <2>3 DEF Sent
    <3> QED
      <4>1. /\ Append(queries[k], asks[k]) \in Seq(Asks[k]) /\ Append(queries[k], asks[k]) # <<>>
            /\ Last(Append(queries[k], asks[k])) = asks[k]
        BY <2>1, AppendedLast
      <4> QED
        BY <3>1, <4>1
  <2> QED
    BY <2>2, <2>3
<1>3. ASSUME NEW k \in Kinds \ DOMAIN asks PROVE sent[k] = queries[k]
  BY DEF Sent
<1>4. QueuesOK(sent)
  BY <1>2, <1>3 DEF QueuesOK
<1>5. \A k \in Kinds : queries[k] # <<>> => sent[k] # <<>>
  BY <1>2, <1>3
<1> QED
  BY <1>1, <1>2, <1>3, <1>4, <1>5

\* Taking an answer leaves the other queues alone.
LEMMA WithoutQueue ==
  ASSUME DOMAIN pending = Kinds, QueuesOK(pending), NEW k \in Kinds, NEW i \in DOMAIN pending[k]
  PROVE  /\ DOMAIN Without(k, i) = Kinds
         /\ QueuesOK(Without(k, i))
         /\ \A j \in Kinds \ {k} : Without(k, i)[j] = pending[j]
         /\ pending[k][i] \in Asks[k] /\ pending[k] # <<>>
<1>1. pending[k] \in Seq(Asks[k])
  BY DEF QueuesOK
<1>2. RemoveAt(pending[k], i) \in Seq(Asks[k]) /\ pending[k][i] \in Asks[k] /\ pending[k] # <<>>
  BY <1>1, RemoveType
<1>3. DOMAIN Without(k, i) = Kinds /\ Without(k, i)[k] = RemoveAt(pending[k], i)
  BY DEF Without
<1>4. \A j \in Kinds \ {k} : Without(k, i)[j] = pending[j]
  BY DEF Without
<1>5. QueuesOK(Without(k, i))
  BY <1>2, <1>3, <1>4 DEF QueuesOK
<1> QED
  BY <1>2, <1>3, <1>4, <1>5

\* In order, the first answer is taken: it was the last asked for, or the last
\* asked for is still under way.
LEMMA WithoutFirst ==
  ASSUME DOMAIN pending = Kinds, QueuesOK(pending), NEW k \in Kinds, 1 \in DOMAIN pending[k]
  PROVE  \/ Without(k, 1)[k] = <<>> /\ pending[k][1] = Last(pending[k])
         \/ Without(k, 1)[k] # <<>> /\ Last(Without(k, 1)[k]) = Last(pending[k])
<1>1. pending[k] \in Seq(Asks[k])
  BY DEF QueuesOK
<1>2. Without(k, 1)[k] = RemoveAt(pending[k], 1)
  BY DEF Without
<1> QED
  BY <1>1, <1>2, RemovedFirst

\* Overtaking or not, a queue of one answer is emptied and a longer one is not.
LEMMA ArrivesFirst ==
  ASSUME NEW k \in Kinds, NEW i, Arrives(k, i), ~overtaken'
  PROVE  i = 1 /\ 1 \in DOMAIN pending[k] /\ ~overtaken
BY DEF Arrives

----------------------------------------------------------------------------
(* Types.                                                                  *)

LEMMA RankedType ==
  ASSUME NEW p, NEW s \in Sorts, NEW u
  PROVE  RankedUsers(p, s, u) \in Seq(Users)
<1> DEFINE order == Ranking[s]
           n == Len(order)
           more(users, i) == IF Ranks(p, u, order[i]) THEN Append(users, order[i]) ELSE users
           ranked[i \in 0 .. n] ==
             IF i = 0 THEN <<>>
             ELSE IF Ranks(p, u, order[i]) THEN Append(ranked[i - 1], order[i]) ELSE ranked[i - 1]
<1>1. order \in Seq(Users) /\ n \in Nat /\ \A i \in 1 .. n : order[i] \in Users
  BY RankingAssumption, LenProperties
<1>2. FiniteNatInductiveDefHypothesis(ranked, <<>>, more, 0, n)
  BY DEF FiniteNatInductiveDefHypothesis
<1>3. FiniteNatInductiveDefConclusion(ranked, <<>>, more, 0, n)
  BY <1>1, <1>2, FiniteNatInductiveDef
<1>4. RankedUsers(p, s, u) = ranked[n]
  BY DEF RankedUsers
<1>5. ranked = [i \in 0 .. n |-> IF i = 0 THEN <<>> ELSE more(ranked[i - 1], i)]
  BY <1>3 DEF FiniteNatInductiveDefConclusion
<1> HIDE DEF ranked, n, order, more
<1> DEFINE T == {i \in 0 .. n : ranked[i] \in Seq(Users)}
<1>6. 0 \in T
  BY <1>1, <1>5, EmptySeq
<1>7. ASSUME NEW i \in T, i < n PROVE i + 1 \in T
  <2>1. i + 1 \in 1 .. n /\ (i + 1) - 1 = i /\ ranked[i] \in Seq(Users)
    BY <1>1, <1>7
  <2>2. ranked[i + 1] = more(ranked[i], i + 1)
    BY <1>5, <2>1
  <2>3. order[i + 1] \in Users
    BY <1>1, <2>1
  <2>4. Append(ranked[i], order[i + 1]) \in Seq(Users)
    BY <2>1, <2>3, AppendProperties
  <2>5. more(ranked[i], i + 1) \in {ranked[i], Append(ranked[i], order[i + 1])}
    BY Zenon DEF more
  <2>6. ranked[i + 1] \in Seq(Users)
    BY <2>1, <2>2, <2>4, <2>5, Zenon
  <2> QED
    BY <2>1, <2>6
<1>8. T = 0 .. n
  <2> HIDE DEF T
  <2>1. T \in SUBSET (0 .. n)
    BY DEF T
  <2> QED
    BY <1>1, <1>6, <1>7, <2>1, UpTo
<1> QED
  BY <1>1, <1>4, <1>8

\* The rows of a ranking: users, with money a sum can read.
RowsOK(rows) ==
  /\ Len(rows) \in Nat /\ DOMAIN rows = 1 .. Len(rows)
  /\ \A i \in DOMAIN rows : rows[i].user \in Users /\ rows[i].money \in Money

LEMMA RowsType ==
  ASSUME wages \in Wages, NEW p \in Plans, NEW s \in Sorts, NEW u
  PROVE  RowsOK(Rows(p, s, u))
<1> DEFINE users == RankedUsers(p, s, u)
           rows == Rows(p, s, u)
<1>1. users \in Seq(Users)
  BY RankedType
<1>2. Len(users) \in Nat /\ DOMAIN users = 1 .. Len(users) /\ \A i \in 1 .. Len(users) : users[i] \in Users
  BY <1>1, LenProperties
<1>3. rows = [i \in 1 .. Len(users) |-> [user |-> users[i], money |-> wages[p][users[i]], ranking |-> i]]
  BY <1>2 DEF Rows
<1> HIDE DEF users, rows
<1>4. DOMAIN rows = 1 .. Len(users) /\ Len(rows) = Len(users)
  BY <1>2, <1>3
<1>5. \A x \in Users : wages[p][x] \in Money
  BY WagesAssumption DEF Money
<1>6. ASSUME NEW i \in DOMAIN rows PROVE rows[i].user \in Users /\ rows[i].money \in Money
  BY <1>2, <1>3, <1>4, <1>5
<1> QED
  BY <1>2, <1>4, <1>6 DEF RowsOK, rows

\* What was asked for rests on what had arrived: variables on a period,
\* indicators on variables.
TypeInv ==
  /\ TypeOK
  /\ seat \in Seats /\ wages \in Wages
  /\ DOMAIN shown = {"deals", "incentives", "goals"}
  /\ QueuesOK(pending)
  /\ pending["variables"] # <<>> => period \in Plans
  /\ pending["indicators"] # <<>> => variables \in Plans
  /\ list # None => RowsOK(list.rows)

LEMMA RouteType ==
  ASSUME NEW r \in Routes
  PROVE  r[1] \in Plans /\ r[2] \in Viewed
BY FirstAssumption

LEMMA InitType == Init => TypeInv
<1> SUFFICES ASSUME Init PROVE TypeInv
  OBVIOUS
<1>1. planId \in Plans /\ userId \in Viewed /\ userSort \in Sorts
  BY RouteType, FirstAssumption DEF Init
<1>2. AsksOK(AskedByRoute(planId, userId, userSort))
  BY <1>1 DEF AsksOK, AskedByRoute, Asks, Key, Kinds
<1>3. QueuesOK([k \in Kinds |-> <<>>])
  BY EmptySeq DEF QueuesOK
<1>4. /\ DOMAIN pending = Kinds /\ QueuesOK(pending)
      /\ \A k \in Kinds \ DOMAIN AskedByRoute(planId, userId, userSort) : pending[k] = <<>>
  BY <1>2, <1>3, SentLast DEF Init
<1>5. pending["variables"] = <<>> /\ pending["indicators"] = <<>>
  BY <1>4 DEF AskedByRoute, Kinds
<1>6. TypeOK
  BY <1>1, <1>4 DEF Init, TypeOK
<1> QED
  BY <1>4, <1>5, <1>6 DEF Init, TypeInv

\* What a move leaves alone keeps its type.
LEMMA MoveType ==
  ASSUME TypeInv, NEW asks, AsksOK(asks),
         {"variables", "indicators"} \cap DOMAIN asks = {},
         pending' = Sent(pending, asks),
         planId' \in Plans, userId' \in Viewed, userSort' \in Sorts, asked' \in Viewed,
         carried' \in BOOLEAN,
         {viewers', charted'} \subseteq SUBSET Viewed, rankedFor' \in Viewed,
         UNCHANGED <<world, currentUserSeat, plan, commission, shown, charts, list, spinner,
                     overtaken, failed>>
  PROVE  TypeInv'
<1>1. DOMAIN pending = Kinds /\ QueuesOK(pending)
  BY DEF TypeInv, TypeOK
<1>2. /\ DOMAIN pending' = Kinds /\ QueuesOK(pending')
      /\ pending'["variables"] = pending["variables"]
      /\ pending'["indicators"] = pending["indicators"]
  BY <1>1, SentLast DEF Kinds
<1>3. TypeOK'
  BY <1>2 DEF TypeInv, TypeOK, Key, Viewed, world, charts, spinner
<1> QED
  BY <1>2, <1>3 DEF TypeInv, world, charts, QueuesOK, RowsOK

LEMMA ViewerType ==
  ASSUME TypeInv,
         \/ \E r \in Routes : Route(r[1], r[2])
         \/ list # None /\ \E i \in DOMAIN list.rows : selectUser(i)
         \/ clearUser
         \/ \E s \in Sorts : selectSort(s)
  PROVE  TypeInv'
<1>1. /\ planId \in Plans /\ {userId, rankedFor, NoUser} \subseteq Viewed
      /\ userSort \in Sorts /\ charted \subseteq Viewed
  BY DEF TypeInv, TypeOK, Viewed
<1>2. ASSUME NEW r \in Routes, Route(r[1], r[2]) PROVE TypeInv'
  <2>1. r[1] \in Plans /\ r[2] \in Viewed
    BY RouteType
  <2>2. AsksOK(AskedByRoute(r[1], r[2], userSort))
    BY <1>1, <2>1 DEF AsksOK, AskedByRoute, Asks, Key, Kinds
  <2>3. {"variables", "indicators"} \cap DOMAIN AskedByRoute(r[1], r[2], userSort) = {}
    BY DEF AskedByRoute
  <2> QED
    BY <1>1, <1>2, <2>1, <2>2, <2>3, MoveType DEF Route, Remembers
<1>3. ASSUME list # None, NEW i \in DOMAIN list.rows, selectUser(i) PROVE TypeInv'
  <2>1. userId' \in Viewed /\ userId' = list.rows[i].user
    BY <1>3 DEF selectUser, TypeInv, RowsOK, Viewed
  <2>2. AsksOK(AskedBySelect(userId'))
    BY <1>1, <2>1 DEF AsksOK, AskedBySelect, Asks, Key, Kinds
  <2>3. {"variables", "indicators"} \cap DOMAIN AskedBySelect(userId') = {}
    BY DEF AskedBySelect
  <2> QED
    BY <1>1, <1>3, <2>1, <2>2, <2>3, MoveType DEF selectUser, Remembers
<1>4. ASSUME NEW s \in Sorts, Deselect(s), userSort' \in Sorts PROVE TypeInv'
  <2> DEFINE asks == [commission |-> <<planId, NoUser>>, ranking |-> <<planId, s, NoUser>>]
  <2>1. AsksOK(asks)
    BY <1>1 DEF AsksOK, Asks, Key, Kinds
  <2>2. {"variables", "indicators"} \cap DOMAIN asks = {}
    OBVIOUS
  <2>3. pending' = Sent(pending, asks)
    BY <1>4 DEF Deselect
  <2> HIDE DEF asks
  <2> QED
    BY <1>1, <1>4, <2>1, <2>2, <2>3, MoveType DEF Deselect, Remembers
<1> QED
  BY <1>1, <1>2, <1>3, <1>4 DEF clearUser, selectSort

\* What an answer finds in its queue, and what it leaves in the queues.
LEMMA AnswerQueues ==
  ASSUME TypeInv, NEW k \in Kinds, NEW i, Arrives(k, i), NEW asks, AsksOK(asks),
         pending' = Sent(Without(k, i), asks)
  PROVE  /\ pending[k][i] \in Asks[k] /\ pending[k] # <<>> /\ i \in DOMAIN pending[k]
         /\ DOMAIN pending' = Kinds /\ QueuesOK(pending')
         /\ \A j \in DOMAIN asks : pending'[j] # <<>> /\ Last(pending'[j]) = asks[j]
         /\ \A j \in Kinds \ DOMAIN asks : pending'[j] = Without(k, i)[j]
         /\ \A j \in Kinds \ (DOMAIN asks \cup {k}) : pending'[j] = pending[j]
         /\ \A j \in Kinds \ {k} : pending[j] # <<>> => pending'[j] # <<>>
         /\ overtaken' \in BOOLEAN
<1>1. DOMAIN pending = Kinds /\ QueuesOK(pending) /\ i \in DOMAIN pending[k]
  BY DEF TypeInv, TypeOK, Arrives
<1>2. /\ DOMAIN Without(k, i) = Kinds /\ QueuesOK(Without(k, i))
      /\ \A j \in Kinds \ {k} : Without(k, i)[j] = pending[j]
      /\ pending[k][i] \in Asks[k] /\ pending[k] # <<>>
  BY <1>1, WithoutQueue
<1>3. /\ DOMAIN pending' = Kinds /\ QueuesOK(pending')
      /\ \A j \in DOMAIN asks : pending'[j] # <<>> /\ Last(pending'[j]) = asks[j]
      /\ \A j \in Kinds \ DOMAIN asks : pending'[j] = Without(k, i)[j]
      /\ \A j \in Kinds : Without(k, i)[j] # <<>> => pending'[j] # <<>>
  BY <1>2, SentLast
<1>4. overtaken' \in BOOLEAN
  BY DEF TypeInv, TypeOK, Arrives
<1> QED
  BY <1>1, <1>2, <1>3, <1>4

\* The same of an answer that asks for nothing.
LEMMA AnswerTaken ==
  ASSUME TypeInv, NEW k \in Kinds, NEW i, Arrives(k, i), pending' = Without(k, i)
  PROVE  /\ pending[k][i] \in Asks[k] /\ pending[k] # <<>> /\ i \in DOMAIN pending[k]
         /\ DOMAIN pending' = Kinds /\ QueuesOK(pending')
         /\ \A j \in Kinds \ {k} : pending'[j] = pending[j]
         /\ overtaken' \in BOOLEAN
<1>1. DOMAIN pending = Kinds /\ QueuesOK(pending) /\ i \in DOMAIN pending[k]
  BY DEF TypeInv, TypeOK, Arrives
<1>2. overtaken' \in BOOLEAN
  BY DEF TypeInv, TypeOK, Arrives
<1> QED
  BY <1>1, <1>2, WithoutQueue

LEMMA KindsAre ==
  \A k \in {"period", "variables", "indicators", "commission", "deals", "incentives", "goals",
            "ranking", "profiles"} : k \in Kinds
BY DEF Kinds

LEMMA NowType ==
  ASSUME TypeInv
  PROVE  Now \in Key /\ planId \in Plans /\ userId \in Viewed
BY DEF TypeInv, TypeOK, Now, Key

\* What the answers that ask for more ask for.
LEMMA PeriodAsks == TypeInv => AsksOK([variables |-> planId])
BY NowType DEF AsksOK, Asks, Kinds

LEMMA VariablesAsks == ASSUME TypeInv, NEW i, VariablesAnswered(i) PROVE AsksOK(AskedByVariables)
<1>1. i \in DOMAIN pending["variables"] /\ pending["variables"] \in Seq(Asks["variables"])
  BY KindsAre DEF VariablesAnswered, Arrives, TypeInv, QueuesOK
<1>2. pending["variables"] # <<>>
  BY <1>1, RemoveType
<1> QED
  BY <1>2, NowType DEF AsksOK, AskedByVariables, Asks, Kinds, TypeInv

LEMMA CommissionAsks ==
  ASSUME TypeInv, NEW i, CommissionAnswered(i)
  PROVE  AsksOK(AskedByCommission(plan')) /\ commission' \in Key /\ plan' \in Plans \cup {None}
<1>1. i \in DOMAIN pending["commission"] /\ pending["commission"] \in Seq(Asks["commission"])
  BY KindsAre DEF CommissionAnswered, Arrives, TypeInv, QueuesOK
<1>2. pending["commission"][i] \in Key
  BY <1>1, RemoveType DEF Asks
<1>3. commission' \in Key /\ plan' \in Plans \cup {None}
  BY <1>2 DEF CommissionAnswered, Key
<1> QED
  BY <1>3, NowType DEF AsksOK, AskedByCommission, Asks, Kinds

LEMMA PeriodType == ASSUME TypeInv, NEW i, PeriodAnswered(i) PROVE TypeInv'
<1> DEFINE asks == [variables |-> planId]
<1>1. AsksOK(asks)
  BY PeriodAsks
<1>2. /\ pending["period"][i] \in Plans /\ DOMAIN pending' = Kinds /\ QueuesOK(pending')
      /\ pending'["indicators"] = pending["indicators"] /\ overtaken' \in BOOLEAN
  <2>1. Arrives("period", i) /\ pending' = Sent(Without("period", i), asks)
    BY DEF PeriodAnswered
  <2>2. "indicators" \in Kinds \ (DOMAIN asks \cup {"period"})
    BY DEF Kinds
  <2> QED
    BY <1>1, <2>1, <2>2, AnswerQueues, KindsAre DEF Asks
<1>3. TypeOK'
  BY <1>2 DEF PeriodAnswered, TypeInv, TypeOK, Key, Viewed, world, route, figures, spinner, history
<1> QED
  BY <1>2, <1>3 DEF PeriodAnswered, TypeInv, RowsOK, world

LEMMA VariablesType == ASSUME TypeInv, NEW i, VariablesAnswered(i) PROVE TypeInv'
<1>1. /\ pending["variables"] # <<>> /\ pending["variables"][i] \in Plans
      /\ DOMAIN pending' = Kinds /\ QueuesOK(pending') /\ overtaken' \in BOOLEAN
  <2>1. Arrives("variables", i) /\ pending' = Sent(Without("variables", i), AskedByVariables)
    BY DEF VariablesAnswered
  <2>2. pending["variables"] # <<>> /\ pending["variables"][i] \in Asks["variables"]
    <3>1. i \in DOMAIN pending["variables"] /\ pending["variables"] \in Seq(Asks["variables"])
      BY <2>1, KindsAre DEF Arrives, TypeInv, QueuesOK
    <3> QED
      BY <3>1, RemoveType
  <2>3. AsksOK(AskedByVariables)
    BY VariablesAsks
  <2> QED
    BY <2>1, <2>3, AnswerQueues, KindsAre DEF Asks
<1>2. TypeOK'
  BY <1>1 DEF VariablesAnswered, TypeInv, TypeOK, Key, Viewed, world, route, figures, spinner, history
<1> QED
  BY <1>1, <1>2 DEF VariablesAnswered, TypeInv, RowsOK, world

LEMMA IndicatorsType == ASSUME TypeInv, NEW i, IndicatorsAnswered(i) PROVE TypeInv'
<1>1. /\ pending["indicators"] # <<>> /\ pending["indicators"][i] \in Plans \X Plans \X Viewed
      /\ DOMAIN pending' = Kinds /\ QueuesOK(pending') /\ overtaken' \in BOOLEAN
      /\ pending'["variables"] = pending["variables"]
  <2>1. Arrives("indicators", i) /\ pending' = Without("indicators", i)
    BY DEF IndicatorsAnswered
  <2>2. "variables" \in Kinds \ {"indicators"}
    BY DEF Kinds
  <2> QED
    BY <2>1, <2>2, AnswerTaken, KindsAre DEF Asks
<1>2. TypeOK'
  BY <1>1 DEF IndicatorsAnswered, TypeInv, TypeOK, Key, Viewed, world, route, figures, spinner, history
<1> QED
  BY <1>1, <1>2 DEF IndicatorsAnswered, TypeInv, RowsOK, world

LEMMA CommissionType == ASSUME TypeInv, NEW i, CommissionAnswered(i) PROVE TypeInv'
<1>1. Arrives("commission", i) /\ pending' = Sent(Without("commission", i), AskedByCommission(plan'))
  BY DEF CommissionAnswered
<1>2. AsksOK(AskedByCommission(plan')) /\ commission' \in Key /\ plan' \in Plans \cup {None}
  BY CommissionAsks
<1>3. DOMAIN pending' = Kinds /\ QueuesOK(pending') /\ overtaken' \in BOOLEAN
  BY <1>1, <1>2, AnswerQueues, KindsAre
<1>4. /\ pending'["variables"] = pending["variables"]
      /\ pending'["indicators"] = pending["indicators"]
  <2>1. {"variables", "indicators"} \subseteq Kinds \ (DOMAIN AskedByCommission(plan') \cup {"commission"})
    BY DEF AskedByCommission, Kinds
  <2> QED
    BY <1>1, <1>2, <2>1, AnswerQueues, KindsAre
<1>5. TypeOK'
  BY <1>2, <1>3 DEF CommissionAnswered, TypeInv, TypeOK, Key, Viewed, world, route, figures, charts, spinner, history
<1> QED
  BY <1>3, <1>4, <1>5 DEF CommissionAnswered, TypeInv, RowsOK, world, charts

LEMMA IncentivesType == ASSUME TypeInv, NEW i, IncentivesAnswered(i) PROVE TypeInv'
<1>1. /\ pending["incentives"][i] \in Key
      /\ DOMAIN pending' = Kinds /\ QueuesOK(pending') /\ overtaken' \in BOOLEAN
      /\ pending'["variables"] = pending["variables"]
      /\ pending'["indicators"] = pending["indicators"]
  <2>1. Arrives("incentives", i) /\ pending' = Without("incentives", i)
    BY DEF IncentivesAnswered
  <2>2. {"variables", "indicators"} \subseteq Kinds \ {"incentives"}
    BY DEF Kinds
  <2> QED
    BY <2>1, <2>2, AnswerTaken, KindsAre DEF Asks
<1>2. TypeOK' /\ DOMAIN shown' = DOMAIN shown
  BY <1>1 DEF IncentivesAnswered, TypeInv, TypeOK, Key, Viewed, world, route, figures, charts, spinner, history
<1> QED
  BY <1>1, <1>2 DEF IncentivesAnswered, TypeInv, RowsOK, world, charts

LEMMA DealsType == ASSUME TypeInv, NEW i, DealsAnswered(i) PROVE TypeInv'
<1>1. /\ pending["deals"][i] \in Plans \X Plans \X Viewed
      /\ DOMAIN pending' = Kinds /\ QueuesOK(pending') /\ overtaken' \in BOOLEAN
      /\ pending'["variables"] = pending["variables"]
      /\ pending'["indicators"] = pending["indicators"]
  <2>1. Arrives("deals", i) /\ pending' = Without("deals", i)
    BY DEF DealsAnswered
  <2>2. {"variables", "indicators"} \subseteq Kinds \ {"deals"}
    BY DEF Kinds
  <2> QED
    BY <2>1, <2>2, AnswerTaken, KindsAre DEF Asks
<1>2. TypeOK' /\ DOMAIN shown' = DOMAIN shown
  BY <1>1 DEF DealsAnswered, TypeInv, TypeOK, Key, Viewed, world, route, figures, charts, spinner, history
<1> QED
  BY <1>1, <1>2 DEF DealsAnswered, TypeInv, RowsOK, world, charts

\* Goals, in both of their ways: with pictures to ask for, and without.
LEMMA GoalsQueues ==
  ASSUME TypeInv, NEW i, GoalsAnswered(i)
  PROVE  /\ pending["goals"][i] \in Key
         /\ DOMAIN pending' = Kinds /\ QueuesOK(pending') /\ overtaken' \in BOOLEAN
         /\ \A j \in Kinds \ {"goals", "profiles"} : pending'[j] = pending[j]
         /\ pending'["goals"] = Without("goals", i)["goals"]
         /\ AwaitsPictures => pending'["profiles"] # <<>>
<1>1. Arrives("goals", i)
  BY DEF GoalsAnswered
<1>2. CASE getProfileIds = {}
  <2>1. pending' = Without("goals", i)
    BY <1>2 DEF GoalsAnswered
  <2> QED
    BY <1>1, <1>2, <2>1, AnswerTaken, KindsAre DEF Asks, AwaitsPictures
<1>3. CASE getProfileIds # {}
  <2> DEFINE asks == [profiles |-> getProfileIds]
  <2>1. AsksOK(asks)
    BY DEF AsksOK, Asks, Kinds, getProfileIds
  <2>2. pending' = Sent(Without("goals", i), asks)
    BY <1>3 DEF GoalsAnswered
  <2>3. DOMAIN asks = {"profiles"}
    OBVIOUS
  <2> HIDE DEF asks
  <2> QED
    BY <1>1, <2>1, <2>2, <2>3, AnswerQueues, KindsAre DEF Asks
<1> QED
  BY <1>2, <1>3

LEMMA GoalsType == ASSUME TypeInv, NEW i, GoalsAnswered(i) PROVE TypeInv'
<1>1. /\ pending["goals"][i] \in Key
      /\ DOMAIN pending' = Kinds /\ QueuesOK(pending') /\ overtaken' \in BOOLEAN
      /\ pending'["variables"] = pending["variables"]
      /\ pending'["indicators"] = pending["indicators"]
  BY GoalsQueues DEF Kinds
<1>2. loadingProfiles' \in BOOLEAN /\ loadingGoalDatasets' \in BOOLEAN
  BY DEF GoalsAnswered, AwaitsPictures
<1>3. TypeOK' /\ DOMAIN shown' = DOMAIN shown
  BY <1>1, <1>2 DEF GoalsAnswered, TypeInv, TypeOK, Key, Viewed, world, route, figures, charts, history
<1> QED
  BY <1>1, <1>3 DEF GoalsAnswered, TypeInv, RowsOK, world, charts

LEMMA ProfilesType == ASSUME TypeInv, NEW i, ProfilesAnswered(i) PROVE TypeInv'
<1>1. /\ DOMAIN pending' = Kinds /\ QueuesOK(pending') /\ overtaken' \in BOOLEAN
      /\ pending'["variables"] = pending["variables"]
      /\ pending'["indicators"] = pending["indicators"]
  <2>1. Arrives("profiles", i) /\ pending' = Without("profiles", i)
    BY DEF ProfilesAnswered
  <2>2. {"variables", "indicators"} \subseteq Kinds \ {"profiles"}
    BY DEF Kinds
  <2> QED
    BY <2>1, <2>2, AnswerTaken, KindsAre DEF Asks
<1>2. TypeOK'
  BY <1>1 DEF ProfilesAnswered, TypeInv, TypeOK, Key, Viewed, world, route, figures, charts, history
<1> QED
  BY <1>1, <1>2 DEF ProfilesAnswered, TypeInv, RowsOK, world, charts

\* The ranking an answer brings: the page of r, of rows worth reading.
Answer(i) == pending["ranking"][i]
AnswerRows(i) == Rows(Answer(i)[1], Answer(i)[2], Answer(i)[3])

LEMMA RankingBrings ==
  ASSUME TypeInv, NEW i, RankingAnswered(i)
  PROVE  /\ Answer(i) \in Plans \X Sorts \X Viewed /\ RowsOK(AnswerRows(i))
         /\ DOMAIN pending' = Kinds /\ QueuesOK(pending') /\ overtaken' \in BOOLEAN
         /\ \A j \in Kinds \ {"ranking"} : pending'[j] = pending[j]
<1>1. Arrives("ranking", i) /\ pending' = Without("ranking", i)
  BY DEF RankingAnswered
<1>2. /\ Answer(i) \in Plans \X Sorts \X Viewed
      /\ DOMAIN pending' = Kinds /\ QueuesOK(pending') /\ overtaken' \in BOOLEAN
      /\ \A j \in Kinds \ {"ranking"} : pending'[j] = pending[j]
  BY <1>1, AnswerTaken, KindsAre DEF Asks, Answer
<1>3. RowsOK(AnswerRows(i))
  BY <1>2, RowsType DEF AnswerRows, TypeInv
<1> QED
  BY <1>2, <1>3

\* A ranking without rows takes the list away; any other puts all of its own.
LEMMA RankingPuts ==
  ASSUME NEW i, RankingAnswered(i)
  PROVE  \/ /\ AnswerRows(i) = <<>> /\ list' = None
            /\ UNCHANGED <<figures, selected, userId>>
         \/ /\ AnswerRows(i) # <<>>
            /\ list' = [plan |-> Answer(i)[1], rows |-> AnswerRows(i),
                        average |-> <<SumMoney(AnswerRows(i)), Len(AnswerRows(i))>>, sort |-> userSort]
            /\ totalMoney' = SumMoney(AnswerRows(i))
            /\ averageMoneyUser' = <<SumMoney(AnswerRows(i)), Len(AnswerRows(i))>>
            /\ above' = countUsersAboveAverage(AnswerRows(i), SumMoney(AnswerRows(i)))
            /\ below' = countUsersBelowAverage(AnswerRows(i), SumMoney(AnswerRows(i)))
            /\ \/ /\ Len(AnswerRows(i)) = 1
                  /\ currentUserSeat = "SalesRepresentative" \/ userId # NoUser
                  /\ selected' = SelectedFrom(AnswerRows(i)[1]) /\ userId' = AnswerRows(i)[1].user
               \/ UNCHANGED <<selected, userId>>
BY DEF RankingAnswered, Answer, AnswerRows, Adopts

LEMMA RankingType == ASSUME TypeInv, NEW i, RankingAnswered(i) PROVE TypeInv'
<1>1. /\ DOMAIN pending' = Kinds /\ QueuesOK(pending') /\ overtaken' \in BOOLEAN
      /\ pending'["variables"] = pending["variables"]
      /\ pending'["indicators"] = pending["indicators"]
  BY RankingBrings DEF Kinds
<1>2. userId' \in Viewed
  <2>1. userId \in Viewed
    BY NowType
  <2>2. CASE Len(AnswerRows(i)) = 1 /\ userId' = AnswerRows(i)[1].user
    BY <2>2, RankingBrings DEF RowsOK, Viewed
  <2> QED
    BY <2>1, <2>2, RankingPuts
<1>3. carried' \in BOOLEAN /\ {viewers', charted'} \subseteq SUBSET Viewed
  BY <1>2 DEF RankingAnswered, TypeInv, TypeOK
<1>4. TypeOK'
  BY <1>1, <1>2, <1>3 DEF RankingAnswered, TypeInv, TypeOK, Key, Viewed, world, charts, spinner
<1>5. list' # None => RowsOK(list'.rows)
  BY RankingPuts, RankingBrings
<1> QED
  BY <1>1, <1>4, <1>5 DEF RankingAnswered, TypeInv, world, charts, RowsOK

LEMMA MeType == ASSUME TypeInv, MeAnswered PROVE TypeInv'
<1>1. TypeOK'
  BY DEF MeAnswered, TypeInv, TypeOK, Key, Viewed, world, route, charts, spinner, history
<1> QED
  BY <1>1 DEF MeAnswered, TypeInv, RowsOK, QueuesOK, world, charts

LEMMA FailsType == ASSUME TypeInv, NEW k \in Kinds, Fails(k) PROVE TypeInv'
<1>1. DOMAIN pending = Kinds /\ QueuesOK(pending)
  BY DEF TypeInv, TypeOK
<1>2. 1 \in DOMAIN pending[k]
  <2>1. pending[k] \in Seq(Asks[k]) /\ pending[k] # <<>>
    BY <1>1 DEF Fails, QueuesOK
  <2>2. Len(pending[k]) \in Nat \ {0} /\ DOMAIN pending[k] = 1 .. Len(pending[k])
    BY <2>1, EmptySeq, LenProperties
  <2> QED
    BY <2>2
<1>3. /\ DOMAIN pending' = Kinds /\ QueuesOK(pending')
      /\ \A j \in Kinds \ {k} : pending'[j] = pending[j]
      /\ pending[k] # <<>>
  BY <1>1, <1>2, WithoutQueue DEF Fails
<1>4. /\ pending'["variables"] # <<>> => pending["variables"] # <<>>
      /\ pending'["indicators"] # <<>> => pending["indicators"] # <<>>
  BY <1>3 DEF Kinds
<1>5. loadingGoalDatasets' \in BOOLEAN
  BY DEF Fails, TypeInv, TypeOK
<1>6. TypeOK'
  BY <1>3, <1>5 DEF Fails, TypeInv, TypeOK, Key, Viewed, world, route, charts, history
<1> QED
  BY <1>3, <1>4, <1>6 DEF Fails, TypeInv, RowsOK, world, charts

\* Next, one disjunct a step.
LEMMA NextCases ==
  ASSUME [Next]_vars
  PROVE  \/ \E r \in Routes : Route(r[1], r[2])
         \/ list # None /\ \E i \in DOMAIN list.rows : selectUser(i)
         \/ clearUser
         \/ \E s \in Sorts : selectSort(s)
         \/ \E i \in 1 .. 2 :
              \/ PeriodAnswered(i) \/ VariablesAnswered(i) \/ IndicatorsAnswered(i)
              \/ CommissionAnswered(i) \/ DealsAnswered(i) \/ IncentivesAnswered(i)
              \/ GoalsAnswered(i) \/ ProfilesAnswered(i) \/ RankingAnswered(i)
         \/ MeAnswered
         \/ \E k \in Kinds : Fails(k)
         \/ UNCHANGED vars
BY DEF Next, Answered

LEMMA NextType == TypeInv /\ [Next]_vars => TypeInv'
<1> SUFFICES ASSUME TypeInv, [Next]_vars PROVE TypeInv'
  OBVIOUS
<1>1. CASE UNCHANGED vars
  BY <1>1 DEF vars, world, route, figures, charts, spinner, history, TypeInv, TypeOK, Key, Viewed,
              QueuesOK, RowsOK
<1> QED
  BY <1>1, NextCases, ViewerType, PeriodType, VariablesType, IndicatorsType, CommissionType,
     DealsType, IncentivesType, GoalsType, ProfilesType, RankingType, MeType, FailsType

LEMMA TypeInvariant == Spec => []TypeInv
BY InitType, NextType, PTL DEF Spec

\* Every query names a plan, a user and an order there are, whatever the page
\* held when an answer sent it.
THEOREM DashboardTypeCorrect == Spec => []TypeOK
<1>1. TypeInv => TypeOK
  BY DEF TypeInv
<1> QED
  BY <1>1, TypeInvariant, PTL

----------------------------------------------------------------------------
(* The panel of the selected user.                                         *)

LEMMA NextSelection == SelectionAgrees /\ [Next]_vars => SelectionAgrees'
<1> SUFFICES ASSUME SelectionAgrees, [Next]_vars PROVE SelectionAgrees'
  OBVIOUS
<1> USE DEF SelectionAgrees, SelectionMatches, AverageIsOfTheList
<1>1. CASE \E r \in Routes : Route(r[1], r[2])
  BY <1>1 DEF Route, figures
<1>2. CASE list # None /\ \E i \in DOMAIN list.rows : selectUser(i)
  BY <1>2 DEF selectUser, SelectedFrom, AverageOfRow
<1>3. CASE \E s : Deselect(s)
  BY <1>3 DEF Deselect
<1>4. ASSUME NEW i, RankingAnswered(i) PROVE SelectionAgrees'
  <2>1. carried' = (carried /\ selected' = selected)
    BY <1>4 DEF RankingAnswered
  <2>2. SelectionMatches'
    <3>1. \/ UNCHANGED <<selected, userId>>
          \/ selected' = SelectedFrom(AnswerRows(i)[1]) /\ userId' = AnswerRows(i)[1].user
      BY <1>4, RankingPuts
    <3>2. CASE UNCHANGED <<selected, userId>>
      BY <2>1, <3>2
    <3>3. CASE selected' = SelectedFrom(AnswerRows(i)[1]) /\ userId' = AnswerRows(i)[1].user
      BY <3>3 DEF SelectedFrom
    <3> QED
      BY <3>1, <3>2, <3>3
  <2>3. AverageIsOfTheList'
    BY <1>4, RankingPuts
  <2> QED
    BY <2>2, <2>3
<1>5. ASSUME UNCHANGED <<selected, userId, carried, list, averageMoneyUser>> PROVE SelectionAgrees'
  BY <1>5
<1>6. CASE \E i : \/ PeriodAnswered(i) \/ VariablesAnswered(i) \/ IndicatorsAnswered(i)
                  \/ CommissionAnswered(i) \/ DealsAnswered(i) \/ IncentivesAnswered(i)
                  \/ GoalsAnswered(i) \/ ProfilesAnswered(i)
  BY <1>5, <1>6 DEF PeriodAnswered, VariablesAnswered, IndicatorsAnswered, CommissionAnswered,
     DealsAnswered, IncentivesAnswered, GoalsAnswered, ProfilesAnswered, route, figures, history
<1>7. CASE MeAnswered \/ (\E k \in Kinds : Fails(k)) \/ UNCHANGED vars
  BY <1>5, <1>7 DEF MeAnswered, Fails, vars, route, figures, history
<1> QED
  BY <1>1, <1>2, <1>3, <1>4, <1>6, <1>7, NextCases DEF clearUser, selectSort

\* The panel is about the user every query is about, unless the route moved on
\* under it, and its average is that of the list: selectUser, clearUser,
\* selectSort and a ranking of one row, in any order with every answer.
THEOREM PanelIsOfTheUser == Spec => []SelectionAgrees
<1>1. Init => SelectionAgrees
  BY DEF Init, SelectionAgrees, SelectionMatches, AverageIsOfTheList
<1> QED
  BY <1>1, NextSelection, PTL DEF Spec

----------------------------------------------------------------------------
(* The totals of the list.                                                 *)

\* The figures are those of the list, whatever was asked for since.
ListSums ==
  list # None =>
    /\ totalMoney = SumMoney(list.rows)
    /\ above = countUsersAboveAverage(list.rows, totalMoney)
    /\ below = countUsersBelowAverage(list.rows, totalMoney)

LEMMA NextSums == ListSums /\ [Next]_vars => ListSums'
<1> SUFFICES ASSUME ListSums, [Next]_vars PROVE ListSums'
  OBVIOUS
<1>1. ASSUME UNCHANGED <<list, totalMoney, above, below>> PROVE ListSums'
  BY <1>1 DEF ListSums
<1>2. ASSUME NEW i, RankingAnswered(i) PROVE ListSums'
  BY <1>2, RankingPuts DEF ListSums
<1>3. CASE \/ \E r \in Routes : Route(r[1], r[2])
           \/ list # None /\ \E i \in DOMAIN list.rows : selectUser(i)
           \/ \E s : Deselect(s)
  BY <1>1, <1>3 DEF Route, selectUser, Deselect, figures
<1>4. CASE \E i : \/ PeriodAnswered(i) \/ VariablesAnswered(i) \/ IndicatorsAnswered(i)
                  \/ CommissionAnswered(i) \/ DealsAnswered(i) \/ IncentivesAnswered(i)
                  \/ GoalsAnswered(i) \/ ProfilesAnswered(i)
  BY <1>1, <1>4 DEF PeriodAnswered, VariablesAnswered, IndicatorsAnswered, CommissionAnswered,
     DealsAnswered, IncentivesAnswered, GoalsAnswered, ProfilesAnswered, figures
<1>5. CASE MeAnswered \/ (\E k \in Kinds : Fails(k)) \/ UNCHANGED vars
  BY <1>1, <1>5 DEF MeAnswered, Fails, vars, figures
<1> QED
  BY <1>2, <1>3, <1>4, <1>5, NextCases DEF clearUser, selectSort

LEMMA SumsErrLow == TypeInv /\ ListSums => TotalErrsLow
<1> SUFFICES ASSUME TypeInv, ListSums, list # None, Countable(list.rows)
             PROVE  LET n == Len(list.rows) exact == ExactCents(list.rows) IN
                    /\ totalMoney * Cents \in (exact - n * (Cents - 1)) .. exact
                    /\ above >= Cardinality({i \in 1 .. n : list.rows[i].money # NoMoney /\ list.rows[i].money * n > exact})
                    /\ below <= Cardinality({i \in 1 .. n : list.rows[i].money # NoMoney /\ list.rows[i].money * n < exact})
  BY DEF TotalErrsLow
<1> DEFINE rows == list.rows
           n == Len(rows)
           exact == ExactCents(rows)
<1>1. RowsOK(rows)
  BY DEF TypeInv
<1>2. n \in Nat /\ DOMAIN rows = 1 .. n /\ \A i \in 1 .. n : rows[i].money \in Money
  BY <1>1 DEF RowsOK
<1>3. totalMoney = SumMoney(rows)
  BY DEF ListSums
<1>4. /\ totalMoney \in Nat /\ exact \in Nat
      /\ exact - n * (Cents - 1) <= totalMoney * Cents /\ totalMoney * Cents <= exact
  BY <1>2, <1>3, TotalErrs
<1>5. Cents \in Nat \ {0}
  BY CentsAssumption
<1>6. /\ above = countUsersAboveAverage(rows, totalMoney)
      /\ below = countUsersBelowAverage(rows, totalMoney)
  BY DEF ListSums
<1> HIDE DEF n, exact, rows
<1>7. totalMoney * Cents \in (exact - n * (Cents - 1)) .. exact
  BY <1>2, <1>4, <1>5
<1> USE DEF n, rows
<1>8. /\ countUsersAboveAverage(rows, totalMoney) >=
           Cardinality({i \in 1 .. n : rows[i].money # NoMoney /\ rows[i].money * n > exact})
      /\ countUsersBelowAverage(rows, totalMoney) <=
           Cardinality({i \in 1 .. n : rows[i].money # NoMoney /\ rows[i].money * n < exact})
  <2>1. totalMoney \in Int /\ exact \in Int
    BY <1>4
  <2> QED
    BY <1>2, <1>4, <2>1, CountsErrLow
<1>9. /\ above >= Cardinality({i \in 1 .. n : rows[i].money # NoMoney /\ rows[i].money * n > exact})
      /\ below <= Cardinality({i \in 1 .. n : rows[i].money # NoMoney /\ rows[i].money * n < exact})
  BY <1>6, <1>8, Zenon
<1> QED
  BY <1>7, <1>9, Zenon DEF exact

\* For a ranking of any length, the total that (accumulator + money) | 0 sums
\* loses less than a unit a row, and the users counted above and below the
\* average err on the side that flatters.
THEOREM TotalsErrLow == Spec => []TotalErrsLow
<1>1. Init => ListSums
  BY DEF Init, ListSums
<1> QED
  BY <1>1, NextSums, SumsErrLow, TypeInvariant, PTL DEF Spec

----------------------------------------------------------------------------
(* The spinner.                                                            *)

\* What a flag waits for is under way, or something that will ask for it.
Awaited ==
  ~failed =>
    /\ loadingGoalDatasets => pending["commission"] # <<>> \/ pending["goals"] # <<>>
    /\ loadingProfiles => pending["profiles"] # <<>>

\* No queue is emptied but by its own answers.
LEMMA KeptAwaited ==
  ASSUME Awaited, UNCHANGED <<spinner, failed>>,
         \A j \in {"commission", "goals", "profiles"} : pending[j] # <<>> => pending'[j] # <<>>
  PROVE  Awaited'
BY DEF Awaited, spinner

LEMMA SentKeeps ==
  ASSUME TypeInv, NEW asks, AsksOK(asks), pending' = Sent(pending, asks)
  PROVE  \A j \in Kinds : pending[j] # <<>> => pending'[j] # <<>>
BY SentLast DEF TypeInv, TypeOK

LEMMA ViewerAsks ==
  ASSUME TypeInv,
         \/ \E r \in Routes : Route(r[1], r[2])
         \/ list # None /\ \E i \in DOMAIN list.rows : selectUser(i)
         \/ clearUser
         \/ \E s \in Sorts : selectSort(s)
  PROVE  \E asks : AsksOK(asks) /\ pending' = Sent(pending, asks)
<1>1. planId \in Plans /\ userSort \in Sorts /\ NoUser \in Viewed
  BY DEF TypeInv, TypeOK, Viewed
<1>2. ASSUME NEW r \in Routes, Route(r[1], r[2])
      PROVE  AsksOK(AskedByRoute(r[1], r[2], userSort))
  BY <1>1, RouteType DEF AsksOK, AskedByRoute, Asks, Key, Kinds
<1>3. ASSUME list # None, NEW i \in DOMAIN list.rows, selectUser(i)
      PROVE  AsksOK(AskedBySelect(userId'))
  <2>1. userId' \in Viewed
    BY <1>3 DEF selectUser, TypeInv, RowsOK, Viewed
  <2> QED
    BY <1>1, <2>1 DEF AsksOK, AskedBySelect, Asks, Key, Kinds
<1>4. ASSUME NEW s \in Sorts
      PROVE  AsksOK([commission |-> <<planId, NoUser>>, ranking |-> <<planId, s, NoUser>>])
  BY <1>1 DEF AsksOK, Asks, Key, Kinds
<1> QED
  BY <1>1, <1>2, <1>3, <1>4 DEF Route, selectUser, clearUser, selectSort, Deselect

LEMMA AnswerAwaited ==
  ASSUME TypeInv, Awaited, NEW k \in Kinds \ {"commission", "goals", "profiles"}, NEW i,
         Arrives(k, i), NEW asks, AsksOK(asks), UNCHANGED <<spinner, failed>>,
         pending' = Sent(Without(k, i), asks) \/ pending' = Without(k, i)
  PROVE  Awaited'
<1>1. \A j \in Kinds \ {k} : pending[j] # <<>> => pending'[j] # <<>>
  BY AnswerQueues, AnswerTaken
<1> QED
  BY <1>1, KeptAwaited DEF Kinds

LEMMA CommissionAwaited ==
  ASSUME TypeInv, Awaited, NEW i, CommissionAnswered(i)
  PROVE  Awaited'
<1>1. Arrives("commission", i) /\ pending' = Sent(Without("commission", i), AskedByCommission(plan'))
  BY DEF CommissionAnswered
<1>2. AsksOK(AskedByCommission(plan'))
  BY CommissionAsks
<1>3. "goals" \in DOMAIN AskedByCommission(plan')
  BY DEF AskedByCommission
<1>4. pending'["goals"] # <<>> /\ (pending["profiles"] # <<>> => pending'["profiles"] # <<>>)
  BY <1>1, <1>2, <1>3, AnswerQueues DEF Kinds
<1> QED
  BY <1>4 DEF CommissionAnswered, Awaited, spinner

LEMMA NextAwaited == TypeInv /\ Awaited /\ [Next]_vars => Awaited'
<1> SUFFICES ASSUME TypeInv, Awaited, [Next]_vars PROVE Awaited'
  OBVIOUS
<1>1. CASE \/ \E r \in Routes : Route(r[1], r[2])
           \/ list # None /\ \E i \in DOMAIN list.rows : selectUser(i)
           \/ clearUser
           \/ \E s \in Sorts : selectSort(s)
  <2>1. \A j \in Kinds : pending[j] # <<>> => pending'[j] # <<>>
    BY <1>1, ViewerAsks, SentKeeps
  <2>2. UNCHANGED <<spinner, failed>>
    BY <1>1 DEF Route, selectUser, clearUser, selectSort, Deselect
  <2> QED
    BY <2>1, <2>2, KeptAwaited, KindsAre
<1>2. ASSUME NEW i, PeriodAnswered(i) PROVE Awaited'
  BY <1>2, PeriodAsks, AnswerAwaited DEF PeriodAnswered, Kinds
<1>3. ASSUME NEW i, VariablesAnswered(i) PROVE Awaited'
  BY <1>3, VariablesAsks, AnswerAwaited DEF VariablesAnswered, Kinds
<1>4. ASSUME NEW i, \/ IndicatorsAnswered(i) \/ DealsAnswered(i) \/ IncentivesAnswered(i)
                    \/ RankingAnswered(i)
      PROVE  Awaited'
  <2>1. AsksOK([k \in {} |-> k])
    BY DEF AsksOK
  <2> QED
    BY <1>4, <2>1, AnswerAwaited DEF IndicatorsAnswered, DealsAnswered, IncentivesAnswered,
       RankingAnswered, Kinds
<1>5. ASSUME NEW i, GoalsAnswered(i) PROVE Awaited'
  <2>1. AwaitsPictures => pending'["profiles"] # <<>>
    BY <1>5, GoalsQueues
  <2> QED
    BY <1>5, <2>1 DEF GoalsAnswered, Awaited
<1>6. ASSUME NEW i, ProfilesAnswered(i) PROVE Awaited'
  <2>1. /\ pending'["commission"] = pending["commission"]
        /\ pending'["goals"] = pending["goals"]
    <3>1. {"commission", "goals"} \subseteq Kinds \ {"profiles"}
      BY DEF Kinds
    <3> QED
      BY <1>6, <3>1, AnswerTaken, KindsAre DEF ProfilesAnswered
  <2> QED
    BY <1>6, <2>1 DEF ProfilesAnswered, Awaited
<1>7. CASE MeAnswered \/ UNCHANGED vars
  BY <1>7 DEF MeAnswered, vars, Awaited, spinner
<1>8. CASE \E k \in Kinds : Fails(k)
  BY <1>8 DEF Fails, Awaited
<1> QED
  BY <1>1, <1>2, <1>3, <1>4, <1>5, <1>6, <1>7, <1>8, CommissionAwaited, NextCases

\* Whatever overtakes what, the spinner is not left behind once every answer
\* is in: getTemporaryProfiles raises no flag that nothing will lower.
THEOREM SpinnerIsLowered == Spec => []SpinnerEnds
<1>1. Init => Awaited
  <2> SUFFICES ASSUME Init PROVE Awaited
    OBVIOUS
  <2>1. planId \in Plans /\ userId \in Viewed /\ userSort \in Sorts
    BY RouteType, FirstAssumption DEF Init
  <2>2. AsksOK(AskedByRoute(planId, userId, userSort))
    BY <2>1 DEF AsksOK, AskedByRoute, Asks, Key, Kinds
  <2>3. QueuesOK([k \in Kinds |-> <<>>])
    BY EmptySeq DEF QueuesOK
  <2>4. pending["commission"] # <<>>
    BY <2>2, <2>3, SentLast DEF Init, AskedByRoute
  <2> QED
    BY <2>4 DEF Init, Awaited
<1>2. Awaited => SpinnerEnds
  <2>1. Quiet => \A k \in {"commission", "goals", "profiles"} : pending[k] = <<>>
    BY KindsAre DEF Quiet
  <2> QED
    BY <2>1 DEF Awaited, SpinnerEnds, loading
<1> QED
  BY <1>1, <1>2, NextAwaited, TypeInvariant, PTL DEF Spec

----------------------------------------------------------------------------
(* Where the page settles: what it holds once each queue is empty.         *)

\* What the page will hold of a kind, when its answers come in order.
Coming(k, held) == IF pending[k] = <<>> THEN held ELSE Last(pending[k])

InOrderSoFar == ~overtaken /\ ~failed

\* In order, an answer is what was coming, or leaves what is coming alone.
LEMMA AnswerInOrder ==
  ASSUME TypeInv, NEW k \in Kinds, NEW i, Arrives(k, i), ~overtaken',
         \/ pending' = Without(k, i)
         \/ \E asks : AsksOK(asks) /\ k \notin DOMAIN asks /\ pending' = Sent(Without(k, i), asks)
  PROVE  /\ ~overtaken /\ pending[k] # <<>>
         /\ \/ pending'[k] = <<>> /\ pending[k][i] = Last(pending[k])
            \/ pending'[k] # <<>> /\ Last(pending'[k]) = Last(pending[k])
<1>1. i = 1 /\ 1 \in DOMAIN pending[k] /\ ~overtaken
  BY ArrivesFirst
<1>2. DOMAIN pending = Kinds /\ QueuesOK(pending)
  BY DEF TypeInv, TypeOK
<1>3. pending[k] # <<>>
  BY <1>1, <1>2, WithoutQueue
<1>4. \/ Without(k, 1)[k] = <<>> /\ pending[k][1] = Last(pending[k])
      \/ Without(k, 1)[k] # <<>> /\ Last(Without(k, 1)[k]) = Last(pending[k])
  BY <1>1, <1>2, WithoutFirst
<1>5. pending'[k] = Without(k, 1)[k]
  <2>1. CASE pending' = Without(k, i)
    BY <1>1, <2>1
  <2>2. ASSUME NEW asks, AsksOK(asks), k \notin DOMAIN asks, pending' = Sent(Without(k, i), asks)
        PROVE  pending'[k] = Without(k, 1)[k]
    BY <1>1, <2>2, AnswerQueues
  <2> QED
    BY <2>1, <2>2
<1> QED
  BY <1>1, <1>3, <1>4, <1>5

\* A move of the viewer: what it asks for is coming, the rest stays.
LEMMA MoveQueues ==
  ASSUME TypeInv, NEW asks, AsksOK(asks), pending' = Sent(pending, asks)
  PROVE  /\ \A k \in DOMAIN asks : pending'[k] # <<>> /\ Last(pending'[k]) = asks[k]
         /\ \A k \in Kinds \ DOMAIN asks : pending'[k] = pending[k]
BY SentLast DEF TypeInv, TypeOK

\* What each move asks for.
LEMMA RouteQueues ==
  ASSUME TypeInv, NEW r \in Routes, Route(r[1], r[2])
  PROVE  /\ pending'["period"] # <<>> /\ Last(pending'["period"]) = planId'
         /\ pending'["commission"] # <<>> /\ Last(pending'["commission"]) = <<planId', asked'>>
         /\ pending'["ranking"] # <<>> /\ Last(pending'["ranking"]) = <<planId', userSort', asked'>>
         /\ asked' = userId' /\ viewers' = {userId'} /\ charted' = {userId'} /\ rankedFor' = asked'
<1> DEFINE asks == AskedByRoute(r[1], r[2], userSort)
<1>1. r[1] \in Plans /\ r[2] \in Viewed /\ userSort \in Sorts
  BY RouteType DEF TypeInv, TypeOK
<1>2. AsksOK(asks)
  BY <1>1 DEF AsksOK, AskedByRoute, Asks, Key, Kinds
<1>3. pending' = Sent(pending, asks)
  BY DEF Route
<1>4. \A k \in DOMAIN asks : pending'[k] # <<>> /\ Last(pending'[k]) = asks[k]
  BY <1>2, <1>3, MoveQueues
<1> QED
  BY <1>1, <1>4 DEF AskedByRoute, Route, Remembers

LEMMA SelectQueues ==
  ASSUME TypeInv, list # None, NEW i \in DOMAIN list.rows, selectUser(i)
  PROVE  /\ pending'["commission"] # <<>> /\ Last(pending'["commission"]) = <<planId', asked'>>
         /\ \A k \in Kinds \ {"commission"} : pending'[k] = pending[k]
         /\ asked' = userId' /\ viewers' = {userId'} /\ charted' = charted \cup {userId'}
         /\ rankedFor' = rankedFor
<1>1. userId' \in Viewed /\ planId \in Plans
  BY DEF selectUser, TypeInv, TypeOK, RowsOK, Viewed
<1>2. AsksOK(AskedBySelect(userId')) /\ DOMAIN AskedBySelect(userId') = {"commission"}
  BY <1>1 DEF AsksOK, AskedBySelect, Asks, Key, Kinds
<1>3. /\ \A k \in DOMAIN AskedBySelect(userId') : pending'[k] # <<>> /\ Last(pending'[k]) = AskedBySelect(userId')[k]
      /\ \A k \in Kinds \ DOMAIN AskedBySelect(userId') : pending'[k] = pending[k]
  BY <1>2, MoveQueues DEF selectUser
<1> QED
  BY <1>2, <1>3 DEF AskedBySelect, selectUser, Remembers

LEMMA DeselectQueues ==
  ASSUME TypeInv, NEW s \in Sorts, Deselect(s)
  PROVE  /\ pending'["commission"] # <<>> /\ Last(pending'["commission"]) = <<planId', asked'>>
         /\ pending'["ranking"] # <<>> /\ Last(pending'["ranking"]) = <<planId', s, NoUser>>
         /\ \A k \in Kinds \ {"commission", "ranking"} : pending'[k] = pending[k]
         /\ asked' = userId' /\ viewers' = {userId'} /\ charted' = charted \cup {userId'}
         /\ rankedFor' = NoUser
<1> DEFINE asks == [commission |-> <<planId, NoUser>>, ranking |-> <<planId, s, NoUser>>]
<1>1. NoUser \in Viewed /\ planId \in Plans
  BY DEF TypeInv, TypeOK, Viewed
<1>2. AsksOK(asks) /\ DOMAIN asks = {"commission", "ranking"}
  BY <1>1 DEF AsksOK, Asks, Key, Kinds
<1>3. /\ \A k \in DOMAIN asks : pending'[k] # <<>> /\ Last(pending'[k]) = asks[k]
      /\ \A k \in Kinds \ DOMAIN asks : pending'[k] = pending[k]
  BY <1>2, MoveQueues DEF Deselect
<1> QED
  BY <1>1, <1>2, <1>3 DEF Deselect, Remembers

\* What a first page asks for.
LEMMA InitQueues ==
  ASSUME Init
  PROVE  /\ pending["period"] # <<>> /\ Last(pending["period"]) = planId
         /\ pending["commission"] # <<>> /\ Last(pending["commission"]) = <<planId, asked>>
         /\ pending["ranking"] # <<>> /\ Last(pending["ranking"]) = <<planId, userSort, asked>>
         /\ asked = userId /\ viewers = {userId} /\ charted = {userId} /\ rankedFor = userId
<1> DEFINE asks == AskedByRoute(planId, userId, userSort)
<1>1. planId \in Plans /\ userId \in Viewed /\ userSort \in Sorts
  BY RouteType, FirstAssumption DEF Init
<1>2. AsksOK(asks)
  BY <1>1 DEF AsksOK, AskedByRoute, Asks, Key, Kinds
<1>3. QueuesOK([k \in Kinds |-> <<>>])
  BY EmptySeq DEF QueuesOK
<1>4. \A k \in DOMAIN asks : pending[k] # <<>> /\ Last(pending[k]) = asks[k]
  BY <1>2, <1>3, SentLast DEF Init
<1> QED
  BY <1>1, <1>4 DEF AskedByRoute, Init

----------------------------------------------------------------------------
(* The ranking.                                                            *)

RankingComes ==
  InOrderSoFar =>
    IF pending["ranking"] = <<>>
      THEN RankedAsAsked
      ELSE Last(pending["ranking"]) = <<planId, userSort, rankedFor>>

LEMMA RankingKept ==
  ASSUME RankingComes, pending'["ranking"] = pending["ranking"],
         UNCHANGED <<world, planId, userSort, rankedFor, list>>,
         InOrderSoFar' => InOrderSoFar
  PROVE  RankingComes'
<1>1. Rows(planId, userSort, rankedFor)' = Rows(planId, userSort, rankedFor)
  BY DEF Rows, RankedUsers, Ranks, world
<1> QED
  BY <1>1 DEF RankingComes, RankedAsAsked

LEMMA RankingAnswers ==
  ASSUME TypeInv, RankingComes, NEW i, RankingAnswered(i)
  PROVE  RankingComes'
<1> SUFFICES ASSUME InOrderSoFar' PROVE RankingComes'
  BY DEF RankingComes
<1>1. /\ ~overtaken /\ pending["ranking"] # <<>>
      /\ \/ pending'["ranking"] = <<>> /\ Answer(i) = Last(pending["ranking"])
         \/ pending'["ranking"] # <<>> /\ Last(pending'["ranking"]) = Last(pending["ranking"])
  BY AnswerInOrder, KindsAre DEF RankingAnswered, InOrderSoFar, Answer
<1>2. UNCHANGED <<world, planId, userSort, rankedFor, failed>>
  BY DEF RankingAnswered
<1>3. Last(pending["ranking"]) = <<planId, userSort, rankedFor>>
  BY <1>1, <1>2 DEF RankingComes, InOrderSoFar
<1>4. CASE pending'["ranking"] # <<>>
  BY <1>1, <1>2, <1>3, <1>4 DEF RankingComes
<1>5. CASE pending'["ranking"] = <<>> /\ Answer(i) = Last(pending["ranking"])
  <2>1. AnswerRows(i) = Rows(planId, userSort, rankedFor) /\ Answer(i)[1] = planId
    BY <1>3, <1>5 DEF AnswerRows
  <2>2. \/ Rows(planId, userSort, rankedFor) = <<>> /\ list' = None
        \/ /\ Rows(planId, userSort, rankedFor) # <<>>
           /\ list'.plan = planId /\ list'.rows = Rows(planId, userSort, rankedFor)
    BY <2>1, RankingPuts
  <2>3. Rows(planId, userSort, rankedFor)' = Rows(planId, userSort, rankedFor)
    BY <1>2 DEF Rows, RankedUsers, Ranks, world
  <2> QED
    BY <1>2, <1>5, <2>2, <2>3 DEF RankingComes, RankedAsAsked
<1> QED
  BY <1>1, <1>4, <1>5

\* Answers of other kinds leave the ranking under way.
LEMMA OtherAnswers ==
  ASSUME TypeInv, NEW i,
         \/ PeriodAnswered(i) \/ VariablesAnswered(i) \/ IndicatorsAnswered(i)
         \/ CommissionAnswered(i) \/ DealsAnswered(i) \/ IncentivesAnswered(i)
         \/ GoalsAnswered(i) \/ ProfilesAnswered(i)
  PROVE  /\ pending'["ranking"] = pending["ranking"]
         /\ overtaken' \/ ~overtaken
         /\ UNCHANGED <<world, route, list, history, failed>>
<1>1. overtaken' \/ ~overtaken
  BY DEF PeriodAnswered, VariablesAnswered, IndicatorsAnswered, CommissionAnswered, DealsAnswered,
     IncentivesAnswered, GoalsAnswered, ProfilesAnswered, Arrives
<1>2. UNCHANGED <<world, route, list, history, failed>>
  BY DEF PeriodAnswered, VariablesAnswered, IndicatorsAnswered, CommissionAnswered, DealsAnswered,
     IncentivesAnswered, GoalsAnswered, ProfilesAnswered
<1>3. CASE PeriodAnswered(i)
  <2>1. "ranking" \in Kinds \ (DOMAIN [variables |-> planId] \cup {"period"})
    BY DEF Kinds
  <2> QED
    BY <1>1, <1>2, <1>3, <2>1, PeriodAsks, AnswerQueues, KindsAre DEF PeriodAnswered
<1>4. CASE VariablesAnswered(i)
  <2>1. "ranking" \in Kinds \ (DOMAIN AskedByVariables \cup {"variables"})
    BY DEF Kinds, AskedByVariables
  <2> QED
    BY <1>1, <1>2, <1>4, <2>1, VariablesAsks, AnswerQueues, KindsAre DEF VariablesAnswered
<1>5. CASE CommissionAnswered(i)
  <2>1. "ranking" \in Kinds \ (DOMAIN AskedByCommission(plan') \cup {"commission"})
    BY DEF Kinds, AskedByCommission
  <2> QED
    BY <1>1, <1>2, <1>5, <2>1, CommissionAsks, AnswerQueues, KindsAre DEF CommissionAnswered
<1>6. CASE IndicatorsAnswered(i) \/ DealsAnswered(i) \/ IncentivesAnswered(i) \/ ProfilesAnswered(i)
  <2>1. \A k \in Kinds \ {"ranking"} : "ranking" \in Kinds \ {k}
    BY DEF Kinds
  <2>2. {"indicators", "deals", "incentives", "profiles"} \subseteq Kinds \ {"ranking"}
    BY DEF Kinds
  <2> QED
    BY <1>1, <1>2, <1>6, <2>1, <2>2, AnswerTaken DEF IndicatorsAnswered, DealsAnswered,
       IncentivesAnswered, ProfilesAnswered
<1>7. CASE GoalsAnswered(i)
  <2>1. "ranking" \in Kinds \ {"goals", "profiles"}
    BY DEF Kinds
  <2> QED
    BY <1>1, <1>2, <1>7, <2>1, GoalsQueues
<1> QED
  BY <1>3, <1>4, <1>5, <1>6, <1>7

LEMMA NextRanking == TypeInv /\ RankingComes /\ [Next]_vars => RankingComes'
<1> SUFFICES ASSUME TypeInv, RankingComes, [Next]_vars PROVE RankingComes'
  OBVIOUS
<1>1. ASSUME NEW r \in Routes, Route(r[1], r[2]) PROVE RankingComes'
  BY <1>1, RouteQueues DEF RankingComes
<1>2. ASSUME list # None, NEW i \in DOMAIN list.rows, selectUser(i) PROVE RankingComes'
  <2>1. pending'["ranking"] = pending["ranking"]
    BY <1>2, SelectQueues DEF Kinds
  <2> QED
    BY <1>2, <2>1, SelectQueues, RankingKept DEF selectUser, InOrderSoFar
<1>3. ASSUME NEW s \in Sorts, Deselect(s), userSort' = s PROVE RankingComes'
  BY <1>3, DeselectQueues DEF RankingComes
<1>4. CASE \E i : \/ PeriodAnswered(i) \/ VariablesAnswered(i) \/ IndicatorsAnswered(i)
                  \/ CommissionAnswered(i) \/ DealsAnswered(i) \/ IncentivesAnswered(i)
                  \/ GoalsAnswered(i) \/ ProfilesAnswered(i)
  BY <1>4, OtherAnswers, RankingKept DEF route, history, InOrderSoFar
<1>5. CASE MeAnswered \/ UNCHANGED vars
  BY <1>5, RankingKept DEF MeAnswered, vars, route, history, InOrderSoFar
<1>6. CASE \E k \in Kinds : Fails(k)
  BY <1>6 DEF Fails, RankingComes, InOrderSoFar
<1>7. CASE clearUser
  <2>1. userSort \in Sorts /\ Deselect(userSort) /\ userSort' = userSort
    BY <1>7 DEF clearUser, TypeInv, TypeOK
  <2> QED
    BY <1>3, <2>1
<1>8. CASE \E s \in Sorts : selectSort(s)
  BY <1>3, <1>8 DEF selectSort
<1> QED
  BY <1>1, <1>2, <1>4, <1>5, <1>6, <1>7, <1>8, RankingAnswers, NextCases

LEMMA RankingArrived == RankingComes => RankingOfRoute
<1> SUFFICES ASSUME RankingComes, InOrder PROVE RankedAsAsked
  BY DEF RankingOfRoute
<1>1. pending["ranking"] = <<>>
  BY KindsAre DEF InOrder, Quiet
<1> QED
  BY <1>1 DEF RankingComes, InOrderSoFar, InOrder

----------------------------------------------------------------------------
(* The charts.                                                             *)

\* The period comes first, then its variables, then their indicators: each of
\* the route, unless one before it is still to come and will ask again.
ChartsCome ==
  /\ userId \in charted
  /\ InOrderSoFar =>
      /\ Coming("period", period) = planId
      /\ pending["period"] = <<>> =>
           /\ Coming("variables", variables) = planId
           /\ pending["variables"] = <<>> =>
                /\ pending["indicators"] = <<>> => lineCharts.variables = planId
                /\ Coming("indicators", lineCharts.indicators) \in {planId} \X {planId} \X charted

LEMMA ChartsKept ==
  ASSUME ChartsCome, userId' \in charted', charted \subseteq charted',
         UNCHANGED <<planId, charts>>, InOrderSoFar' => InOrderSoFar,
         \A k \in {"period", "variables", "indicators"} : pending'[k] = pending[k]
  PROVE  ChartsCome'
BY DEF ChartsCome, Coming, charts

LEMMA PeriodCharts ==
  ASSUME TypeInv, ChartsCome, NEW i, PeriodAnswered(i)
  PROVE  ChartsCome'
<1>0. userId' \in charted'
  BY DEF ChartsCome, PeriodAnswered, route, history
<1> SUFFICES ASSUME InOrderSoFar' PROVE ChartsCome'
  BY <1>0 DEF ChartsCome
<1> DEFINE asks == [variables |-> planId]
<1>1. Arrives("period", i) /\ pending' = Sent(Without("period", i), asks) /\ period' = pending["period"][i]
  BY DEF PeriodAnswered
<1>2. AsksOK(asks) /\ DOMAIN asks = {"variables"} /\ asks["variables"] = planId
  BY PeriodAsks
<1> HIDE DEF asks
<1>3. pending'["variables"] # <<>> /\ Last(pending'["variables"]) = planId
  BY <1>1, <1>2, AnswerQueues, KindsAre
<1>4. /\ ~overtaken /\ pending["period"] # <<>>
      /\ \/ pending'["period"] = <<>> /\ pending["period"][i] = Last(pending["period"])
         \/ pending'["period"] # <<>> /\ Last(pending'["period"]) = Last(pending["period"])
  BY <1>1, <1>2, AnswerInOrder, KindsAre DEF InOrderSoFar
<1>5. UNCHANGED <<planId, failed, userId, charted>>
  BY DEF PeriodAnswered, route, history
<1>6. Last(pending["period"]) = planId
  BY <1>4, <1>5 DEF ChartsCome, InOrderSoFar, Coming
<1> QED
  BY <1>1, <1>3, <1>4, <1>5, <1>6 DEF ChartsCome, Coming

LEMMA VariablesCharts ==
  ASSUME TypeInv, ChartsCome, NEW i, VariablesAnswered(i)
  PROVE  ChartsCome'
<1>0. userId' \in charted'
  BY DEF ChartsCome, VariablesAnswered, route, history
<1> SUFFICES ASSUME InOrderSoFar' PROVE ChartsCome'
  BY <1>0 DEF ChartsCome
<1>1. /\ Arrives("variables", i) /\ pending' = Sent(Without("variables", i), AskedByVariables)
      /\ variables' = pending["variables"][i]
  BY DEF VariablesAnswered
<1>2. AsksOK(AskedByVariables) /\ DOMAIN AskedByVariables = {"goals", "indicators"}
  BY VariablesAsks DEF AskedByVariables
<1>3. /\ pending'["indicators"] # <<>> /\ Last(pending'["indicators"]) = <<period, planId, userId>>
      /\ pending'["period"] = pending["period"]
  <2>1. "period" \in Kinds \ (DOMAIN AskedByVariables \cup {"variables"})
    BY <1>2 DEF Kinds
  <2>2. AskedByVariables["indicators"] = <<period, planId, userId>>
    BY DEF AskedByVariables
  <2>3. /\ \A j \in DOMAIN AskedByVariables : pending'[j] # <<>> /\ Last(pending'[j]) = AskedByVariables[j]
        /\ \A j \in Kinds \ (DOMAIN AskedByVariables \cup {"variables"}) : pending'[j] = pending[j]
    BY <1>1, <1>2, AnswerQueues, KindsAre
  <2>4. pending'["indicators"] # <<>> /\ Last(pending'["indicators"]) = AskedByVariables["indicators"]
    BY <1>2, <2>3
  <2> QED
    BY <2>1, <2>2, <2>3, <2>4, Zenon
<1>4. /\ ~overtaken /\ pending["variables"] # <<>>
      /\ \/ pending'["variables"] = <<>> /\ pending["variables"][i] = Last(pending["variables"])
         \/ pending'["variables"] # <<>> /\ Last(pending'["variables"]) = Last(pending["variables"])
  BY <1>1, <1>2, AnswerInOrder, KindsAre DEF InOrderSoFar
<1>5. UNCHANGED <<planId, period, failed, userId, charted>>
  BY DEF VariablesAnswered, route, history
<1>6. /\ Coming("period", period) = planId
      /\ pending["period"] = <<>> => Last(pending["variables"]) = planId
  BY <1>4, <1>5 DEF ChartsCome, InOrderSoFar, Coming
<1> QED
  BY <1>1, <1>3, <1>4, <1>5, <1>6 DEF ChartsCome, Coming

LEMMA IndicatorsCharts ==
  ASSUME TypeInv, ChartsCome, NEW i, IndicatorsAnswered(i)
  PROVE  ChartsCome'
<1>0. userId' \in charted'
  BY DEF ChartsCome, IndicatorsAnswered, route, history
<1> SUFFICES ASSUME InOrderSoFar' PROVE ChartsCome'
  BY <1>0 DEF ChartsCome
<1>1. /\ Arrives("indicators", i) /\ pending' = Without("indicators", i)
      /\ lineCharts' = [variables |-> variables, indicators |-> pending["indicators"][i]]
  BY DEF IndicatorsAnswered
<1>2. pending'["period"] = pending["period"] /\ pending'["variables"] = pending["variables"]
  <2>1. {"period", "variables"} \subseteq Kinds \ {"indicators"}
    BY DEF Kinds
  <2> QED
    BY <1>1, <2>1, AnswerTaken, KindsAre
<1>3. /\ ~overtaken /\ pending["indicators"] # <<>>
      /\ \/ pending'["indicators"] = <<>> /\ pending["indicators"][i] = Last(pending["indicators"])
         \/ pending'["indicators"] # <<>> /\ Last(pending'["indicators"]) = Last(pending["indicators"])
  BY <1>1, AnswerInOrder, KindsAre DEF InOrderSoFar
<1>4. UNCHANGED <<planId, period, variables, failed, userId, charted>>
  BY DEF IndicatorsAnswered, route, history
<1>5. ChartsCome /\ InOrderSoFar
  BY <1>3, <1>4 DEF InOrderSoFar
<1> QED
  BY <1>1, <1>2, <1>3, <1>4, <1>5 DEF ChartsCome, Coming

\* No other answer is of the charts.
LEMMA OtherCharts ==
  ASSUME TypeInv, NEW i,
         \/ CommissionAnswered(i) \/ DealsAnswered(i) \/ IncentivesAnswered(i)
         \/ GoalsAnswered(i) \/ ProfilesAnswered(i) \/ RankingAnswered(i)
  PROVE  /\ \A k \in {"period", "variables", "indicators"} : pending'[k] = pending[k]
         /\ UNCHANGED <<planId, charts, failed>>
         /\ userId \in charted => userId' \in charted'
         /\ charted \subseteq charted'
         /\ overtaken' \/ ~overtaken
<1>1. overtaken' \/ ~overtaken
  BY DEF CommissionAnswered, DealsAnswered, IncentivesAnswered, GoalsAnswered, ProfilesAnswered,
     RankingAnswered, Arrives
<1>2. /\ UNCHANGED <<planId, charts, failed>>
      /\ userId \in charted => userId' \in charted'
      /\ charted \subseteq charted'
  BY DEF CommissionAnswered, DealsAnswered, IncentivesAnswered, GoalsAnswered, ProfilesAnswered,
     RankingAnswered, route, history
<1>3. CASE CommissionAnswered(i)
  <2>1. {"period", "variables", "indicators"} \subseteq
          Kinds \ (DOMAIN AskedByCommission(plan') \cup {"commission"})
    BY DEF Kinds, AskedByCommission
  <2>2. \A j \in Kinds \ (DOMAIN AskedByCommission(plan') \cup {"commission"}) : pending'[j] = pending[j]
    BY <1>3, CommissionAsks, AnswerQueues, KindsAre DEF CommissionAnswered
  <2> QED
    BY <1>1, <1>2, <2>1, <2>2
<1>4. CASE DealsAnswered(i) \/ IncentivesAnswered(i) \/ ProfilesAnswered(i) \/ RankingAnswered(i)
  <2>1. \A k \in {"deals", "incentives", "profiles", "ranking"} :
          k \in Kinds /\ {"period", "variables", "indicators"} \subseteq Kinds \ {k}
    BY DEF Kinds
  <2> QED
    BY <1>1, <1>2, <1>4, <2>1, AnswerTaken DEF DealsAnswered, IncentivesAnswered, ProfilesAnswered,
       RankingAnswered
<1>5. CASE GoalsAnswered(i)
  <2>1. {"period", "variables", "indicators"} \subseteq Kinds \ {"goals", "profiles"}
    BY DEF Kinds
  <2> QED
    BY <1>1, <1>2, <1>5, <2>1, GoalsQueues
<1> QED
  BY <1>3, <1>4, <1>5

LEMMA NextCharts == TypeInv /\ ChartsCome /\ [Next]_vars => ChartsCome'
<1> SUFFICES ASSUME TypeInv, ChartsCome, [Next]_vars PROVE ChartsCome'
  OBVIOUS
<1>1. ASSUME NEW r \in Routes, Route(r[1], r[2]) PROVE ChartsCome'
  BY <1>1, RouteQueues DEF ChartsCome, Coming
<1>2. ASSUME list # None, NEW i \in DOMAIN list.rows, selectUser(i) PROVE ChartsCome'
  <2>1. \A k \in {"period", "variables", "indicators"} : pending'[k] = pending[k]
    BY <1>2, SelectQueues DEF Kinds
  <2> QED
    BY <1>2, <2>1, SelectQueues, ChartsKept DEF selectUser, InOrderSoFar
<1>3. ASSUME NEW s \in Sorts, Deselect(s) PROVE ChartsCome'
  <2>1. \A k \in {"period", "variables", "indicators"} : pending'[k] = pending[k]
    BY <1>3, DeselectQueues DEF Kinds
  <2> QED
    BY <1>3, <2>1, DeselectQueues, ChartsKept DEF Deselect, InOrderSoFar
<1>4. CASE \E i : \/ CommissionAnswered(i) \/ DealsAnswered(i) \/ IncentivesAnswered(i)
                  \/ GoalsAnswered(i) \/ ProfilesAnswered(i) \/ RankingAnswered(i)
  BY <1>4, OtherCharts, ChartsKept DEF ChartsCome, InOrderSoFar
<1>5. CASE MeAnswered \/ UNCHANGED vars
  BY <1>5, ChartsKept DEF ChartsCome, MeAnswered, vars, route, history, InOrderSoFar
<1>6. CASE \E k \in Kinds : Fails(k)
  BY <1>6 DEF Fails, route, history, ChartsCome, InOrderSoFar
<1>7. CASE clearUser
  <2>1. userSort \in Sorts
    BY DEF TypeInv, TypeOK
  <2> QED
    BY <1>3, <1>7, <2>1 DEF clearUser
<1>8. CASE \E s \in Sorts : selectSort(s)
  BY <1>3, <1>8 DEF selectSort
<1> QED
  BY <1>1, <1>2, <1>4, <1>5, <1>6, <1>7, <1>8, PeriodCharts, VariablesCharts, IndicatorsCharts, NextCases

LEMMA ChartsArrived == ChartsCome => ChartsOfRoute
<1> SUFFICES ASSUME ChartsCome, InOrder PROVE ChartsOfRoute
  BY DEF ChartsOfRoute
<1>1. \A k \in {"period", "variables", "indicators"} : pending[k] = <<>>
  BY KindsAre DEF InOrder, Quiet
<1> QED
  BY <1>1 DEF ChartsCome, Coming, InOrderSoFar, InOrder, ChartsOfRoute

----------------------------------------------------------------------------
(* The figures.                                                            *)

\* The commission comes first, with the calendar of the plan; then the figures
\* it asks for, of whoever the page is about by then, unless another commission
\* is still to come and will ask again.
FiguresCome ==
  /\ userId \in viewers
  /\ InOrderSoFar =>
       /\ Coming("commission", commission) = <<planId, asked>>
       /\ pending["commission"] = <<>> =>
            /\ plan = IF commission \in Paid THEN planId ELSE None
            /\ Coming("goals", shown["goals"]) \in {planId} \X viewers
            /\ Coming("incentives", shown["incentives"]) \in {planId} \X viewers
            /\ commission \in Paid /\ {planId} \X viewers \subseteq Selling =>
                 Coming("deals", shown["deals"]) \in {planId} \X {planId} \X viewers

LEMMA FiguresKept ==
  ASSUME FiguresCome, InOrderSoFar' => InOrderSoFar,
         UNCHANGED <<planId, userId, asked, viewers, commission, plan, shown>>,
         \A k \in {"commission", "goals", "incentives", "deals"} : pending'[k] = pending[k]
  PROVE  FiguresCome'
BY DEF FiguresCome, Coming

\* Every move asks for the commission of its user.
LEMMA MoveFigures ==
  ASSUME pending'["commission"] # <<>>, Last(pending'["commission"]) = <<planId', asked'>>,
         asked' = userId', viewers' = {userId'}
  PROVE  FiguresCome'
BY DEF FiguresCome, Coming

LEMMA CommissionFigures ==
  ASSUME TypeInv, FiguresCome, NEW i, CommissionAnswered(i)
  PROVE  FiguresCome'
<1>0. userId' \in viewers'
  BY DEF FiguresCome, CommissionAnswered, route, history
<1> SUFFICES ASSUME InOrderSoFar' PROVE FiguresCome'
  BY <1>0 DEF FiguresCome
<1> DEFINE asks == AskedByCommission(plan')
           r == pending["commission"][i]
<1>1. /\ Arrives("commission", i) /\ pending' = Sent(Without("commission", i), asks)
      /\ commission' = r /\ plan' = IF r \in Paid THEN r[1] ELSE None
      /\ UNCHANGED <<planId, userId, asked, viewers, shown, failed>>
  BY DEF CommissionAnswered, route, history
<1>2. AsksOK(asks) /\ {"goals", "incentives"} \subseteq DOMAIN asks /\ "commission" \notin DOMAIN asks
  BY CommissionAsks DEF AskedByCommission
<1>3. /\ asks["goals"] = <<planId, userId>> /\ asks["incentives"] = <<planId, userId>>
      /\ plan' # None => "deals" \in DOMAIN asks /\ asks["deals"] = <<plan', planId, userId>>
  BY DEF AskedByCommission, Now
<1> HIDE DEF asks
<1>4. \A k \in DOMAIN asks : pending'[k] # <<>> /\ Last(pending'[k]) = asks[k]
  BY <1>1, <1>2, AnswerQueues, KindsAre
<1>5. /\ ~overtaken /\ pending["commission"] # <<>>
      /\ \/ pending'["commission"] = <<>> /\ r = Last(pending["commission"])
         \/ pending'["commission"] # <<>> /\ Last(pending'["commission"]) = Last(pending["commission"])
  BY <1>1, <1>2, AnswerInOrder, KindsAre DEF InOrderSoFar
<1>6. userId \in viewers /\ Last(pending["commission"]) = <<planId, asked>>
  BY <1>1, <1>5 DEF FiguresCome, InOrderSoFar, Coming
<1>8. CASE pending'["commission"] # <<>>
  BY <1>1, <1>5, <1>6, <1>8 DEF FiguresCome, Coming
<1>9. CASE pending'["commission"] = <<>> /\ r = Last(pending["commission"])
  <2>1. commission' = <<planId, asked>> /\ plan' = IF commission' \in Paid THEN planId ELSE None
    BY <1>1, <1>6, <1>9
  <2>2. /\ Coming("goals", shown["goals"])' = <<planId, userId>>
        /\ Coming("incentives", shown["incentives"])' = <<planId, userId>>
    BY <1>2, <1>3, <1>4 DEF Coming
  <2>3. ASSUME commission' \in Paid PROVE Coming("deals", shown["deals"])' = <<planId, planId, userId>>
    <3>1. planId \in Plans /\ plan' = planId /\ plan' # None
      BY <2>1, <2>3, NowType, NoUserAssumption
    <3> QED
      BY <1>3, <1>4, <3>1 DEF Coming
  <2>4. /\ <<planId, userId>> \in {planId'} \X viewers'
        /\ <<planId, planId, userId>> \in {planId'} \X {planId'} \X viewers'
    BY <1>1, <1>6
  <2>5. Coming("commission", commission)' = <<planId', asked'>>
    BY <1>1, <1>9, <2>1 DEF Coming
  <2> QED
    BY <1>0, <1>1, <1>9, <2>1, <2>2, <2>3, <2>4, <2>5 DEF FiguresCome
<1> QED
  BY <1>5, <1>8, <1>9

\* Variables ask for the goals of whoever is shown by then.
LEMMA VariablesFigures ==
  ASSUME TypeInv, FiguresCome, NEW i, VariablesAnswered(i)
  PROVE  FiguresCome'
<1>0. userId' \in viewers'
  BY DEF FiguresCome, VariablesAnswered, route, history
<1> SUFFICES ASSUME InOrderSoFar' PROVE FiguresCome'
  BY <1>0 DEF FiguresCome
<1>1. /\ Arrives("variables", i) /\ pending' = Sent(Without("variables", i), AskedByVariables)
      /\ UNCHANGED <<planId, userId, asked, viewers, commission, plan, shown, failed>>
  BY DEF VariablesAnswered, route, history
<1>2. AsksOK(AskedByVariables) /\ DOMAIN AskedByVariables = {"goals", "indicators"}
  BY VariablesAsks DEF AskedByVariables
<1>3. AskedByVariables["goals"] = <<planId, userId>>
  BY DEF AskedByVariables, Now
<1>4. /\ \A j \in DOMAIN AskedByVariables : pending'[j] # <<>> /\ Last(pending'[j]) = AskedByVariables[j]
      /\ \A j \in Kinds \ (DOMAIN AskedByVariables \cup {"variables"}) : pending'[j] = pending[j]
  BY <1>1, <1>2, AnswerQueues, KindsAre
<1>5. pending'["goals"] # <<>> /\ Last(pending'["goals"]) = <<planId, userId>>
  <2>1. pending'["goals"] # <<>> /\ Last(pending'["goals"]) = AskedByVariables["goals"]
    BY <1>2, <1>4
  <2> QED
    BY <1>3, <2>1, Zenon
<1>6. \A k \in {"commission", "incentives", "deals"} : pending'[k] = pending[k]
  <2>1. {"commission", "incentives", "deals"} \subseteq Kinds \ (DOMAIN AskedByVariables \cup {"variables"})
    BY <1>2 DEF Kinds
  <2> QED
    BY <1>4, <2>1
<1>7. InOrderSoFar
  BY <1>1 DEF InOrderSoFar, Arrives
<1> QED
  BY <1>1, <1>5, <1>6, <1>7 DEF FiguresCome, Coming

\* Goals, incentives and deals arrive as what was coming.
LEMMA ShownFigures ==
  ASSUME TypeInv, FiguresCome, NEW k \in {"goals", "incentives"}, NEW i, Arrives(k, i),
         \/ pending' = Without(k, i)
         \/ \E asks : AsksOK(asks) /\ k \notin DOMAIN asks /\ pending' = Sent(Without(k, i), asks),
         \A j \in {"commission", "goals", "incentives", "deals"} \ {k} : pending'[j] = pending[j],
         shown' = [shown EXCEPT ![k] = pending[k][i]],
         UNCHANGED <<planId, userId, asked, viewers, commission, plan, failed>>
  PROVE  FiguresCome'
<1> SUFFICES ASSUME InOrderSoFar' PROVE FiguresCome'
  BY DEF FiguresCome
<1>1. k \in Kinds
  BY KindsAre
<1>2. /\ ~overtaken /\ pending[k] # <<>>
      /\ \/ pending'[k] = <<>> /\ pending[k][i] = Last(pending[k])
         \/ pending'[k] # <<>> /\ Last(pending'[k]) = Last(pending[k])
  BY <1>1, AnswerInOrder DEF InOrderSoFar
<1>3. InOrderSoFar
  BY <1>2 DEF InOrderSoFar
<1>4. /\ shown'[k] = pending[k][i]
      /\ \A j \in {"goals", "incentives", "deals"} \ {k} : shown'[j] = shown[j]
  BY DEF TypeInv
<1>5. (IF pending'[k] = <<>> THEN shown'[k] ELSE Last(pending'[k])) =
      (IF pending[k] = <<>> THEN shown[k] ELSE Last(pending[k]))
  BY <1>2, <1>4
<1>6. /\ Coming("goals", shown["goals"])' = Coming("goals", shown["goals"])
      /\ Coming("incentives", shown["incentives"])' = Coming("incentives", shown["incentives"])
      /\ Coming("deals", shown["deals"])' = Coming("deals", shown["deals"])
      /\ Coming("commission", commission)' = Coming("commission", commission)
  BY <1>4, <1>5 DEF Coming
<1>7. pending'["commission"] = pending["commission"]
  OBVIOUS
<1> QED
  BY <1>3, <1>6, <1>7 DEF FiguresCome

LEMMA GoalsFigures ==
  ASSUME TypeInv, FiguresCome, NEW i, GoalsAnswered(i)
  PROVE  FiguresCome'
<1>1. /\ Arrives("goals", i) /\ shown' = [shown EXCEPT !["goals"] = pending["goals"][i]]
      /\ UNCHANGED <<planId, userId, asked, viewers, commission, plan, failed>>
  BY DEF GoalsAnswered, route, history
<1>2. \A j \in {"commission", "incentives", "deals"} : pending'[j] = pending[j]
  BY GoalsQueues DEF Kinds
<1>3. \/ pending' = Without("goals", i)
      \/ \E asks : AsksOK(asks) /\ "goals" \notin DOMAIN asks /\ pending' = Sent(Without("goals", i), asks)
  <2>1. AsksOK([profiles |-> getProfileIds]) /\ "goals" \notin DOMAIN [profiles |-> getProfileIds]
    BY DEF AsksOK, Asks, Kinds, getProfileIds
  <2> QED
    BY <2>1 DEF GoalsAnswered
<1> QED
  BY <1>1, <1>2, <1>3, ShownFigures

LEMMA IncentivesFigures ==
  ASSUME TypeInv, FiguresCome, NEW i, IncentivesAnswered(i)
  PROVE  FiguresCome'
<1>1. /\ Arrives("incentives", i) /\ shown' = [shown EXCEPT !["incentives"] = pending["incentives"][i]]
      /\ pending' = Without("incentives", i)
      /\ UNCHANGED <<planId, userId, asked, viewers, commission, plan, failed>>
  BY DEF IncentivesAnswered, route, history
<1>2. {"commission", "goals", "deals"} \subseteq Kinds \ {"incentives"}
  BY DEF Kinds
<1>3. \A j \in {"commission", "goals", "deals"} : pending'[j] = pending[j]
  BY <1>1, <1>2, AnswerTaken, KindsAre
<1> QED
  BY <1>1, <1>3, ShownFigures

\* Deals are shown when one of them is above zero.
LEMMA DealsFigures ==
  ASSUME TypeInv, FiguresCome, NEW i, DealsAnswered(i)
  PROVE  FiguresCome'
<1>0. userId' \in viewers'
  BY DEF FiguresCome, DealsAnswered, route, history
<1> SUFFICES ASSUME InOrderSoFar' PROVE FiguresCome'
  BY <1>0 DEF FiguresCome
<1> DEFINE r == pending["deals"][i]
<1>1. /\ Arrives("deals", i) /\ pending' = Without("deals", i)
      /\ shown' = IF <<r[2], r[3]>> \in Selling THEN [shown EXCEPT !["deals"] = r] ELSE shown
      /\ UNCHANGED <<planId, userId, asked, viewers, commission, plan, failed>>
  BY DEF DealsAnswered, route, history
<1>2. {"commission", "goals", "incentives"} \subseteq Kinds \ {"deals"}
  BY DEF Kinds
<1>3. \A j \in {"commission", "goals", "incentives"} : pending'[j] = pending[j]
  BY <1>1, <1>2, AnswerTaken, KindsAre
<1>4. /\ ~overtaken /\ pending["deals"] # <<>>
      /\ \/ pending'["deals"] = <<>> /\ r = Last(pending["deals"])
         \/ pending'["deals"] # <<>> /\ Last(pending'["deals"]) = Last(pending["deals"])
  BY <1>1, AnswerInOrder, KindsAre DEF InOrderSoFar
<1>5. InOrderSoFar
  BY <1>1, <1>4 DEF InOrderSoFar
<1>6. shown'["goals"] = shown["goals"] /\ shown'["incentives"] = shown["incentives"]
  BY <1>1 DEF TypeInv
<1>7. /\ Coming("goals", shown["goals"])' = Coming("goals", shown["goals"])
      /\ Coming("incentives", shown["incentives"])' = Coming("incentives", shown["incentives"])
      /\ Coming("commission", commission)' = Coming("commission", commission)
      /\ pending'["commission"] = pending["commission"]
  BY <1>1, <1>3, <1>6 DEF Coming
<1>8. ASSUME pending["commission"] = <<>>, commission \in Paid, {planId} \X viewers \subseteq Selling
      PROVE  Coming("deals", shown["deals"])' \in {planId} \X {planId} \X viewers
  <2>1. Last(pending["deals"]) \in {planId} \X {planId} \X viewers
    BY <1>4, <1>5, <1>8 DEF FiguresCome, Coming
  <2>2. CASE pending'["deals"] # <<>>
    BY <1>4, <2>1, <2>2 DEF Coming
  <2>3. CASE pending'["deals"] = <<>> /\ r = Last(pending["deals"])
    <3>1. PICK u \in viewers : r = <<planId, planId, u>>
      BY <2>1, <2>3
    <3>2. <<r[2], r[3]>> \in Selling
      BY <1>8, <3>1
    <3>3. shown'["deals"] = r
      BY <1>1, <3>2 DEF TypeInv
    <3> QED
      BY <2>3, <3>1, <3>3 DEF Coming
  <2> QED
    BY <1>4, <2>2, <2>3
<1> QED
  BY <1>1, <1>5, <1>7, <1>8 DEF FiguresCome

\* A ranking of one row may put its user in the place of another.
LEMMA RankingFigures ==
  ASSUME TypeInv, FiguresCome, NEW i, RankingAnswered(i)
  PROVE  FiguresCome'
<1>0. userId' \in viewers'
  BY DEF FiguresCome, RankingAnswered
<1> SUFFICES ASSUME InOrderSoFar' PROVE FiguresCome'
  BY <1>0 DEF FiguresCome
<1>1. /\ Arrives("ranking", i) /\ pending' = Without("ranking", i)
      /\ viewers \subseteq viewers'
      /\ UNCHANGED <<planId, asked, commission, plan, shown, failed>>
  BY DEF RankingAnswered
<1>2. {"commission", "goals", "incentives", "deals"} \subseteq Kinds \ {"ranking"}
  BY DEF Kinds
<1>3. \A k \in {"commission", "goals", "incentives", "deals"} : pending'[k] = pending[k]
  BY <1>1, <1>2, AnswerTaken, KindsAre
<1>4. InOrderSoFar
  BY <1>1 DEF InOrderSoFar, Arrives
<1>5. /\ {planId} \X viewers \subseteq {planId} \X viewers'
      /\ {planId} \X {planId} \X viewers \subseteq {planId} \X {planId} \X viewers'
  BY <1>1
<1>6. {planId'} \X viewers' \subseteq Selling => {planId} \X viewers \subseteq Selling
  BY <1>1, <1>5
<1> QED
  BY <1>0, <1>1, <1>3, <1>4, <1>5, <1>6 DEF FiguresCome, Coming

LEMMA OtherFigures ==
  ASSUME TypeInv, FiguresCome, NEW i,
         PeriodAnswered(i) \/ IndicatorsAnswered(i) \/ ProfilesAnswered(i)
  PROVE  FiguresCome'
<1>1. UNCHANGED <<planId, userId, asked, viewers, commission, plan, shown, failed>>
  BY DEF PeriodAnswered, IndicatorsAnswered, ProfilesAnswered, route, history
<1>2. InOrderSoFar' => InOrderSoFar
  BY <1>1 DEF PeriodAnswered, IndicatorsAnswered, ProfilesAnswered, Arrives, InOrderSoFar
<1>3. CASE PeriodAnswered(i)
  <2>1. {"commission", "goals", "incentives", "deals"} \subseteq
          Kinds \ (DOMAIN [variables |-> planId] \cup {"period"})
    BY DEF Kinds
  <2>2. \A j \in Kinds \ (DOMAIN [variables |-> planId] \cup {"period"}) : pending'[j] = pending[j]
    BY <1>3, PeriodAsks, AnswerQueues, KindsAre DEF PeriodAnswered
  <2> QED
    BY <1>1, <1>2, <2>1, <2>2, FiguresKept
<1>4. CASE IndicatorsAnswered(i) \/ ProfilesAnswered(i)
  <2>1. \A k \in {"indicators", "profiles"} :
          k \in Kinds /\ {"commission", "goals", "incentives", "deals"} \subseteq Kinds \ {k}
    BY DEF Kinds
  <2>2. \A k \in {"commission", "goals", "incentives", "deals"} : pending'[k] = pending[k]
    BY <1>4, <2>1, AnswerTaken DEF IndicatorsAnswered, ProfilesAnswered
  <2> QED
    BY <1>1, <1>2, <2>2, FiguresKept
<1> QED
  BY <1>3, <1>4

LEMMA NextFigures == TypeInv /\ FiguresCome /\ [Next]_vars => FiguresCome'
<1> SUFFICES ASSUME TypeInv, FiguresCome, [Next]_vars PROVE FiguresCome'
  OBVIOUS
<1>1. CASE \E r \in Routes : Route(r[1], r[2])
  BY <1>1, RouteQueues, MoveFigures
<1>2. CASE list # None /\ \E i \in DOMAIN list.rows : selectUser(i)
  BY <1>2, SelectQueues, MoveFigures
<1>3. ASSUME NEW s \in Sorts, Deselect(s) PROVE FiguresCome'
  BY <1>3, DeselectQueues, MoveFigures
<1>4. CASE clearUser
  <2>1. userSort \in Sorts
    BY DEF TypeInv, TypeOK
  <2> QED
    BY <1>3, <1>4, <2>1 DEF clearUser
<1>5. CASE \E s \in Sorts : selectSort(s)
  BY <1>3, <1>5 DEF selectSort
<1>6. CASE MeAnswered \/ UNCHANGED vars
  BY <1>6, FiguresKept DEF MeAnswered, vars, route, history, InOrderSoFar
<1>7. CASE \E k \in Kinds : Fails(k)
  BY <1>7 DEF Fails, route, history, FiguresCome, InOrderSoFar
<1> QED
  BY <1>1, <1>2, <1>4, <1>5, <1>6, <1>7, CommissionFigures, VariablesFigures, GoalsFigures,
     IncentivesFigures, DealsFigures, RankingFigures, OtherFigures, NextCases

LEMMA FiguresArrived == FiguresCome => FiguresOfRoute
<1> SUFFICES ASSUME FiguresCome, InOrder PROVE FiguresOfRoute
  BY DEF FiguresOfRoute
<1>1. \A k \in {"commission", "goals", "incentives", "deals"} : pending[k] = <<>>
  BY KindsAre DEF InOrder, Quiet
<1>2. InOrderSoFar
  BY DEF InOrder, InOrderSoFar
<1> QED
  BY <1>1, <1>2 DEF FiguresCome, Coming, FiguresOfRoute

\* Once every answer is in, in order, the whole page is of the plan and the order
\* of the last move, and its commission of the user of that move; the other
\* figures are each of a user the page was about since it, the charts of one it
\* was about since the route, and the ranking is the one last asked for, through
\* all that Route, selectUser, clearUser and selectSort sent while answers were
\* under way.
THEOREM PageSettlesOnTheLastMove == Spec => []Settled
<1>1. Init => RankingComes /\ ChartsCome /\ FiguresCome
  <2> SUFFICES ASSUME Init PROVE RankingComes /\ ChartsCome /\ FiguresCome
    OBVIOUS
  <2> QED
    BY InitQueues DEF RankingComes, ChartsCome, FiguresCome, Coming
<1>2. RankingComes /\ ChartsCome /\ FiguresCome => Settled
  BY RankingArrived, ChartsArrived, FiguresArrived DEF Settled
<1>3. /\ TypeInv /\ RankingComes /\ [Next]_vars => RankingComes'
      /\ TypeInv /\ ChartsCome /\ [Next]_vars => ChartsCome'
      /\ TypeInv /\ FiguresCome /\ [Next]_vars => FiguresCome'
  BY NextRanking, NextCharts, NextFigures
<1> QED
  BY <1>1, <1>2, <1>3, TypeInvariant, PTL DEF Spec
=============================================================================
