-------------------------- MODULE CommissionTotals --------------------------
(***************************************************************************)
(* The arithmetic of the employee ranking.  Commissions are in cents; the  *)
(* running total is cut to whole units of money and to a signed word after *)
(* every row, which is what  (accumulator + money) | 0  does.              *)
(***************************************************************************)
EXTENDS Integers, Sequences, FiniteSets

CONSTANTS
  Cents,       \* cents in a unit of money
  WordLimit,   \* where a signed word wraps, 2^31 for the operands of | in the code
  NoMoney      \* money that is null

ASSUME CentsAssumption == Cents \in Nat \ {0}
ASSUME WordLimitAssumption == WordLimit \in Nat \ {0}

\* Units of an amount, the fraction dropped towards zero.
Truncate(cents) == IF cents >= 0 THEN cents \div Cents ELSE -((-cents) \div Cents)

Word(n) == ((n + WordLimit) % (2 * WordLimit)) - WordLimit

Amount(row) == IF row.money = NoMoney THEN 0 ELSE row.money

\* Faulty: rounded up.
StepRounded(acc, row) == Word(Truncate(acc * Cents + Amount(row) + Cents - 1))

Step(acc, row) == Word(Truncate(acc * Cents + Amount(row)))

\* The total after each row.
Totals(rows) ==
  LET total[i \in 0 .. Len(rows)] == IF i = 0 THEN 0 ELSE Step(total[i - 1], rows[i])
  IN  total

\* sumUserCommissionDatasetsMoney, in units.
SumMoney(rows) == Totals(rows)[Len(rows)]

\* The average is total units over n rows, and a row is above it when
\* money * n > total.
countUsersAboveAverage(rows, total) ==
  Cardinality({i \in DOMAIN rows :
    rows[i].money # NoMoney /\ rows[i].money * Len(rows) > total * Cents})

countUsersBelowAverage(rows, total) ==
  Cardinality({i \in DOMAIN rows :
    rows[i].money # NoMoney /\ rows[i].money * Len(rows) < total * Cents})

\* The sum nobody rounds, in cents.
ExactTotals(rows) ==
  LET sum[i \in 0 .. Len(rows)] == IF i = 0 THEN 0 ELSE sum[i - 1] + Amount(rows[i])
  IN  sum

ExactCents(rows) == ExactTotals(rows)[Len(rows)]
=============================================================================
