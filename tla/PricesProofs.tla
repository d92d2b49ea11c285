---------------------------- MODULE PricesProofs ----------------------------
(***************************************************************************)
(* Facts about the arithmetic of Prices, for every price, day and share:   *)
(* division and rounding, the price of a stay as a sum over its nights, and*)
(* the shares of a refund.  No induction theorem can be used for the sum   *)
(* (see the README); it is reached through the least number of nights for  *)
(* which it would fail.                                                    *)
(***************************************************************************)
EXTENDS Prices, FiniteSetTheorems, WellFoundedInduction, TLAPS

\* Every set of natural numbers that is not empty has a least one.
LEMMA LeastNatural ==
    ASSUME NEW T \in SUBSET Nat, T # {}
    PROVE  \E n \in T : \A m \in T : n <= m
<1> DEFINE R == StrictSubsetOrdering(Nat)
           Q == {0 .. n : n \in T}
<1>1. IsWellFoundedOn(R, FiniteSubsetsOf(Nat))
  BY FS_StrictSubsetOrderingWellFounded
<1>2. Q \subseteq FiniteSubsetsOf(Nat)
  <2>1. \A n \in T : IsFiniteSet(0 .. n) /\ 0 .. n \subseteq Nat
    BY FS_Interval
  <2> QED BY <2>1 DEF FiniteSubsetsOf
<1>3. PICK x \in Q : \A y \in Q : <<y, x>> \notin R
  <2>1. Q # {} OBVIOUS
  <2> HIDE DEF R, Q
  <2> QED BY <1>1, <1>2, <2>1, WFMin
<1>4. PICK n \in T : x = 0 .. n
  OBVIOUS
<1>5. ASSUME NEW m \in T, m < n PROVE FALSE
  <2>1. 0 .. m \in Q /\ 0 .. m \subseteq 0 .. n /\ n \notin 0 .. m /\ n \in 0 .. n
    BY <1>5
  <2>2. 0 .. m \subseteq Nat /\ 0 .. n \subseteq Nat OBVIOUS
  <2> QED BY <1>3, <1>4, <2>1, <2>2 DEF StrictSubsetOrdering
<1> QED
  BY <1>5

\* What holds at 0 and passes from each number to the next holds of every number
\* up to n; the property is given as a set.
LEMMA UpTo ==
    ASSUME NEW n \in Nat, NEW S, 0 \in S,
           \A k \in 0 .. n - 1 : k \in S => k + 1 \in S
    PROVE  0 .. n \subseteq S
<1> DEFINE T == (0 .. n) \ S
<1> SUFFICES ASSUME T # {} PROVE FALSE
  OBVIOUS
<1>1. PICK k \in T : \A m \in T : k <= m
  <2>1. T \in SUBSET Nat OBVIOUS
  <2> HIDE DEF T
  <2> QED BY <2>1, LeastNatural
<1>2. k \in 1 .. n /\ k \notin S
  OBVIOUS
<1>3. k - 1 \in S
  BY <1>1, <1>2
<1> QED
  BY <1>2, <1>3

-----------------------------------------------------------------------------
Sums(price, from, to) ==
    {s \in [from .. to -> Nat] :
        \A d \in from .. to : s[d] = IF d = to THEN 0 ELSE price[d] + s[d + 1]}

\* The recursion of a subtotal has a solution, which is built from the last night.
LEMMA SumExists ==
    ASSUME NEW from \in Int, NEW to \in Int, from <= to,
           NEW price, \A d \in from .. to - 1 : price[d] \in Nat
    PROVE  Sums(price, from, to) # {}
<1> DEFINE S == {k \in Nat : Sums(price, to - k, to) # {}}
<1>1. 0 \in S
  <2>1. [d \in to .. to |-> 0] \in Sums(price, to, to)
    BY DEF Sums
  <2> QED BY <2>1
<1>2. ASSUME NEW k \in 0 .. to - from - 1, k \in S PROVE k + 1 \in S
  <2>1. PICK s \in [to - k .. to -> Nat] :
              \A d \in to - k .. to : s[d] = IF d = to THEN 0 ELSE price[d] + s[d + 1]
    BY <1>2 DEF Sums
  <2> DEFINE first == to - (k + 1)
             t == [d \in first .. to |-> IF d = first THEN price[d] + s[d + 1] ELSE s[d]]
  <2>2. first \in from .. to - 1 /\ first + 1 \in to - k .. to
    OBVIOUS
  <2>3. t \in [first .. to -> Nat]
    BY <2>1, <2>2
  <2>4. ASSUME NEW d \in first .. to
        PROVE  t[d] = IF d = to THEN 0 ELSE price[d] + t[d + 1]
    BY <2>1, <2>2
  <2>5. t \in Sums(price, first, to)
    BY <2>3, <2>4 DEF Sums
  <2> QED BY <2>5
<1>3. 0 .. to - from \subseteq S
  <2>1. to - from \in Nat OBVIOUS
  <2> HIDE DEF S
  <2> QED BY <1>1, <1>2, <2>1, UpTo
<1>4. to - from \in S
  BY <1>3
<1>5. to - (to - from) = from OBVIOUS
<1> QED
  BY <1>4, <1>5

\* The subtotal of a stay is a natural number, and is what the recursion says.
LEMMA SubtotalType ==
    ASSUME NEW from \in Int, NEW to \in Int, from <= to,
           NEW price, \A d \in from .. to - 1 : price[d] \in Nat
    PROVE  NightlySubtotal(price, from, to) \in Nat
<1> DEFINE sum == CHOOSE s : s = [d \in from .. to |-> IF d = to THEN 0 ELSE price[d] + s[d + 1]]
<1>1. PICK s \in Sums(price, from, to) : TRUE
  BY SumExists
<1>2. s = [d \in from .. to |-> IF d = to THEN 0 ELSE price[d] + s[d + 1]]
  BY <1>1 DEF Sums
<1>3. sum = [d \in from .. to |-> IF d = to THEN 0 ELSE price[d] + sum[d + 1]]
  BY <1>2
<1>4. NightlySubtotal(price, from, to) = sum[from]
  BY DEF NightlySubtotal
<1> HIDE DEF sum
<1> DEFINE S == {k \in Nat : sum[to - k] \in Nat}
<1>5. 0 \in S
  BY <1>3
<1>6. ASSUME NEW k \in 0 .. to - from - 1, k \in S PROVE k + 1 \in S
  <2>1. to - (k + 1) \in from .. to - 1 /\ to - (k + 1) + 1 = to - k
    OBVIOUS
  <2> QED BY <1>3, <1>6, <2>1
<1>7. 0 .. to - from \subseteq S
  <2>1. to - from \in Nat OBVIOUS
  <2> HIDE DEF S
  <2> QED BY <1>5, <1>6, <2>1, UpTo
<1>8. to - from \in S /\ to - (to - from) = from
  BY <1>7
<1> QED
  BY <1>4, <1>8

-----------------------------------------------------------------------------
\* A quotient of whole numbers with its remainder.
LEMMA Division ==
    ASSUME NEW a \in Int, NEW b \in Nat \ {0}
    PROVE  /\ a \div b \in Int
           /\ b * (a \div b) <= a /\ a < b * (a \div b) + b
<1>1. a \div b \in Int
  OBVIOUS
<1>2. b * (a \div b) <= a
  OBVIOUS
<1>3. a < b * (a \div b) + b
  OBVIOUS
<1> QED BY <1>1, <1>2, <1>3

\* The quotient is the only number with that remainder.
LEMMA QuotientIs ==
    ASSUME NEW a \in Int, NEW b \in Nat \ {0}, NEW q \in Int,
           b * q <= a, a < b * q + b
    PROVE  a \div b = q
<1> DEFINE p == a \div b
<1>1. p \in Int /\ b * p <= a /\ a < b * p + b
  BY Division
<1> HIDE DEF p
<1>2. CASE p >= q + 1
  <2>1. b * p >= b * (q + 1)
    BY <1>1, <1>2
  <2> QED BY <1>1, <2>1
<1>3. CASE q >= p + 1
  <2>1. b * q >= b * (p + 1)
    BY <1>1, <1>3
  <2> QED BY <1>1, <2>1
<1> QED BY <1>1, <1>2, <1>3 DEF p

\* Rounding is off by half the divisor at most.
LEMMA Rounded ==
    ASSUME NEW a \in Int, NEW b \in Nat \ {0}
    PROVE  /\ RoundDiv(a, b) \in Int
           /\ 2 * (b * RoundDiv(a, b)) \in 2 * a - b + 1 .. 2 * a + b
<1> DEFINE q == RoundDiv(a, b)
<1>1. q \in Int /\ (2 * b) * q <= 2 * a + b /\ 2 * a + b < (2 * b) * q + 2 * b
  <2> DEFINE x == 2 * a + b
             y == 2 * b
  <2>1. x \in Int /\ y \in Nat \ {0} /\ q = x \div y
    BY DEF RoundDiv
  <2> HIDE DEF x, y, q
  <2>2. q \in Int /\ y * q <= x /\ x < y * q + y
    BY <2>1, Division
  <2> QED BY <2>2 DEF x, y
<1> HIDE DEF q
<1>2. (2 * b) * q = 2 * (b * q) /\ b * q \in Int
  BY <1>1
<1> QED BY <1>1, <1>2 DEF q

\* What divides evenly is not rounded.
LEMMA RoundedWhole ==
    ASSUME NEW s \in Int, NEW b \in Nat \ {0}
    PROVE  RoundDiv(s * b, b) = s
<1>1. s * b \in Int /\ (2 * b) * s = 2 * (s * b)
  OBVIOUS
<1>2. (2 * (s * b) + b) \div (2 * b) = s
  <2>1. /\ 2 * (s * b) + b \in Int /\ 2 * b \in Nat \ {0}
        /\ (2 * b) * s <= 2 * (s * b) + b
        /\ 2 * (s * b) + b < (2 * b) * s + 2 * b
    BY <1>1
  <2> DEFINE x == 2 * (s * b) + b
             y == 2 * b
  <2>2. x \in Int /\ y \in Nat \ {0} /\ y * s <= x /\ x < y * s + y
    BY <2>1
  <2> HIDE DEF x, y
  <2>3. x \div y = s
    BY <2>2, QuotientIs
  <2> QED BY <2>3 DEF x, y
<1> QED BY <1>2 DEF RoundDiv

-----------------------------------------------------------------------------
\* Rounding to whole cents is monotone.
LEMMA RoundedMonotone ==
    ASSUME NEW a \in Int, NEW c \in Int, a <= c
    PROVE  RoundDiv(a, 100) <= RoundDiv(c, 100)
BY DEF RoundDiv

\* Later means fewer whole days left.
LEMMA DaysLeft ==
    ASSUME NEW now \in Int, NEW checkIn \in Int
    PROVE  /\ DaysUntilCheckIn(now, checkIn) \in Int
           /\ DaysUntilCheckIn(now + 1, checkIn) \in Int
           /\ DaysUntilCheckIn(now + 1, checkIn) <= DaysUntilCheckIn(now, checkIn)
           /\ DaysUntilCheckIn(now, checkIn) >= 1 <=> 24 * checkIn - now >= 24
           /\ DaysUntilCheckIn(now, checkIn) >= 5 <=> 24 * checkIn - now >= 120
BY DEF DaysUntilCheckIn

\* A policy gives all, half or nothing, and never more for fewer days.
LEMMA Percentage ==
    ASSUME NEW policy \in Policies, NEW days \in Int, NEW fewer \in Int, fewer <= days
    PROVE  /\ RefundPercentage(policy, days) \in {0, 50, 100}
           /\ RefundPercentage(policy, fewer) <= RefundPercentage(policy, days)
           /\ RefundPercentage(policy, days) = 100 <=>
                 (policy = "FLEXIBLE" /\ days >= 1) \/ (policy = "MODERATE" /\ days >= 5)
BY DEF Policies, RefundPercentage

\* What each percentage gives back, whole and after the fee.
LEMMA Shares ==
    ASSUME NEW total \in Nat
    PROVE  /\ RoundDiv(total * 100, 100) = total
           /\ RoundDiv(total * 50, 100) = (total + 1) \div 2
           /\ RoundDiv(total * 0, 100) = 0
           /\ RoundDiv(total * 100 - total * 3, 100) \in 0 .. total
           /\ RoundDiv(total * 50 - total * 3, 100) \in 0 .. (total + 1) \div 2
BY DEF RoundDiv

\* A refund is at most the price, is all of it by the policy's terms and no other
\* (half of a cent is rounded to a cent), is not less for an hour earlier, and
\* the fee takes it no lower than zero.
LEMMA RefundFair ==
    ASSUME NEW total \in Nat, NEW now \in Int, NEW checkIn \in Int, NEW p \in Policies
    PROVE  LET left == 24 * checkIn - now
               back == RefundAmount(total, now, checkIn, p)
           IN  /\ back >= RefundAmount(total, now + 1, checkIn, p)
               /\ NetRefund(total, now, checkIn, p) \in 0 .. back
               /\ back <= total
               /\ total > 1 => (back = total <=> \/ p = "FLEXIBLE" /\ left >= 24
                                                 \/ p = "MODERATE" /\ left >= 120)
<1> DEFINE d == DaysUntilCheckIn(now, checkIn)
           later == DaysUntilCheckIn(now + 1, checkIn)
           pct == RefundPercentage(p, d)
           pct1 == RefundPercentage(p, later)
           back == RefundAmount(total, now, checkIn, p)
           net == NetRefund(total, now, checkIn, p)
<1>1. /\ pct \in {0, 50, 100} /\ pct1 \in {0, 50, 100} /\ pct1 <= pct
      /\ pct = 100 <=> \/ p = "FLEXIBLE" /\ 24 * checkIn - now >= 24
                       \/ p = "MODERATE" /\ 24 * checkIn - now >= 120
  <2>1. d \in Int /\ later \in Int /\ later <= d
    BY DaysLeft
  <2>2. (d >= 1 <=> 24 * checkIn - now >= 24) /\ (d >= 5 <=> 24 * checkIn - now >= 120)
    BY DaysLeft
  <2> HIDE DEF d, later
  <2>3. pct \in {0, 50, 100} /\ pct1 <= pct
    BY <2>1, Percentage
  <2>4. pct1 \in {0, 50, 100}
    BY <2>1, Percentage
  <2>5. pct = 100 <=> (p = "FLEXIBLE" /\ d >= 1) \/ (p = "MODERATE" /\ d >= 5)
    BY <2>1, Percentage
  <2> HIDE DEF pct, pct1
  <2> QED BY <2>2, <2>3, <2>4, <2>5
<1>2. /\ back = RoundDiv(total * pct, 100)
      /\ RefundAmount(total, now + 1, checkIn, p) = RoundDiv(total * pct1, 100)
      /\ net = IF total * pct > total * 3 THEN RoundDiv(total * pct - total * 3, 100) ELSE 0
  BY DEF RefundAmount, NetRefund
<1> HIDE DEF pct, pct1, d, later
<1>3. total * pct1 <= total * pct /\ total * pct1 \in Int /\ total * pct \in Int
  <2>1. total * 0 <= total * 50 /\ total * 50 <= total * 100 /\ total * 0 = 0
    OBVIOUS
  <2> QED BY <1>1, <2>1
<1>4. RoundDiv(total * pct1, 100) <= RoundDiv(total * pct, 100)
  BY <1>3, RoundedMonotone
<1>5. back \in Nat /\ back <= total /\ net \in 0 .. back
      /\ (total > 1 => (back = total <=> pct = 100))
  <2> HIDE DEF back, net
  <2>1. CASE pct = 100
    <3>1. back = total
      BY <1>2, <2>1, Shares
    <3>2. net \in 0 .. total
      BY <1>2, <2>1, Shares
    <3> QED BY <2>1, <3>1, <3>2
  <2>2. CASE pct = 50
    <3>1. back = (total + 1) \div 2
      BY <1>2, <2>2, Shares
    <3>2. net \in {RoundDiv(total * 50 - total * 3, 100), 0}
      BY <1>2, <2>2
    <3>3. net \in 0 .. (total + 1) \div 2
      <4>1. RoundDiv(total * 50 - total * 3, 100) \in 0 .. (total + 1) \div 2
        BY Shares
      <4>2. (total + 1) \div 2 \in Nat
        OBVIOUS
      <4> QED BY <3>2, <4>1, <4>2
    <3> QED BY <2>2, <3>1, <3>3
  <2>3. CASE pct = 0
    <3>1. back = 0
      BY <1>2, <2>3, Shares
    <3>2. net = 0
      BY <1>2, <2>3
    <3> QED BY <2>3, <3>1, <3>2
  <2> QED BY <1>1, <2>1, <2>2, <2>3
<1>6. back >= RefundAmount(total, now + 1, checkIn, p)
  <2>1. RoundDiv(total * pct1, 100) \in Int
    BY <1>3, Rounded
  <2> HIDE DEF back
  <2> QED BY <1>2, <1>4, <1>5, <2>1
<1> HIDE DEF back, net
<1>7. (total > 1) => (back = total <=> \/ p = "FLEXIBLE" /\ 24 * checkIn - now >= 24
                                       \/ p = "MODERATE" /\ 24 * checkIn - now >= 120)
  BY <1>1, <1>5
<1> QED
  BY <1>5, <1>6, <1>7 DEF back, net

\* A negative price has no positive refund.
LEMMA NegativeRefund ==
    ASSUME NEW total \in Int, total < 0, NEW now \in Int, NEW checkIn \in Int, NEW p \in Policies
    PROVE  RefundAmount(total, now, checkIn, p) <= 0
<1>1. PICK pct : pct = RefundPercentage(p, DaysUntilCheckIn(now, checkIn))
  OBVIOUS
<1>2. pct \in {0, 50, 100}
  BY <1>1, DaysLeft, Percentage
<1>3. RefundAmount(total, now, checkIn, p) = RoundDiv(total * pct, 100)
  BY <1>1 DEF RefundAmount
<1>4. total * pct \in Int /\ total * pct <= 0
  <2>1. total * 0 = 0 /\ total * 50 <= 0 /\ total * 100 <= 0
    OBVIOUS
  <2> QED BY <1>2, <2>1
<1>5. RoundDiv(total * pct, 100) <= RoundDiv(0, 100)
  BY <1>4, RoundedMonotone
<1>6. RoundDiv(0, 100) = 0
  BY DEF RoundDiv
<1> QED
  BY <1>3, <1>5, <1>6
=============================================================================
