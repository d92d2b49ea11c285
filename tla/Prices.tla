------------------------------- MODULE Prices -------------------------------
(***************************************************************************)
(* price.util.ts and financial.util.ts: the price of a stay, night by      *)
(* night, and what a cancellation gives back.  Money is counted in cents   *)
(* and days are whole, so Math.round(x * 100) / 100 is a division that     *)
(* rounds half up.                                                         *)
(***************************************************************************)
EXTENDS Integers

\* Math.round(a / b) for b > 0.
RoundDiv(a, b) == (2 * a + b) \div (2 * b)

\* The sum over the nights of a stay, price being a function of the night.
NightlySubtotal(price, from, to) ==
    LET sum[d \in from .. to] == IF d = to THEN 0 ELSE price[d] + sum[d + 1]
    IN  sum[from]

\* calculateTotalPrice, with the zero fees every caller passes: the average
\* price of a night times the nights, rounded to cents.
TotalPrice(subtotal, n, nights) == RoundDiv(subtotal * nights, n)

\* The average price of a night that the search shows.
PerNight(subtotal, nights) == RoundDiv(subtotal, nights)

-----------------------------------------------------------------------------
Policies == {"FLEXIBLE", "MODERATE", "STRICT", "SUPER_STRICT"}

\* Variant: the difference of the dates is taken the other way round.
DaysSinceCheckIn(now, checkIn) == (now - 24 * checkIn) \div 24

\* Whole days left, of a check-in on a day and an hour of cancellation.
DaysUntilCheckIn(now, checkIn) == (24 * checkIn - now) \div 24

RefundPercentage(policy, days) ==
    CASE policy = "FLEXIBLE" /\ days >= 1 -> 100
      [] policy = "MODERATE" /\ days >= 5 -> 100
      [] policy = "STRICT" /\ days >= 7 -> 50
      [] OTHER -> 0

RefundAmount(total, now, checkIn, policy) ==
    RoundDiv(total * RefundPercentage(policy, DaysUntilCheckIn(now, checkIn)), 100)

\* The processing fee is 3 % of the total, and the net refund never negative.
NetRefund(total, now, checkIn, policy) ==
    LET refund == total * RefundPercentage(policy, DaysUntilCheckIn(now, checkIn))
    IN  IF refund > total * 3 THEN RoundDiv(refund - total * 3, 100) ELSE 0
=============================================================================
