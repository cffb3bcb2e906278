------------------------------- MODULE Pricing --------------------------------
(***************************************************************************)
(* The arithmetic of common/utils and of the places that use it: combined  *)
(* odds, system bets, cashout values and odds formats.                     *)
(*                                                                         *)
(* Money is a number of cents, odds are a number of 1/OddsUnit, the        *)
(* totalOdds column a number of 1/TotalUnit (10000 in the schema) and a    *)
(* percentage a number of 1/Whole.  A Decimal in the middle of a           *)
(* computation is an exact fraction; its 20 digits are more than the       *)
(* columns keep.                                                           *)
(***************************************************************************)
EXTENDS Totals, FiniteSets

CONSTANTS
    OddsUnit,   \* the units a price is quoted in
    TotalUnit,  \* the units the combined odds of a bet are stored in
    Whole,      \* the units of a percentage, so 100 percent
    Margin      \* CASHOUT_MARGIN, of Whole

ASSUME UnitsAssumption ==
    OddsUnit \in Nat \ {0} /\ TotalUnit \in Nat \ {0} /\ Whole \in Nat \ {0}
ASSUME MarginAssumption == Margin \in 0 .. Whole - 1

Scaled(k, x) == Frac(k * x.num, x.den)

-------------------------------------------------------------------------------
\* Combined odds.  odds is a function from the places 1 .. n of a slip.

\* The units the product of the prices of the legs in S is a number of.
Units(S) == Product([i \in S |-> OddsUnit], S)

\* calculateCombinedOdds over the legs in S.
CombinedOdds(odds, S) == Frac(Product(odds, S), Units(S))

\* Faulty Combinations: combine(i, ...) instead of combine(i + 1, ...).
CombinationsAgain(n, size) ==
    LET combine[left \in 0 .. size] ==
            [start \in 1 .. n + 1 |->
                IF left = 0 THEN {{}}
                ELSE UNION {{{i} \cup c : c \in combine[left - 1][i]} : i \in start .. n}]
    IN  combine[size][1]

\* getSystemBetCombinations: combine(start, combo) takes every leg from start on
\* and completes it with later ones; left is how many are missing in combo.
Combinations(n, size) ==
    LET combine[left \in 0 .. size] ==
            [start \in 1 .. n + 1 |->
                IF left = 0 THEN {{}}
                ELSE UNION {{{i} \cup c : c \in combine[left - 1][i + 1]} : i \in start .. n}]
    IN  combine[size][1]

\* A system bet stakes the same on every combination; its odds are what it would
\* return if all legs win, by its stake.
SystemOdds(odds, size) ==
    LET C == Combinations(Cardinality(DOMAIN odds), size)
    IN  Frac(Total([c \in C |-> Product(odds, c)], C), Cardinality(C) * Units(1 .. size))

TotalOdds(type, size, odds) ==
    IF type = "SYSTEM" /\ size > 0 THEN SystemOdds(odds, size) ELSE CombinedOdds(odds, DOMAIN odds)

-------------------------------------------------------------------------------
\* Cashouts.  part is the percentage sold, Whole for a full cashout; total is the
\* stored totalOdds, current the combined odds now.

\* calculateCashoutValue of the part, as calculatePartialCashoutValue calls it.
CashoutValue(stake, part, total, current) ==
    Frac(stake * part * total * current.den * (Whole - Margin),
         Whole * TotalUnit * current.num * Whole)

\* Faulty Remaining: add for sub.
RemainingAdded(stake, part) == Frac(stake * (Whole + part), Whole)

Remaining(stake, part) == Frac(stake * (Whole - part), Whole)

-------------------------------------------------------------------------------
\* Odds formats, for decimal odds in hundredths.

\* decimalToAmerican and the Math.round of convertOdds.
DecimalToAmerican(d) ==
    IF d >= 200 THEN d - 100 ELSE Rounded(Frac(-10000, d - 100))

\* americanToDecimal and the toFixed(4) of convertOdds, in 1/10000.
AmericanToDecimal(a) ==
    IF a > 0 THEN 100 * (a + 100) ELSE Rounded(Frac(10000 * (100 - a), -a))

\* gcd of decimalToFractional, gcd(a, b) as Gcd[b][a]: what gets smaller comes first.
Gcd[b \in Nat] == [a \in Nat |-> IF b = 0 THEN a ELSE Gcd[a % b][b]]

DecimalToFractional(d) ==
    LET g == Gcd[100][d - 100]
    IN  Frac((d - 100) \div g, 100 \div g)
===============================================================================
