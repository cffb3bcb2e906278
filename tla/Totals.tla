-------------------------------- MODULE Totals --------------------------------
(***************************************************************************)
(* Sums and products of a function over a finite set: the reduce calls of  *)
(* the services and the aggregates of the database.  And the fractions     *)
(* decimal.js computes with, and their rounding.                           *)
(***************************************************************************)
EXTENDS Integers, FiniteSetsExt, Functions

\* The sum of f over the finite set S.
Total(f, S) == MapThenSumSet(LAMBDA x : f[x], S)

\* The product of f over the finite set S.
Product(f, S) == FoldFunctionOnSet(LAMBDA a, b : a * b, 1, f, S)

Frac(n, d) == [num |-> n, den |-> d]

\* toDecimalPlaces with ROUND_HALF_UP, what a Decimal column does with the decimals
\* it has no place for, and Math.round.
Rounded(x) == (2 * x.num + x.den) \div (2 * x.den)
===============================================================================
