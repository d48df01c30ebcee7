-------------------------------- MODULE Money --------------------------------
(***************************************************************************)
(* app/money.py: the conversions between the decimal strings of the API    *)
(* and integer base units.  A decimal string is a record [m, e] of value   *)
(* m / 10^e; Decimal reads it exactly, and every operation on Decimals     *)
(* rounds its result to Precision digits, half to even.  Zero stands for   *)
(* the amounts that are not positive.                                      *)
(***************************************************************************)
EXTENDS Naturals

CONSTANTS
  Places,      \* USDC_DECIMALS
  Precision,   \* the significant digits of decimal's context, 28
  MaxExcess    \* bound: digits beyond Precision an operation may produce

ASSUME MoneyAssumption ==
  /\ MaxExcess \in Nat /\ Places \in 0..MaxExcess
  /\ Precision \in Nat \ {0}

Decimals == [m : Nat, e : Nat]

\* The powers of ten, as a function that can be reasoned about.
Ten[k \in Nat] == IF k = 0 THEN 1 ELSE 10 * Ten[k - 1]

\* Integers below this fit the context.
Limit == Ten[Precision]

\* The unit in the last place that Precision digits leave of n.
Ulps == {Ten[k] : k \in 0..MaxExcess}
Ulp(n) ==
  CHOOSE u \in Ulps : n < u * Limit /\ \A v \in Ulps : n < v * Limit => u <= v

Rounded(n) ==
  LET u == Ulp(n)
      q == n \div u
      r == n % u
  IN u * (IF 2 * r > u \/ (2 * r = u /\ q % 2 = 1) THEN q + 1 ELSE q)

Scaled(d) == Rounded(d.m * Ten[Places])

\* Mutant: the decimals that do not fit are cut off.
AcceptsAll(d) == d.m > 0

\* parse_amount_to_base_units() raises ValueError for other amounts.
Accepts(d) == d.m > 0 /\ Scaled(d) % Ten[d.e] = 0

Parse(d) == Scaled(d) \div Ten[d.e]

\* Mutant: trailing zeros are stripped and the point stays where it was.
RenderStripped(units) ==
  LET n == Rounded(units)
      k == CHOOSE k \in 0..Places :
             n % Ten[k] = 0 /\ \A j \in 0..Places : n % Ten[j] = 0 => j <= k
  IN [m |-> n \div Ten[k], e |-> Places]

\* base_units_to_decimal_string(): no trailing zeros after the point.
Render(units) ==
  LET n == Rounded(units)
      k == CHOOSE k \in 0..Places :
             n % Ten[k] = 0 /\ \A j \in 0..Places : n % Ten[j] = 0 => j <= k
  IN [m |-> n \div Ten[k], e |-> Places - k]
=============================================================================
