-------------------------------- MODULE Money --------------------------------
(***************************************************************************)
(* Monetary arithmetic of core/money.py in whole minor units (ngwee).      *)
(*                                                                         *)
(* A level loan's instalment is principal * f, where the annuity factor    *)
(* f = r / (1 - (1 + r)^-n) is a fraction, kept here as num / den.  The    *)
(* code evaluates the quotient with 28 digits before it rounds to the      *)
(* minor unit.  That matters in one case only: when the exact value is a   *)
(* whole number of minor units and the digits fall on its other side.      *)
(* `up` and `down` say whether they do so for this factor: a ceiling that  *)
(* ends one unit above the exact value, a floor that ends one unit below.  *)
(***************************************************************************)
EXTENDS Integers

Factors == [num : Nat \ {0}, den : Nat \ {0}, up : {0, 1}, down : {0, 1}]

CeilDiv(x, y) == (x + y - 1) \div y

\* x per cent of an amount, to the minor unit, half up.
Percent(amount, x) == (amount * x + 50) \div 100

Power(b, n) == LET f[k \in 0 .. n] == IF k = 0 THEN 1 ELSE b * f[k - 1] IN f[n]

\* r = p / q a month over n months; a zero rate is repaid in equal parts.
AnnuityFactor(p, q, n, up, down) ==
  LET grown == Power(p + q, n)
  IN IF p = 0
     THEN [num |-> 1, den |-> n, up |-> up, down |-> down]
     ELSE [num |-> p * grown, den |-> q * (grown - Power(q, n)), up |-> up, down |-> down]

\* The level instalment of a principal, rounded up.
InstalmentFor(principal, f) ==
  CeilDiv(principal * f.num, f.den)
    + (IF principal > 0 /\ (principal * f.num) % f.den = 0 THEN f.up ELSE 0)

\* The principal an instalment services, rounded down.
PrincipalFor(instalment, f) ==
  (instalment * f.den) \div f.num
    - (IF instalment > 0 /\ (instalment * f.den) % f.num = 0 THEN f.down ELSE 0)
=============================================================================
