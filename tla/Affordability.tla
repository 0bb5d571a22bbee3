---------------------------- MODULE Affordability ----------------------------
(***************************************************************************)
(* assess() of core/affordability.py: what instalment an applicant can     *)
(* carry, and the principal it services at a given annuity factor.         *)
(***************************************************************************)
EXTENDS Money

CONSTANTS
  None,               \* an absent value
  MinAmount, MaxAmount,
  MinTenor,
  Haircut,            \* per cent of declared income counted, by level of evidence
  MaxDsr,             \* debt service ceiling, per cent of income
  MinDisposable,      \* min_disposable_income
  ExpenseFloor,       \* expense_floor_ratio, per cent of income
  DependantExpense

Levels == {"PAYROLL_VERIFIED", "DOCUMENTED", "DECLARED"}

ASSUME AffordabilityAssumption ==
  /\ MinAmount \in Nat \ {0} /\ MaxAmount \in Nat /\ MinAmount <= MaxAmount
  /\ MinTenor \in Nat \ {0}
  /\ Haircut \in [Levels -> Nat]
  /\ MaxDsr \in Nat /\ MinDisposable \in Nat
  /\ ExpenseFloor \in Nat /\ DependantExpense \in Nat
  /\ None \notin Nat

NonNegative(x) == IF x > 0 THEN x ELSE 0
Least(x, y) == IF x <= y THEN x ELSE y
OrElse(x, default) == IF x = None THEN default ELSE x

verification_level(application, payroll) ==
  IF payroll # None /\ payroll.verified THEN "PAYROLL_VERIFIED"
  ELSE IF application.documents THEN "DOCUMENTED" ELSE "DECLARED"

\* A figure on the payroll record, or the declared one after its haircut.
VerifiedIncome(application, payroll) ==
  IF payroll # None /\ payroll.income # None
  THEN payroll.income
  ELSE Percent(application.income, Haircut[verification_level(application, payroll)])

\* Living costs: as declared, but not below the policy floor.
ModelledExpenses(application, verified) ==
  LET floor == Percent(verified, ExpenseFloor)
      declared == OrElse(application.expenses, floor)
  IN (IF declared >= floor THEN declared ELSE floor)
       + application.dependants * DependantExpense

Existing(application) == OrElse(application.debt, 0)

DsrCapacity(application, payroll) ==
  NonNegative(Percent(VerifiedIncome(application, payroll), MaxDsr) - Existing(application))

\* Mutant: the buffer is forgotten.
CashflowCapacity_NoBuffer(application, payroll) ==
  LET verified == VerifiedIncome(application, payroll)
  IN NonNegative(verified - ModelledExpenses(application, verified) - Existing(application))

CashflowCapacity(application, payroll) ==
  LET verified == VerifiedIncome(application, payroll)
  IN NonNegative(verified - ModelledExpenses(application, verified)
                   - Existing(application) - MinDisposable)

MaxInstalment(application, payroll) ==
  Least(DsrCapacity(application, payroll), CashflowCapacity(application, payroll))

AffordabilityReasons(application, payroll, affordable) ==
  LET dsr == DsrCapacity(application, payroll)
      cash == CashflowCapacity(application, payroll)
  IN (IF affordable THEN {} ELSE {"AMOUNT_EXCEEDS_AFFORDABILITY"})
     \cup (IF ~affordable /\ dsr < cash THEN {"DSR_LIMIT_EXCEEDED"} ELSE {})
     \cup (IF (~affordable /\ cash <= dsr) \/ Least(dsr, cash) = 0
           THEN {"INSUFFICIENT_DISPOSABLE_INCOME"} ELSE {})

assess(application, payroll, f) ==
  LET capacity == MaxInstalment(application, payroll)
      instalment == InstalmentFor(application.amount, f)
  IN [max_instalment |-> capacity,
      max_amount |-> Least(PrincipalFor(capacity, f), MaxAmount),
      requested_instalment |-> instalment,
      affordable |-> instalment <= capacity,
      reason_codes |-> AffordabilityReasons(application, payroll, instalment <= capacity)]
=============================================================================
