---------------------------- MODULE PipelineProofs ----------------------------
(***************************************************************************)
(* Proofs about the decisioning pipeline, for any product, pricing,        *)
(* applicants and partner answers.                                         *)
(***************************************************************************)
EXTENDS Pipeline, WellFoundedInduction, TLAPS

-----------------------------------------------------------------------------
(* Arithmetic of instalments and principals (core/money.py).                *)

(* Integer division by a positive number: the quotient and its remainder.   *)
LEMMA Division ==
  ASSUME NEW x \in Nat, NEW y \in Nat \ {0}
  PROVE  /\ x \div y \in Nat
         /\ y * (x \div y) <= x
         /\ x < y * (x \div y) + y
         /\ x % y = 0 <=> x = y * (x \div y)
  BY SMTT(30)

(* Multiplication by a natural number keeps the order.                      *)
LEMMA Monotone ==
  ASSUME NEW p \in Int, NEW q \in Int, NEW a \in Nat, p <= q
  PROVE  a * p <= a * q
  BY SMTT(30)

(* The ceiling of a quotient is the least number that covers it.            *)
LEMMA CeilingIsLeast ==
  ASSUME NEW x \in Nat, NEW y \in Nat \ {0}, NEW k \in Nat, x <= k * y
  PROVE  CeilDiv(x, y) \in Nat /\ CeilDiv(x, y) <= k
<1> DEFINE q == CeilDiv(x, y)
<1>1. q = (x + y - 1) \div y /\ x + y - 1 \in Nat
  BY DEF CeilDiv
<1>2. q \in Nat /\ y * q <= x + y - 1
  BY <1>1, Division
<1>3. q <= k
  <2>1. SUFFICES ASSUME k + 1 <= q PROVE FALSE
    BY <1>2
  <2>2. y * (k + 1) <= y * q
    BY <2>1, <1>2, Monotone
  <2>3. y * (k + 1) = k * y + y
    OBVIOUS
  <2> HIDE DEF q
  <2>4. k * y \in Nat /\ y * q \in Nat
    BY <1>2
  <2> QED
    BY <1>2, <2>2, <2>3, <2>4
<1> QED
  BY <1>2, <1>3

(* The principal derived from an instalment is a natural number not above   *)
(* the exact value.                                                         *)
LEMMA PrincipalIsFloor ==
  ASSUME NEW i \in Nat, NEW f \in Factors
  PROVE  /\ PrincipalFor(i, f) \in Nat
         /\ PrincipalFor(i, f) <= (i * f.den) \div f.num
<1>1. f.num \in Nat \ {0} /\ f.den \in Nat \ {0} /\ f.down \in {0, 1}
  BY DEF Factors
<1> DEFINE x == i * f.den
           q == x \div f.num
<1>2. x \in Nat
  BY <1>1
<1>3. q \in Nat /\ (x % f.num = 0 <=> x = f.num * q)
  BY <1>1, <1>2, Division
<1>4. CASE i > 0 /\ x % f.num = 0
  <2>1. x >= 1
    BY <1>1, <1>4
  <2>2. q # 0
    <3>1. f.num * 0 = 0
      BY <1>1
    <3> QED
      BY <2>1, <3>1, <1>3, <1>4
  <2>3. PrincipalFor(i, f) = q - f.down
    BY <1>4 DEF PrincipalFor
  <2> HIDE DEF q
  <2> QED
    BY <2>2, <2>3, <1>1, <1>3 DEF q
<1>5. CASE ~(i > 0 /\ x % f.num = 0)
  <2>1. PrincipalFor(i, f) = q - 0
    BY <1>5 DEF PrincipalFor
  <2> QED
    BY <2>1, <1>3
<1> QED
  BY <1>4, <1>5

(* core/money.py, "the error the affordability assessment exists to         *)
(* prevent": the instalment of a principal that principal_for allows does   *)
(* not exceed the instalment it was derived from, unless the principal has  *)
(* an exact instalment that the decimal quotient overshoots.                *)
LEMMA AllowedPrincipalIsServiceable ==
  ASSUME NEW p \in Nat, NEW i \in Nat, NEW f \in Factors,
         p <= PrincipalFor(i, f),
         f.up = 1 => (p * f.num) % f.den # 0
  PROVE  InstalmentFor(p, f) \in Nat /\ InstalmentFor(p, f) <= i
<1>1. f.num \in Nat \ {0} /\ f.den \in Nat \ {0} /\ f.up \in {0, 1}
  BY DEF Factors
<1> DEFINE x == i * f.den
           q == x \div f.num
<1>2. x \in Nat
  BY <1>1
<1>3. q \in Nat /\ f.num * q <= x
  BY <1>1, <1>2, Division
<1>4. p <= q
  BY PrincipalIsFloor, <1>3
<1>5. f.num * p <= f.num * q
  BY <1>1, <1>3, <1>4, Monotone
<1>6. p * f.num <= i * f.den
  <2>1. p * f.num = f.num * p
    BY <1>1
  <2> HIDE DEF q
  <2>2. p * f.num \in Nat /\ f.num * q \in Nat
    BY <1>1, <1>3
  <2> QED
    BY <1>2, <1>3, <1>5, <2>1, <2>2
<1>7. p * f.num \in Nat
  BY <1>1
<1>8. CeilDiv(p * f.num, f.den) \in Nat /\ CeilDiv(p * f.num, f.den) <= i
  BY <1>1, <1>6, <1>7, CeilingIsLeast
<1>9. InstalmentFor(p, f) = CeilDiv(p * f.num, f.den) + 0
  BY <1>1 DEF InstalmentFor
<1> QED
  BY <1>8, <1>9

(* The ceiling of a quotient covers it.                                     *)
LEMMA CeilingCovers ==
  ASSUME NEW x \in Nat, NEW y \in Nat \ {0}
  PROVE  CeilDiv(x, y) \in Nat /\ x <= y * CeilDiv(x, y)
<1> DEFINE q == CeilDiv(x, y)
<1>1. q = (x + y - 1) \div y /\ x + y - 1 \in Nat
  BY DEF CeilDiv
<1>2. q \in Nat /\ x + y - 1 < y * q + y
  BY <1>1, Division
<1> HIDE DEF q
<1>3. y * q \in Nat
  BY <1>2
<1> QED
  BY <1>2, <1>3 DEF q

(* A larger principal never has a smaller instalment.                       *)
LEMMA InstalmentIsMonotone ==
  ASSUME NEW p \in Nat, NEW r \in Nat, p < r, NEW f \in Factors
  PROVE  InstalmentFor(p, f) <= InstalmentFor(r, f)
<1>1. f.num \in Nat \ {0} /\ f.den \in Nat \ {0} /\ f.up \in {0, 1}
  BY DEF Factors
<1> DEFINE x == p * f.num
           z == r * f.num
           cx == CeilDiv(x, f.den)
           cz == CeilDiv(z, f.den)
<1>2. x \in Nat /\ z \in Nat
  BY <1>1
<1>3. x < z
  <2>1. f.num * (p + 1) <= f.num * r
    BY <1>1, Monotone
  <2>2. f.num * (p + 1) = x + f.num /\ f.num * r = z
    BY <1>1
  <2> HIDE DEF x, z
  <2> QED
    BY <1>1, <1>2, <2>1, <2>2
<1>4. cz \in Nat /\ z <= f.den * cz
  BY <1>1, <1>2, CeilingCovers
<1> HIDE DEF x, z
<1>5. cx \in Nat /\ cx <= cz
  <2>1. x <= cz * f.den
    <3>1. f.den * cz = cz * f.den /\ f.den * cz \in Nat
      BY <1>1, <1>4
    <3> QED
      BY <1>2, <1>3, <1>4, <3>1
  <2> QED
    BY <1>1, <1>2, <1>4, <2>1, CeilingIsLeast
<1>6. x % f.den = 0 => cx + 1 <= cz
  <2> SUFFICES ASSUME x % f.den = 0 PROVE cx + 1 <= cz
    OBVIOUS
  <2> DEFINE k == x \div f.den
  <2>1. k \in Nat /\ x = f.den * k
    BY <1>1, <1>2, Division
  <2>2. cx <= k
    <3>1. x <= k * f.den
      BY <1>1, <1>2, <2>1
    <3> QED
      BY <1>1, <1>2, <2>1, <3>1, CeilingIsLeast
  <2>3. k < cz
    <3> HIDE DEF k
    <3>1. SUFFICES ASSUME cz <= k PROVE FALSE
      BY <1>4, <2>1
    <3>2. f.den * cz <= f.den * k
      BY <1>1, <1>4, <2>1, <3>1, Monotone
    <3>3. f.den * cz \in Nat
      BY <1>1, <1>4
    <3> QED
      BY <1>2, <1>3, <1>4, <2>1, <3>2, <3>3
  <2> HIDE DEF k, cx, cz
  <2> QED
    BY <1>4, <1>5, <2>1, <2>2, <2>3
<1>7. InstalmentFor(p, f) = cx + (IF p > 0 /\ x % f.den = 0 THEN f.up ELSE 0)
  BY DEF InstalmentFor, x
<1>8. InstalmentFor(r, f) = cz + (IF r > 0 /\ z % f.den = 0 THEN f.up ELSE 0)
  BY DEF InstalmentFor, z
<1> HIDE DEF cx, cz
<1> QED
  BY <1>1, <1>4, <1>5, <1>6, <1>7, <1>8

-----------------------------------------------------------------------------
(* Affordability and offers (core/affordability.py, core/decision.py).      *)

(* A percentage of an amount is an amount.                                  *)
LEMMA PercentIsNatural ==
  ASSUME NEW amount \in Nat, NEW x \in Nat
  PROVE  Percent(amount, x) \in Nat
<1>1. amount * x + 50 \in Nat
  OBVIOUS
<1> QED
  BY <1>1, Division DEF Percent

(* Rounding to the increment yields an amount the product can offer, and    *)
(* never raises an amount that is within the product's range.               *)
LEMMA RoundedIsOfferable ==
  ASSUME NEW amount \in Nat, MinAmount <= amount, amount <= MaxAmount
  PROVE  /\ RoundToIncrement(amount) \in Offerable
         /\ RoundToIncrement(amount) <= amount
         /\ MinAmount <= RoundToIncrement(amount)
<1> USE AffordabilityAssumption, EngineAssumption
<1> DEFINE q == amount \div Increment
           r == q * Increment
<1>1. q \in Nat /\ Increment * q <= amount
  BY Division
<1>2. r = Increment * q /\ r \in Nat
  BY <1>1
<1>3. r % Increment = 0
  <2>1. r % Increment = 0 <=> r = Increment * (r \div Increment)
    BY <1>2, Division
  <2>2. r \div Increment \in Nat /\ Increment * (r \div Increment) <= r
        /\ r < Increment * (r \div Increment) + Increment
    BY <1>2, Division
  <2> DEFINE k == r \div Increment
  <2>3. k \in Nat /\ Increment * k <= Increment * q /\ Increment * q < Increment * k + Increment
    BY <1>2, <2>2
  <2> HIDE DEF k, q, r
  <2>4. q <= k
    <3>1. SUFFICES ASSUME k + 1 <= q PROVE FALSE
      BY <1>1, <2>3
    <3>2. Increment * (k + 1) <= Increment * q
      BY <3>1, <1>1, <2>3, Monotone
    <3>3. Increment * (k + 1) = Increment * k + Increment /\ Increment * k \in Nat /\ Increment * q \in Nat
      BY <1>1, <2>3
    <3> QED
      BY <2>3, <3>2, <3>3
  <2>5. k <= q
    <3>1. SUFFICES ASSUME q + 1 <= k PROVE FALSE
      BY <1>1, <2>3
    <3>2. Increment * (q + 1) <= Increment * k
      BY <3>1, <1>1, <2>3, Monotone
    <3>3. Increment * (q + 1) = Increment * q + Increment /\ Increment * k \in Nat /\ Increment * q \in Nat
      BY <1>1, <2>3
    <3> QED
      BY <2>3, <3>2, <3>3
  <2>6. q = k
    BY <1>1, <2>3, <2>4, <2>5
  <2> QED
    BY <1>2, <2>1, <2>6 DEF k
<1>4. CASE r >= MinAmount
  <2>1. RoundToIncrement(amount) = r
    BY <1>4 DEF RoundToIncrement
  <2> HIDE DEF r
  <2> QED
    BY <2>1, <1>1, <1>2, <1>3, <1>4 DEF Offerable
<1>5. CASE ~(r >= MinAmount)
  <2>1. RoundToIncrement(amount) = MinAmount
    BY <1>5 DEF RoundToIncrement
  <2> QED
    BY <2>1 DEF Offerable
<1> QED
  BY <1>4, <1>5

(* A nonempty set of natural numbers has a least element.                   *)
LEMMA LeastNatural ==
  ASSUME NEW T \in SUBSET Nat, T # {}
  PROVE  \E n \in T : \A m \in T : n <= m
<1> DEFINE R == OpToRel(<, Nat)
<1>1. IsWellFoundedOn(R, Nat)
  BY NatLessThanWellFounded, Zenon
<1>2. PICK n \in T : \A m \in T : ~(<<m, n>> \in R)
  BY <1>1, WFMin, Zenon
<1>3. \A m \in T : ~(m < n)
  BY <1>2 DEF OpToRel
<1> QED
  BY <1>3

(* The grade of a score is one of the product's grades, and its band holds  *)
(* the score if any does.                                                   *)
LEMMA GradeIsGrade ==
  ASSUME NEW s
  PROVE  /\ GradeOf(s) \in Grades
         /\ s # None /\ (\E g \in Grades : GradeFloor[g] <= s /\ s <= GradeCeiling[g])
              => GradeFloor[GradeOf(s)] <= s /\ s <= GradeCeiling[GradeOf(s)]
<1> USE EngineAssumption
<1> DEFINE matching == {g \in Grades : s # None /\ GradeFloor[g] <= s /\ s <= GradeCeiling[g]}
<1>1. GradeOf(s) = IF matching = {} THEN LastGrade ELSE First(matching)
  BY DEF GradeOf
<1>2. CASE matching = {}
  <2>1. GradeOf(s) = LastGrade
    BY <1>1, <1>2
  <2> QED
    BY <1>2, <2>1 DEF Grades
<1>3. CASE matching # {}
  <2>1. matching \in SUBSET Nat
    BY DEF Grades
  <2> HIDE DEF matching
  <2>2. \E g \in matching : \A h \in matching : g <= h
    BY <1>3, <2>1, LeastNatural
  <2>3. GradeOf(s) \in matching
    BY <1>1, <1>3, <2>2 DEF First
  <2> QED
    BY <2>3 DEF matching
<1> QED
  BY <1>2, <1>3

(* The annuity factor of an application at any grade is a factor.           *)
LEMMA FactorsAreFactors ==
  ASSUME NEW x \in Intake, NEW s
  PROVE  /\ GradeOf(s) \in Grades /\ TenorOf(x) \in Tenors
         /\ \A g \in Grades : FactorFor(x, g) \in Factors
<1>1. TenorOf(x) \in Tenors
  BY EngineAssumption DEF TenorOf, Intake
<1> QED
  BY <1>1, GradeIsGrade, EngineAssumption DEF FactorFor

(* An applicant's figures are natural numbers, and an instalment within a   *)
(* positive capacity passes both tests the capacity is made of.             *)
LEMMA CapacityMeansAffordable ==
  ASSUME NEW x \in Intake, NEW payroll \in Payloads["payroll"] \cup {None}
  PROVE  /\ MaxInstalment(x, payroll) \in Nat
         /\ \A i \in Nat \ {0} : i <= MaxInstalment(x, payroll) =>
              LET income == VerifiedIncome(x, payroll)
              IN /\ Existing(x) + i <= Percent(income, MaxDsr)
                 /\ ModelledExpenses(x, income) + Existing(x) + i + MinDisposable <= income
<1> USE AffordabilityAssumption
<1> DEFINE income == VerifiedIncome(x, payroll)
           expenses == ModelledExpenses(x, income)
           ceiling == Percent(income, MaxDsr)
           owed == Existing(x)
<1>1. income \in Nat
  <2>1. CASE payroll # None /\ payroll.income # None
    BY <2>1 DEF VerifiedIncome, Payloads
  <2>2. CASE ~(payroll # None /\ payroll.income # None)
    <3>1. verification_level(x, payroll) \in Levels
      BY DEF verification_level, Levels
    <3>2. Haircut[verification_level(x, payroll)] \in Nat /\ x.income \in Nat
      BY <3>1 DEF Intake
    <3> QED
      BY <2>2, <3>2, PercentIsNatural DEF VerifiedIncome
  <2> QED
    BY <2>1, <2>2
<1>2. owed \in Nat
  BY DEF Existing, OrElse, Intake
<1>3. ceiling \in Nat
  BY <1>1, PercentIsNatural
<1>4. expenses \in Nat
  <2>1. Percent(income, ExpenseFloor) \in Nat
    BY <1>1, PercentIsNatural
  <2>2. OrElse(x.expenses, Percent(income, ExpenseFloor)) \in Nat
    BY <2>1 DEF OrElse, Intake
  <2>3. x.dependants * DependantExpense \in Nat
    BY DEF Intake
  <2> HIDE DEF income
  <2> QED
    BY <2>1, <2>2, <2>3 DEF ModelledExpenses
<1>5. DsrCapacity(x, payroll) = NonNegative(ceiling - owed)
  BY DEF DsrCapacity
<1>6. CashflowCapacity(x, payroll) = NonNegative(income - expenses - owed - MinDisposable)
  BY DEF CashflowCapacity
<1> HIDE DEF income, expenses, ceiling, owed
<1>7. /\ DsrCapacity(x, payroll) \in Nat
      /\ DsrCapacity(x, payroll) > 0 => DsrCapacity(x, payroll) = ceiling - owed
  BY <1>2, <1>3, <1>5 DEF NonNegative
<1>8. /\ CashflowCapacity(x, payroll) \in Nat
      /\ CashflowCapacity(x, payroll) > 0 =>
           CashflowCapacity(x, payroll) = income - expenses - owed - MinDisposable
  BY <1>1, <1>2, <1>4, <1>6 DEF NonNegative
<1>9. /\ MaxInstalment(x, payroll) \in Nat
      /\ MaxInstalment(x, payroll) <= DsrCapacity(x, payroll)
      /\ MaxInstalment(x, payroll) <= CashflowCapacity(x, payroll)
  BY <1>7, <1>8 DEF MaxInstalment, Least
<1>10. ASSUME NEW i \in Nat \ {0}, i <= MaxInstalment(x, payroll)
       PROVE owed + i <= ceiling /\ expenses + owed + i + MinDisposable <= income
  BY <1>1, <1>2, <1>3, <1>4, <1>7, <1>8, <1>9, <1>10
<1> QED
  BY <1>9, <1>10 DEF income, expenses, ceiling, owed

(* What an approval consists of: no rule matched, the score passed the      *)
(* cut-off, and the amount is the requested one if it is affordable, else   *)
(* the rounded maximum.                                                     *)
ApprovedOffer(t, x, view, s) ==
  LET a == Assessment(x, view, s)
      d == decide(t, x, view, s)
  IN /\ Fired(t, x, view) = {}
     /\ s # None
     /\ d.recommended_amount =
          IF a.affordable THEN x.amount ELSE RoundToIncrement(a.max_amount)
     /\ ~a.affordable => a.max_amount >= MinAmount
     /\ d.is_counteroffer = TRUE => ~a.affordable
     /\ d.maximum_amount = a.max_amount
     /\ d.instalment = InstalmentFor(d.recommended_amount, FactorFor(x, GradeOf(s)))

(* Whatever decide() approves is an offer of that kind.                     *)
LEMMA ApprovalShape ==
  ASSUME NEW t, NEW x, NEW view, NEW s,
         decide(t, x, view, s).outcome = "APPROVE"
  PROVE  ApprovedOffer(t, x, view, s)
<1> DEFINE a == Assessment(x, view, s)
           d == decide(t, x, view, s)
           verdict == Gates(Fired(t, x, view), s, view, x, a)
<1>1. /\ d.outcome = verdict.outcome
      /\ d.recommended_amount = verdict.recommended_amount
      /\ d.is_counteroffer = verdict.is_counteroffer
      /\ d.maximum_amount = a.max_amount
  BY DEF decide
<1>2. d.instalment = InstalmentFor(d.recommended_amount, FactorFor(x, GradeOf(s)))
  BY <1>1 DEF decide
<1>3. Fired(t, x, view) = {}
  BY <1>1 DEF Gates, PolicyGate, Verdict
<1>4. ScoreGate(s, view).outcome = "PASS" /\ verdict = Offer(x, a)
  BY <1>1, <1>3 DEF Gates, ScoreGate, Verdict
<1>5. s # None
  BY <1>4 DEF ScoreGate, Verdict
<1>6. CASE a.affordable
  <2>1. verdict = Verdict("APPROVE", None, {}, x.amount)
    BY <1>4, <1>6 DEF Offer
  <2> QED
    BY <1>1, <1>2, <1>3, <1>5, <1>6, <2>1 DEF Verdict, ApprovedOffer
<1>7. CASE ~a.affordable
  <2>1. a.max_amount >= MinAmount
    BY <1>1, <1>4, <1>7 DEF Offer, Verdict
  <2>2. verdict = [Verdict("APPROVE", None, {"COUNTEROFFER_REDUCED_AMOUNT"} \cup a.reason_codes,
                           RoundToIncrement(a.max_amount)) EXCEPT !.is_counteroffer = TRUE]
    BY <1>4, <1>7, <2>1 DEF Offer
  <2> QED
    BY <1>1, <1>2, <1>3, <1>5, <1>7, <2>1, <2>2 DEF Verdict, ApprovedOffer
<1> QED
  BY <1>6, <1>7

-----------------------------------------------------------------------------
(* The pipeline.                                                            *)

(* Degrading a decision never makes it an approval, and an approval it      *)
(* leaves alone keeps its offer.                                            *)
LEMMA DegradationKeepsTheOffer ==
  ASSUME NEW t, NEW x, NEW view, NEW s,
         ApplyDegradation(decide(t, x, view, s)).outcome = "APPROVE"
  PROVE  LET d == decide(t, x, view, s)
             e == ApplyDegradation(d)
         IN /\ d.outcome = "APPROVE"
            /\ e.recommended_amount = d.recommended_amount
            /\ e.is_counteroffer = d.is_counteroffer
            /\ e.maximum_amount = d.maximum_amount
            /\ e.instalment = d.instalment
  BY DEF ApplyDegradation, decide

(* The same for the decision the platform makes.                            *)
LEMMA OutcomeKeepsTheOffer ==
  ASSUME NEW s, Outcome(s).outcome = "APPROVE"
  PROVE  LET d == decide(tenant, application, View, s)
         IN /\ d.outcome = "APPROVE"
            /\ Outcome(s).recommended_amount = d.recommended_amount
            /\ Outcome(s).is_counteroffer = d.is_counteroffer
            /\ Outcome(s).maximum_amount = d.maximum_amount
            /\ Outcome(s).instalment = d.instalment
<1>1. CASE Degraded
  <2>1. Outcome(s) = ApplyDegradation(decide(tenant, application, View, s))
    BY <1>1 DEF Outcome
  <2> QED
    BY <2>1, DegradationKeepsTheOffer
<1>2. CASE ~Degraded
  BY <1>2 DEF Outcome
<1> QED
  BY <1>1, <1>2

(* The request, the partner results and the score keep their types, and a   *)
(* decision is always the one that follows from them.                       *)
PipelineInv ==
  /\ tenant \in Tenants
  /\ application \in Applications \cup {None}
  /\ overrides \in Overrides \cup {<< >>}
  /\ answers \in Answers \cup {None}
  /\ score \in Scores \cup {None}
  /\ answers # None => application # None
  /\ decision # None =>
       /\ answers # None
       /\ score \in ScoresNow
       /\ decision = Outcome(score)

(* The invariant holds before the first application and after every step.   *)
LEMMA PipelineInvHolds == Spec => []PipelineInv
<1>1. Init => PipelineInv
  BY DEF Init, PipelineInv
<1>2. PipelineInv /\ [Next]_vars => PipelineInv'
  <2> SUFFICES ASSUME PipelineInv, [Next]_vars PROVE PipelineInv'
    OBVIOUS
  <2> USE PipelineAssumption DEF PipelineInv
  <2>1. ASSUME NEW x \in Applications, NEW o \in Overrides, Submit(x, o) PROVE PipelineInv'
    BY <2>1 DEF Submit
  <2>2. ASSUME NEW r \in Answers, Retrieve(r) PROVE PipelineInv'
    BY <2>2 DEF Retrieve, request
  <2>3. ASSUME NEW s \in Scores \cup {None}, Conclude(s) PROVE PipelineInv'
    <3>1. UNCHANGED <<tenant, application, overrides, answers>>
      BY <2>3 DEF Conclude, request
    <3>2. score' = s /\ s \in ScoresNow /\ decision' = Outcome(s) /\ answers # None
      BY <2>3 DEF Conclude
    <3>3. ScoresNow' = ScoresNow
      BY <3>1 DEF ScoresNow, Blocked
    <3>4. Outcome(s)' = Outcome(s)
      BY <3>1 DEF Outcome, Degraded, ApplyDegradation, View
    <3> QED
      BY <3>1, <3>2, <3>3, <3>4
  <2>4. CASE Done
    BY <2>4 DEF Done
  <2>5. CASE UNCHANGED vars
    <3>1. ScoresNow' = ScoresNow
      BY <2>5 DEF vars, ScoresNow, Blocked
    <3>2. \A s : Outcome(s)' = Outcome(s)
      BY <2>5 DEF vars, Outcome, Degraded, ApplyDegradation, View
    <3> QED
      BY <2>5, <3>1, <3>2 DEF vars
  <2> QED
    BY <2>1, <2>2, <2>3, <2>4, <2>5 DEF Next
<1> QED
  BY <1>1, <1>2, PTL DEF Spec

-----------------------------------------------------------------------------
(* Approvals.                                                               *)

(* What every partner contributed is an answer of its kind, or nothing.     *)
LEMMA ViewIsTyped ==
  ASSUME PipelineInv, answers # None, NEW p \in Partners
  PROVE  View[p] \in Payloads[p] \cup {None}
<1> USE PipelineAssumption
<1>1. View[p] = IF p \in DOMAIN overrides THEN overrides[p]
                ELSE IF answers[p] = Failed THEN None ELSE answers[p]
  BY DEF View
<1>2. answers[p] \in Payloads[p] \cup {None, Failed}
  BY DEF PipelineInv
<1>3. CASE overrides \in Overrides
  BY <1>1, <1>2, <1>3
<1>4. CASE overrides = << >>
  <2>1. DOMAIN overrides = {}
    BY <1>4
  <2> QED
    BY <1>1, <1>2, <2>1
<1> QED
  BY <1>3, <1>4 DEF PipelineInv

(* When no rule matches, the amount is in the product's range.              *)
LEMMA NoRuleMeansInRange ==
  ASSUME NEW t, NEW x, NEW view, Fired(t, x, view) = {}
  PROVE  x.amount \in MinAmount .. MaxAmount
<1>1. Matching(Eligibility(x, age_years(x))) = {}
  BY DEF Fired
<1>2. "AMOUNT_OUTSIDE_PRODUCT_RANGE" \in DOMAIN Eligibility(x, age_years(x))
  BY DEF Eligibility
<1>3. ~Eligibility(x, age_years(x))["AMOUNT_OUTSIDE_PRODUCT_RANGE"]
  BY <1>1, <1>2 DEF Matching
<1> QED
  BY <1>3 DEF Eligibility

(* The offer of an approval: its amount is saleable, lies between the       *)
(* minimum and the requested amount, and its instalment is positive and     *)
(* within the applicant's capacity; a counteroffer is less than requested   *)
(* and not above the maximum.                                               *)
LEMMA ApprovalFacts ==
  ASSUME PipelineInv, Approved
  PROVE  /\ application \in Intake
         /\ View["payroll"] \in Payloads["payroll"] \cup {None}
         /\ decision.instalment \in Nat \ {0}
         /\ decision.instalment <= MaxInstalment(application, View["payroll"])
         /\ decision.recommended_amount \in Nat
         /\ decision.recommended_amount <= application.amount
         /\ decision.is_counteroffer =>
              /\ MinAmount <= decision.recommended_amount
              /\ decision.recommended_amount < application.amount
              /\ decision.recommended_amount <= decision.maximum_amount
<1> DEFINE payroll == View["payroll"]
           f == FactorFor(application, GradeOf(score))
           capacity == MaxInstalment(application, payroll)
           a == Assessment(application, View, score)
           d == decide(tenant, application, View, score)
           rec == d.recommended_amount
<1>1. application \in Intake /\ answers # None /\ decision = Outcome(score)
  BY PipelineAssumption DEF PipelineInv, Approved, Decided
<1>2. payroll \in Payloads["payroll"] \cup {None}
  BY <1>1, ViewIsTyped DEF Partners
<1>3. f \in Factors
  BY <1>1, FactorsAreFactors
<1>4. capacity \in Nat
  BY <1>1, <1>2, CapacityMeansAffordable
<1>5. /\ decision.recommended_amount = rec /\ d.outcome = "APPROVE"
      /\ decision.is_counteroffer = d.is_counteroffer
      /\ decision.maximum_amount = d.maximum_amount
      /\ decision.instalment = d.instalment
  BY <1>1, OutcomeKeepsTheOffer DEF Approved
<1>6. /\ Fired(tenant, application, View) = {}
      /\ rec = IF a.affordable THEN application.amount ELSE RoundToIncrement(a.max_amount)
      /\ ~a.affordable => a.max_amount >= MinAmount
      /\ d.is_counteroffer = TRUE => ~a.affordable
      /\ d.maximum_amount = a.max_amount
      /\ d.instalment = InstalmentFor(rec, f)
  <2>1. ApprovedOffer(tenant, application, View, score)
    BY <1>5, ApprovalShape
  <2> QED
    BY <2>1 DEF ApprovedOffer
<1>7. application.amount \in MinAmount .. MaxAmount
  BY <1>6, NoRuleMeansInRange
<1>8. /\ a.affordable <=> InstalmentFor(application.amount, f) <= capacity
      /\ a.max_amount = Least(PrincipalFor(capacity, f), MaxAmount)
  BY DEF Assessment, assess
<1> USE AffordabilityAssumption
<1>9. PrincipalFor(capacity, f) \in Nat
  BY <1>3, <1>4, PrincipalIsFloor
<1>10. a.max_amount \in Nat /\ a.max_amount <= PrincipalFor(capacity, f) /\ a.max_amount <= MaxAmount
  BY <1>8, <1>9 DEF Least
<1> HIDE DEF payroll, f, capacity, a, d, rec
<1>11. ASSUME NEW q \in Nat \ {0} PROVE InstalmentFor(q, f) \in Nat \ {0}
  <2>1. f.num \in Nat \ {0} /\ f.den \in Nat \ {0} /\ f.up \in {0, 1}
    BY <1>3 DEF Factors
  <2> DEFINE z == q * f.num
             c == CeilDiv(z, f.den)
  <2>2. z \in Nat \ {0}
    BY <2>1
  <2>3. c \in Nat /\ z <= f.den * c
    BY <2>1, <2>2, CeilingCovers
  <2>4. InstalmentFor(q, f) = c + (IF q > 0 /\ z % f.den = 0 THEN f.up ELSE 0)
    BY DEF InstalmentFor
  <2> HIDE DEF z, c
  <2>5. c # 0
    <3>1. f.den * 0 = 0
      BY <2>1
    <3> QED
      BY <2>2, <2>3, <3>1
  <2> QED
    BY <2>1, <2>3, <2>4, <2>5
<1>12. CASE a.affordable
  <2>1. rec = application.amount /\ rec \in Nat \ {0}
    BY <1>6, <1>7, <1>12
  <2>2. InstalmentFor(rec, f) \in Nat \ {0}
    BY <1>11, <2>1
  <2>3. InstalmentFor(rec, f) <= capacity
    BY <1>8, <1>12, <2>1
  <2>4. d.is_counteroffer # TRUE
    BY <1>6, <1>12
  <2>5. /\ decision.recommended_amount \in Nat
        /\ decision.recommended_amount <= application.amount
    BY <1>5, <1>7, <2>1
  <2>6. /\ decision.instalment \in Nat \ {0} /\ decision.instalment <= capacity
        /\ ~decision.is_counteroffer
    BY <1>5, <1>6, <2>2, <2>3, <2>4
  <2> QED
    BY <1>1, <1>2, <2>5, <2>6 DEF payroll, capacity
<1>13. CASE ~a.affordable
  <2>1. rec = RoundToIncrement(a.max_amount) /\ MinAmount <= a.max_amount
    BY <1>6, <1>10, <1>13
  <2>2. rec \in Offerable /\ rec <= a.max_amount /\ MinAmount <= rec
    BY <1>10, <2>1, RoundedIsOfferable
  <2>3. rec \in Nat \ {0}
    BY <2>2 DEF Offerable
  <2>4. rec <= PrincipalFor(capacity, f)
    BY <1>9, <1>10, <2>2, <2>3
  <2>5. f.up = 1 => (rec * f.num) % f.den # 0
    BY <1>1, <2>2, ExactHitsAreNotOffered, FactorsAreFactors DEF f, FactorFor
  <2>6. InstalmentFor(rec, f) \in Nat \ {0} /\ InstalmentFor(rec, f) <= capacity
    BY <1>3, <1>4, <1>11, <2>3, <2>4, <2>5, AllowedPrincipalIsServiceable
  <2>7. rec < application.amount
    <3>1. SUFFICES ASSUME application.amount <= rec PROVE FALSE
      BY <1>7, <2>3
    <3>2. application.amount \in Nat \ {0} /\ InstalmentFor(application.amount, f) \in Nat \ {0}
      BY <1>7, <1>11
    <3>3. ~(InstalmentFor(application.amount, f) <= capacity)
      BY <1>8, <1>13
    <3>4. InstalmentFor(application.amount, f) <= InstalmentFor(rec, f)
      <4>1. CASE application.amount = rec
        BY <2>6, <4>1
      <4>2. CASE application.amount # rec
        <5>1. application.amount < rec
          BY <2>3, <3>1, <3>2, <4>2
        <5> QED
          BY <1>3, <2>3, <3>2, <5>1, InstalmentIsMonotone
      <4> QED
        BY <4>1, <4>2
    <3> QED
      BY <1>4, <2>6, <3>2, <3>3, <3>4
  <2>8. rec <= application.amount
    BY <1>7, <2>3, <2>7
  <2> QED
    BY <1>1, <1>2, <1>5, <1>6, <2>2, <2>3, <2>6, <2>7, <2>8 DEF payroll, capacity
<1> QED
  BY <1>12, <1>13

(* What is offered can be repaid: an approved instalment, requested or      *)
(* counteroffered, with existing debt stays under the debt service ceiling  *)
(* and leaves the buffer after living costs (assess and decide of core).    *)
THEOREM OffersAreWithinCapacity == Spec => []OfferWithinCapacity
<1>1. PipelineInv => OfferWithinCapacity
  <2> SUFFICES ASSUME PipelineInv, Approved
               PROVE  LET income == VerifiedIncome(application, View["payroll"])
                      IN /\ Existing(application) + decision.instalment <= Percent(income, MaxDsr)
                         /\ ModelledExpenses(application, income) + Existing(application)
                              + decision.instalment + MinDisposable <= income
    BY DEF OfferWithinCapacity
  <2>1. /\ application \in Intake
        /\ View["payroll"] \in Payloads["payroll"] \cup {None}
        /\ decision.instalment \in Nat \ {0}
        /\ decision.instalment <= MaxInstalment(application, View["payroll"])
    BY ApprovalFacts
  <2> QED
    BY <2>1, CapacityMeansAffordable
<1> QED
  BY <1>1, PipelineInvHolds, PTL

(* A counteroffer is less than what was asked for, at least the product's   *)
(* minimum and at most the maximum the decision names.                      *)
THEOREM CounteroffersAreLess == Spec => []CounterofferIsLess
<1>1. PipelineInv => CounterofferIsLess
  BY ApprovalFacts DEF CounterofferIsLess
<1> QED
  BY <1>1, PipelineInvHolds, PTL

(* The decisioning run's invariant on offers, for every product, price      *)
(* table and applicant.                                                     *)
THEOREM OffersAreSound == Spec => []OfferIsSound
<1>1. OfferWithinCapacity /\ CounterofferIsLess => OfferIsSound
  BY DEF OfferIsSound
<1>2. QED
  BY OffersAreWithinCapacity, CounteroffersAreLess, <1>1, PTL

-----------------------------------------------------------------------------
(* Missing partner data.                                                    *)

(* A matching rule is among the codes of the rules that fired.              *)
LEMMA RulesFire ==
  ASSUME NEW t, NEW x, NEW view
  PROVE  /\ thin_file(view.bureau) => "THIN_CREDIT_FILE" \in Fired(t, x, view)
         /\ ~(view.ekyc # None /\ view.ekyc.verified) =>
              "UNABLE_TO_VERIFY_IDENTITY" \in Fired(t, x, view)
         /\ view.aml # None /\ view.aml.sanctions_hit =>
              "SANCTIONS_MATCH" \in Fired(t, x, view)
         /\ view.fraud # None /\ view.fraud.confirmed =>
              "CONFIRMED_FRAUD" \in Fired(t, x, view)
         /\ t.payroll_product /\ ~(view.payroll # None /\ view.payroll.verified) =>
              "UNABLE_TO_VERIFY_EMPLOYMENT" \in Fired(t, x, view)
<1> DEFINE common == CommonRules(view, age_years(x))
           months == employment_months(x, view.payroll)
<1>1. Matching(common) \subseteq Fired(t, x, view)
  BY DEF Fired
<1>2. t.payroll_product => Matching(PayrollRules(view, months)) \subseteq Fired(t, x, view)
  BY DEF Fired
<1>3. \A code \in {"THIN_CREDIT_FILE", "UNABLE_TO_VERIFY_IDENTITY", "SANCTIONS_MATCH",
                   "CONFIRMED_FRAUD"} :
        common[code] => code \in Matching(common)
  BY DEF CommonRules, Matching
<1>4. PayrollRules(view, months)["UNABLE_TO_VERIFY_EMPLOYMENT"] =>
        "UNABLE_TO_VERIFY_EMPLOYMENT" \in Matching(PayrollRules(view, months))
  BY DEF PayrollRules, Matching
<1>5. /\ common["THIN_CREDIT_FILE"] = thin_file(view.bureau)
      /\ common["UNABLE_TO_VERIFY_IDENTITY"] = ~(view.ekyc # None /\ view.ekyc.verified)
      /\ common["SANCTIONS_MATCH"] = (view.aml # None /\ view.aml.sanctions_hit)
      /\ common["CONFIRMED_FRAUD"] = (view.fraud # None /\ view.fraud.confirmed)
      /\ PayrollRules(view, months)["UNABLE_TO_VERIFY_EMPLOYMENT"] =
           ~(view.payroll # None /\ view.payroll.verified)
  BY DEF CommonRules, PayrollRules
<1> HIDE DEF common, months
<1> QED
  BY <1>1, <1>2, <1>3, <1>4, <1>5

(* A hard decline rule decides over every other rule.                       *)
LEMMA HardRuleDecides ==
  ASSUME NEW t, NEW x, NEW view, NEW s,
         NEW code \in {"SANCTIONS_MATCH", "CONFIRMED_FRAUD"}, code \in Fired(t, x, view)
  PROVE  decide(t, x, view, s).outcome = "DECLINE" /\ decide(t, x, view, s).decline_type = "hard"
<1> DEFINE fired == Fired(t, x, view)
           kinds == {Kind[c] : c \in fired}
<1>1. Kind[code] = "hard_decline"
  BY DEF Kind
<1>2. "hard_decline" \in kinds
  BY <1>1
<1>3. Precedence[1] = "hard_decline"
  BY DEF Precedence
<1>4. \A i \in 1 .. 4 :
        (Precedence[i] \in kinds /\ \A j \in 1 .. i - 1 : Precedence[j] \notin kinds) <=> i = 1
  <2> HIDE DEF kinds
  <2> QED
    BY <1>2, <1>3
<1>5. Decisive(fired) = "hard_decline"
  <2> DEFINE first == CHOOSE i \in 1 .. 4 :
                        Precedence[i] \in kinds /\ \A j \in 1 .. i - 1 : Precedence[j] \notin kinds
  <2>1. first = 1
    BY <1>4
  <2>2. Decisive(fired) = Precedence[first]
    BY DEF Decisive
  <2> QED
    BY <1>3, <2>1, <2>2
<1> HIDE DEF kinds
<1>6. PolicyGate(fired) =
        Verdict("DECLINE", "hard", {c \in fired : Kind[c] = "hard_decline"}, 0)
  BY <1>5 DEF PolicyGate
<1>7. \A a : Gates(fired, s, view, x, a) = PolicyGate(fired)
  BY DEF Gates
<1> QED
  BY <1>6, <1>7 DEF decide, Verdict

(* Without an approval decide() names no amount and no instalment.          *)
LEMMA NoOfferInARefusal ==
  ASSUME NEW t, NEW x, NEW view, NEW s, decide(t, x, view, s).outcome # "APPROVE"
  PROVE  decide(t, x, view, s).recommended_amount = 0 /\ decide(t, x, view, s).instalment = None
<1> DEFINE a == Assessment(x, view, s)
           fired == Fired(t, x, view)
           verdict == Gates(fired, s, view, x, a)
<1>1. /\ decide(t, x, view, s).outcome = verdict.outcome
      /\ decide(t, x, view, s).recommended_amount = verdict.recommended_amount
      /\ verdict.outcome # "APPROVE" => decide(t, x, view, s).instalment = None
  BY DEF decide
<1>2. PolicyGate(fired).recommended_amount = 0
  BY DEF PolicyGate, Verdict
<1>3. ScoreGate(s, view).recommended_amount = 0
  BY DEF ScoreGate, Verdict
<1>4. Offer(x, a).outcome # "APPROVE" => Offer(x, a).recommended_amount = 0
  BY DEF Offer, Verdict
<1>5. verdict \in {PolicyGate(fired), ScoreGate(s, view), Offer(x, a)}
  BY DEF Gates
<1> HIDE DEF verdict, a, fired
<1> QED
  BY <1>1, <1>2, <1>3, <1>4, <1>5

(* Where the tenant's degradation policy applies, the bureau record is      *)
(* missing and so the engine has not approved: the policy leaves a decline  *)
(* as it is and never meets an offer.                                       *)
LEMMA DegradedIsNotApproved ==
  ASSUME Degraded, NEW s
  PROVE  decide(tenant, application, View, s).outcome # "APPROVE"
<1>1. View["bureau"] = None
  BY DEF Degraded, View, Partners
<1>2. "THIN_CREDIT_FILE" \in Fired(tenant, application, View)
  <2>1. thin_file(View.bureau)
    BY <1>1 DEF thin_file
  <2> QED
    BY <2>1, RulesFire
<1>3. SUFFICES ASSUME decide(tenant, application, View, s).outcome = "APPROVE" PROVE FALSE
  OBVIOUS
<1>4. ApprovedOffer(tenant, application, View, s)
  BY <1>3, ApprovalShape
<1> QED
  BY <1>2, <1>4 DEF ApprovedOffer

(* Only an approval carries an amount and an instalment, degraded or not    *)
(* (_apply_degradation rewrites the outcome and keeps the pricing).         *)
THEOREM OffersAreApproved == Spec => []NoOfferUnlessApproved
<1>1. PipelineInv => NoOfferUnlessApproved
  <2> SUFFICES ASSUME PipelineInv, Decided, ~Approved
               PROVE  decision.recommended_amount = 0 /\ decision.instalment = None
    BY DEF NoOfferUnlessApproved
  <2> DEFINE d == decide(tenant, application, View, score)
  <2>1. decision = Outcome(score) /\ decision.outcome # "APPROVE"
    BY DEF PipelineInv, Decided, Approved
  <2>2. /\ decision.recommended_amount = d.recommended_amount
        /\ decision.instalment = d.instalment
    BY <2>1 DEF Outcome, ApplyDegradation, decide
  <2>3. d.outcome # "APPROVE"
    <3>1. CASE Degraded
      BY <3>1, DegradedIsNotApproved
    <3>2. CASE ~Degraded
      BY <2>1, <3>2 DEF Outcome
    <3> QED
      BY <3>1, <3>2
  <2> QED
    BY <2>2, <2>3, NoOfferInARefusal
<1> QED
  BY <1>1, PipelineInvHolds, PTL

(* A sanctions match or confirmed fraud is a hard decline whatever else is  *)
(* missing and whatever the degradation policy (decision.py gate one,       *)
(* _apply_degradation).                                                     *)
THEOREM HardDeclinesStand == Spec => []HardDeclineStands
<1>1. PipelineInv => HardDeclineStands
  <2> SUFFICES ASSUME PipelineInv, Decided,
                      \/ View["aml"] # None /\ View["aml"].sanctions_hit
                      \/ View["fraud"] # None /\ View["fraud"].confirmed
               PROVE  decision.outcome = "DECLINE" /\ decision.decline_type = "hard"
    BY DEF HardDeclineStands
  <2> DEFINE d == decide(tenant, application, View, score)
  <2>1. PICK code \in {"SANCTIONS_MATCH", "CONFIRMED_FRAUD"} :
          code \in Fired(tenant, application, View)
    BY RulesFire
  <2>2. d.outcome = "DECLINE" /\ d.decline_type = "hard"
    BY <2>1, HardRuleDecides
  <2>3. decision = Outcome(score)
    BY DEF PipelineInv, Decided
  <2> QED
    BY <2>2, <2>3 DEF Outcome, ApplyDegradation, decide
<1> QED
  BY <1>1, PipelineInvHolds, PTL

(* Nobody is approved on data that is not there: an approval had a bureau   *)
(* record, a verified identity, the mandatory features and, for a payroll   *)
(* product, a payroll verification.                                         *)
THEOREM ApprovalsAreEvidenced == Spec => []ApprovalIsEvidenced
<1>1. PipelineInv => ApprovalIsEvidenced
  <2> SUFFICES ASSUME PipelineInv, Approved
               PROVE  /\ View["bureau"] # None
                      /\ View["ekyc"] # None /\ View["ekyc"].verified
                      /\ application.age # None /\ application.income > 0
                      /\ tenant.payroll_product =>
                           View["payroll"] # None /\ View["payroll"].verified
    BY DEF ApprovalIsEvidenced
  <2>1. decision = Outcome(score) /\ score \in ScoresNow /\ application \in Intake
    BY PipelineAssumption DEF PipelineInv, Approved, Decided
  <2>2. decide(tenant, application, View, score).outcome = "APPROVE"
    BY <2>1, OutcomeKeepsTheOffer DEF Approved
  <2>3. ApprovedOffer(tenant, application, View, score)
    BY <2>2, ApprovalShape
  <2>4. Fired(tenant, application, View) = {} /\ score # None
    BY <2>3 DEF ApprovedOffer
  <2>5. ~thin_file(View.bureau)
    BY <2>4, RulesFire
  <2>6. View.ekyc # None /\ View.ekyc.verified
    BY <2>4, RulesFire
  <2>7. tenant.payroll_product => View.payroll # None /\ View.payroll.verified
    BY <2>4, RulesFire
  <2>8. ~Blocked(application)
    BY <2>1, <2>4 DEF ScoresNow
  <2>9. application.age # None /\ application.income > 0
    BY <2>1, <2>8 DEF Blocked, Intake
  <2> QED
    BY <2>5, <2>6, <2>7, <2>9 DEF thin_file
<1> QED
  BY <1>1, PipelineInvHolds, PTL

-----------------------------------------------------------------------------
(* Better scores and keener rates.                                          *)

\* A factor that makes every loan cheaper.
Keener(e, f) == e.num * f.den < f.num * e.den

(* A positive factor cancels out of a comparison.                           *)
LEMMA Cancel ==
  ASSUME NEW a \in Nat \ {0}, NEW p \in Int, NEW q \in Int, a * p < a * q
  PROVE  p < q
<1>1. SUFFICES ASSUME q <= p PROVE FALSE
  OBVIOUS
<1>2. a * q <= a * p
  BY <1>1, Monotone
<1>3. a * p \in Int /\ a * q \in Int
  OBVIOUS
<1> QED
  BY <1>2, <1>3

(* A positive factor keeps a strict comparison.                             *)
LEMMA StrictlyMonotone ==
  ASSUME NEW a \in Nat \ {0}, NEW p \in Int, NEW q \in Int, p < q
  PROVE  a * p < a * q
<1>1. a * (p + 1) <= a * q
  BY Monotone
<1>2. a * (p + 1) = a * p + a /\ a * p \in Int /\ a * q \in Int
  OBVIOUS
<1> QED
  BY <1>1, <1>2

(* At a keener factor an instalment services no less, the last digit of the *)
(* decimal quotient included.                                               *)
LEMMA KeenerPrincipal ==
  ASSUME NEW i \in Nat, NEW e \in Factors, NEW f \in Factors, Keener(e, f)
  PROVE  PrincipalFor(i, f) <= PrincipalFor(i, e)
<1>1. /\ e.num \in Nat \ {0} /\ e.den \in Nat \ {0} /\ e.down \in {0, 1}
      /\ f.num \in Nat \ {0} /\ f.den \in Nat \ {0}
  BY DEF Factors
<1> DEFINE x == i * f.den
           y == i * e.den
           q == x \div f.num
           k == y \div e.num
<1>2. x \in Nat /\ y \in Nat
  BY <1>1
<1>3. q \in Nat /\ f.num * q <= x
  BY <1>1, <1>2, Division
<1>4. k \in Nat /\ y < e.num * k + e.num /\ (y % e.num = 0 <=> y = e.num * k)
  BY <1>1, <1>2, Division
<1>5. PrincipalFor(i, f) \in Nat /\ PrincipalFor(i, f) <= q
  BY PrincipalIsFloor
<1>6. PrincipalFor(i, e) = k - (IF i > 0 /\ y % e.num = 0 THEN e.down ELSE 0)
  BY DEF PrincipalFor
<1>7. CASE i = 0
  <2>1. x = 0 /\ y = 0
    BY <1>1, <1>7
  <2>2. PrincipalFor(i, e) = k
    BY <1>4, <1>6, <1>7
  <2>3. q = 0
    <3>1. SUFFICES ASSUME q >= 1 PROVE FALSE
      BY <1>3
    <3>2. f.num * 1 <= f.num * q
      BY <1>1, <1>3, <3>1, Monotone
    <3>3. f.num * q \in Nat
      BY <1>1, <1>3
    <3> HIDE DEF q, x
    <3> QED
      BY <1>1, <1>3, <2>1, <3>2, <3>3
  <2> HIDE DEF q, k
  <2> QED
    BY <1>4, <1>5, <2>2, <2>3
<1>8. CASE i # 0
  <2>1. e.num * q < y
    <3> DEFINE u == e.num * f.den
               v == f.num * e.den
    <3>1. u \in Nat /\ v \in Nat /\ u < v
      BY <1>1 DEF Keener
    <3>2. i * u < i * v
      <4> HIDE DEF u, v
      <4> QED
        BY <1>8, <3>1, StrictlyMonotone
    <3>3. i * u = e.num * x /\ i * v = f.num * y
      BY <1>1
    <3>4. e.num * (f.num * q) <= e.num * x
      <4> HIDE DEF x, q
      <4>1. f.num * q \in Nat
        BY <1>1, <1>3
      <4> QED
        BY <1>1, <1>2, <1>3, <4>1, Monotone
    <3>5. e.num * (f.num * q) = f.num * (e.num * q)
      <4> HIDE DEF q
      <4> QED
        BY <1>1, <1>3
    <3> HIDE DEF u, v, x, y, q
    <3>6. /\ e.num * x \in Int /\ f.num * y \in Int
          /\ f.num * (e.num * q) \in Int /\ e.num * q \in Int
      BY <1>1, <1>2, <1>3
    <3>7. f.num * (e.num * q) < f.num * y
      BY <3>2, <3>3, <3>4, <3>5, <3>6
    <3> QED
      BY <1>1, <1>2, <3>6, <3>7, Cancel
  <2> HIDE DEF x, y, q, k
  <2>2. q <= k
    <3>1. e.num * (k + 1) = e.num * k + e.num /\ e.num * k \in Int /\ e.num * q \in Int
      BY <1>1, <1>3, <1>4
    <3>2. e.num * q < e.num * (k + 1)
      BY <1>1, <1>2, <1>4, <2>1, <3>1
    <3>3. q < k + 1
      BY <1>1, <1>3, <1>4, <3>2, Cancel
    <3> QED
      BY <1>3, <1>4, <3>3
  <2>3. y % e.num = 0 => q < k
    BY <1>1, <1>3, <1>4, <2>1, Cancel
  <2> QED
    BY <1>1, <1>3, <1>4, <1>5, <1>6, <2>2, <2>3
<1> QED
  BY <1>7, <1>8

(* At a keener factor the instalment of a principal is no higher.           *)
LEMMA KeenerInstalment ==
  ASSUME NEW p \in Nat, NEW e \in Factors, NEW f \in Factors, Keener(e, f)
  PROVE  /\ InstalmentFor(p, e) \in Nat
         /\ InstalmentFor(p, f) \in Nat
         /\ InstalmentFor(p, e) <= InstalmentFor(p, f)
<1>1. /\ e.num \in Nat \ {0} /\ e.den \in Nat \ {0} /\ e.up \in {0, 1}
      /\ f.num \in Nat \ {0} /\ f.den \in Nat \ {0} /\ f.up \in {0, 1}
  BY DEF Factors
<1> DEFINE x == p * e.num
           y == p * f.num
           b == CeilDiv(x, e.den)
           c == CeilDiv(y, f.den)
<1>2. x \in Nat /\ y \in Nat
  BY <1>1
<1>3. c \in Nat /\ y <= f.den * c
  BY <1>1, <1>2, CeilingCovers
<1>4. b \in Nat
  BY <1>1, <1>2, CeilingCovers
<1>5. /\ InstalmentFor(p, e) = b + (IF p > 0 /\ x % e.den = 0 THEN e.up ELSE 0)
      /\ InstalmentFor(p, f) = c + (IF p > 0 /\ y % f.den = 0 THEN f.up ELSE 0)
  BY DEF InstalmentFor
<1>6. CASE p = 0
  <2>1. x = 0 /\ y = 0
    BY <1>1, <1>6
  <2>2. b <= 0
    <3>1. x <= 0 * e.den
      BY <1>1, <2>1
    <3> HIDE DEF x
    <3> QED
      BY <1>1, <1>2, <3>1, CeilingIsLeast
  <2> HIDE DEF b, c
  <2> QED
    BY <1>3, <1>4, <1>5, <1>6, <2>2
<1>7. CASE p # 0
  <2>1. x < e.den * c
    <3> DEFINE u == e.num * f.den
               v == f.num * e.den
    <3>1. u \in Nat /\ v \in Nat /\ u < v
      BY <1>1 DEF Keener
    <3>2. p * u < p * v
      <4> HIDE DEF u, v
      <4> QED
        BY <1>7, <3>1, StrictlyMonotone
    <3>3. p * u = f.den * x /\ p * v = e.den * y
      BY <1>1
    <3>4. e.den * y <= e.den * (f.den * c)
      <4> HIDE DEF y, c
      <4>1. f.den * c \in Nat
        BY <1>1, <1>3
      <4> QED
        BY <1>1, <1>2, <1>3, <4>1, Monotone
    <3>5. e.den * (f.den * c) = f.den * (e.den * c)
      <4> HIDE DEF c
      <4> QED
        BY <1>1, <1>3
    <3> HIDE DEF u, v, x, y, c
    <3>6. /\ f.den * x \in Int /\ e.den * y \in Int
          /\ f.den * (e.den * c) \in Int /\ e.den * c \in Int
      BY <1>1, <1>2, <1>3
    <3>7. f.den * x < f.den * (e.den * c)
      BY <3>2, <3>3, <3>4, <3>5, <3>6
    <3> QED
      BY <1>1, <1>2, <3>6, <3>7, Cancel
  <2> HIDE DEF x, y, c
  <2>2. b <= c
    <3>1. x <= c * e.den
      <4>1. c * e.den = e.den * c /\ e.den * c \in Int
        BY <1>1, <1>3
      <4> QED
        BY <1>2, <2>1, <4>1
    <3> QED
      BY <1>1, <1>2, <1>3, <3>1, CeilingIsLeast
  <2>3. ASSUME x % e.den = 0
        PROVE  b + 1 <= c
    <3> DEFINE k == x \div e.den
    <3>1. k \in Nat /\ x = e.den * k
      BY <1>1, <1>2, <2>3, Division
    <3> HIDE DEF k
    <3>2. b <= k
      <4>1. x <= k * e.den
        BY <1>1, <1>2, <3>1
      <4> QED
        BY <1>1, <1>2, <3>1, <4>1, CeilingIsLeast
    <3>3. k < c
      BY <1>1, <1>3, <2>1, <3>1, Cancel
    <3> HIDE DEF b
    <3> QED
      BY <1>3, <1>4, <3>1, <3>2, <3>3
  <2> HIDE DEF b
  <2> QED
    BY <1>1, <1>3, <1>4, <1>5, <2>2, <2>3
<1> QED
  BY <1>6, <1>7

(* Rounding to the increment keeps the order of amounts.                    *)
LEMMA RoundingIsMonotone ==
  ASSUME NEW m \in Nat, NEW n \in Nat, m <= n
  PROVE  RoundToIncrement(m) \in Nat /\ RoundToIncrement(m) <= RoundToIncrement(n)
<1> USE AffordabilityAssumption, EngineAssumption
<1> DEFINE q == m \div Increment
           k == n \div Increment
<1>1. /\ q \in Nat /\ Increment * q <= m
      /\ k \in Nat /\ n < Increment * k + Increment
  BY Division
<1> HIDE DEF q, k
<1>2. q <= k
  <2>1. Increment * (k + 1) = Increment * k + Increment
        /\ Increment * k \in Int /\ Increment * q \in Int
    BY <1>1
  <2>2. Increment * q < Increment * (k + 1)
    BY <1>1, <2>1
  <2>3. q < k + 1
    BY <1>1, <2>2, Cancel
  <2> QED
    BY <1>1, <2>3
<1>3. Increment * q <= Increment * k
  BY <1>1, <1>2, Monotone
<1>4. /\ q * Increment = Increment * q /\ Increment * q \in Nat
      /\ k * Increment = Increment * k /\ Increment * k \in Nat
  BY <1>1
<1>5. /\ RoundToIncrement(m) = IF q * Increment >= MinAmount THEN q * Increment ELSE MinAmount
      /\ RoundToIncrement(n) = IF k * Increment >= MinAmount THEN k * Increment ELSE MinAmount
  BY DEF RoundToIncrement, q, k
<1> QED
  BY <1>3, <1>4, <1>5

(* A better score never has a worse grade: bands do not overlap and leave   *)
(* no score of the scale out.                                               *)
LEMMA GradeImproves ==
  ASSUME NEW s \in Scores, NEW r \in Scores, s <= r
  PROVE  GradeOf(r) \in Grades /\ GradeOf(s) \in Grades /\ GradeOf(r) <= GradeOf(s)
<1> USE AffordabilityAssumption, EngineAssumption
<1> DEFINE g == GradeOf(s)
           h == GradeOf(r)
<1>1. s \in Nat /\ r \in Nat /\ s # None /\ r # None
  OBVIOUS
<1>2. /\ g \in Grades /\ GradeFloor[g] <= s /\ s <= GradeCeiling[g]
      /\ h \in Grades /\ GradeFloor[h] <= r /\ r <= GradeCeiling[h]
  BY <1>1, GradeIsGrade, BandsAssumption
<1> HIDE DEF g, h
<1>3. /\ GradeFloor[g] \in Nat /\ GradeCeiling[h] \in Nat /\ g \in Nat /\ h \in Nat
  BY <1>2 DEF Grades
<1>4. ~(g < h)
  <2> SUFFICES ASSUME g < h PROVE FALSE
    OBVIOUS
  <2>1. GradeCeiling[h] < GradeFloor[g]
    BY <1>2, BandsAssumption
  <2> QED
    BY <1>1, <1>2, <1>3, <2>1
<1> QED
  BY <1>2, <1>3, <1>4 DEF g, h

(* At a grade as good or better an application is priced at the same factor *)
(* or a keener one.                                                         *)
LEMMA FactorImproves ==
  ASSUME NEW x \in Intake, NEW g \in Grades, NEW h \in Grades, g <= h
  PROVE  \/ FactorFor(x, g) = FactorFor(x, h)
         \/ Keener(FactorFor(x, g), FactorFor(x, h))
<1>1. TenorOf(x) \in Tenors
  BY FactorsAreFactors
<1>2. CASE g = h
  BY <1>2
<1>3. CASE g # h
  <2>1. g < h
    BY <1>3, EngineAssumption DEF Grades
  <2> QED
    BY <1>1, <2>1, PricingAssumption DEF Keener, FactorFor
<1> QED
  BY <1>2, <1>3

(* At a keener factor what is affordable stays so, and the maximum does not *)
(* fall (assess of core/affordability.py: the capacity does not depend on   *)
(* the rate).                                                               *)
LEMMA AssessmentImproves ==
  ASSUME NEW x \in Intake, NEW payroll \in Payloads["payroll"] \cup {None},
         NEW e \in Factors, NEW f \in Factors, e = f \/ Keener(e, f)
  PROVE  /\ assess(x, payroll, f).affordable => assess(x, payroll, e).affordable
         /\ assess(x, payroll, f).max_amount \in Nat
         /\ assess(x, payroll, e).max_amount \in Nat
         /\ assess(x, payroll, f).max_amount <= assess(x, payroll, e).max_amount
<1> USE AffordabilityAssumption
<1> DEFINE capacity == MaxInstalment(x, payroll)
<1>1. capacity \in Nat
  BY CapacityMeansAffordable
<1>2. \A d \in Factors :
        /\ assess(x, payroll, d).affordable <=> InstalmentFor(x.amount, d) <= capacity
        /\ assess(x, payroll, d).max_amount = Least(PrincipalFor(capacity, d), MaxAmount)
  BY DEF assess
<1>3. CASE e = f
  <2>1. PrincipalFor(capacity, f) \in Nat
    BY <1>1, PrincipalIsFloor
  <2>2. assess(x, payroll, f).max_amount \in Nat
    BY <1>2, <2>1 DEF Least
  <2> QED
    BY <1>3, <2>2
<1>4. CASE Keener(e, f)
  <2>1. x.amount \in Nat
    BY DEF Intake
  <2>2. /\ InstalmentFor(x.amount, e) \in Nat /\ InstalmentFor(x.amount, f) \in Nat
        /\ InstalmentFor(x.amount, e) <= InstalmentFor(x.amount, f)
    BY <1>4, <2>1, KeenerInstalment
  <2>3. /\ PrincipalFor(capacity, e) \in Nat /\ PrincipalFor(capacity, f) \in Nat
        /\ PrincipalFor(capacity, f) <= PrincipalFor(capacity, e)
    BY <1>1, <1>4, KeenerPrincipal, PrincipalIsFloor
  <2> HIDE DEF capacity
  <2>4. assess(x, payroll, f).affordable => assess(x, payroll, e).affordable
    BY <1>1, <1>2, <2>2
  <2> QED
    BY <1>2, <2>3, <2>4 DEF Least
<1> QED
  BY <1>3, <1>4

(* A score passes its gate exactly from the accept cut-off (decision.py,    *)
(* gate two).                                                               *)
LEMMA ScorePasses ==
  ASSUME NEW s \in Nat, NEW view
  PROVE  ScoreGate(s, view).outcome = "PASS" <=> s >= AcceptCutoff
<1> USE AffordabilityAssumption, EngineAssumption
<1>1. s # None
  OBVIOUS
<1>2. CASE s >= AcceptCutoff
  BY <1>1, <1>2 DEF ScoreGate, Verdict
<1>3. CASE ~(s >= AcceptCutoff)
  <2>1. s < AcceptCutoff
    BY <1>3
  <2>2. CASE s >= ReferFloor
    BY <1>1, <1>3, <2>1, <2>2 DEF ScoreGate, Verdict
  <2>3. CASE ~(s >= ReferFloor)
    BY <1>1, <1>3, <2>1, <2>3 DEF ScoreGate, Verdict
  <2> QED
    BY <2>2, <2>3
<1> QED
  BY <1>2, <1>3

(* An approved score is one that reaches the accept cut-off.                *)
LEMMA ApprovedScore ==
  ASSUME NEW t, NEW x, NEW view, NEW s \in Nat,
         decide(t, x, view, s).outcome = "APPROVE"
  PROVE  s >= AcceptCutoff
<1> DEFINE a == Assessment(x, view, s)
           verdict == Gates(Fired(t, x, view), s, view, x, a)
<1>1. verdict.outcome = "APPROVE"
  BY DEF decide
<1>2. Fired(t, x, view) = {}
  BY <1>1 DEF Gates, PolicyGate, Verdict
<1>3. CASE ScoreGate(s, view).outcome = "PASS"
  BY <1>3, ScorePasses
<1>4. CASE ScoreGate(s, view).outcome # "PASS"
  BY <1>1, <1>2, <1>4 DEF Gates, ScoreGate, Verdict
<1> QED
  BY <1>3, <1>4

(* The converse: an applicant whom no rule catches, with a passing score    *)
(* and an affordable or saleable amount, is approved for that amount.       *)
LEMMA ApprovedWhen ==
  ASSUME NEW t, NEW x, NEW view, NEW s \in Nat,
         Fired(t, x, view) = {}, s >= AcceptCutoff,
         ~Assessment(x, view, s).affordable =>
           Assessment(x, view, s).max_amount >= MinAmount
  PROVE  LET a == Assessment(x, view, s)
             d == decide(t, x, view, s)
         IN /\ d.outcome = "APPROVE"
            /\ d.maximum_amount = a.max_amount
            /\ d.recommended_amount =
                 IF a.affordable THEN x.amount ELSE RoundToIncrement(a.max_amount)
<1> DEFINE a == Assessment(x, view, s)
           d == decide(t, x, view, s)
           verdict == Gates(Fired(t, x, view), s, view, x, a)
<1>1. verdict = Offer(x, a)
  BY ScorePasses DEF Gates
<1>2. /\ d.outcome = verdict.outcome
      /\ d.maximum_amount = a.max_amount
      /\ d.recommended_amount = verdict.recommended_amount
  BY DEF decide
<1> HIDE DEF a, d, verdict
<1>3. CASE a.affordable
  <2>1. verdict = Verdict("APPROVE", None, {}, x.amount)
    BY <1>1, <1>3 DEF Offer
  <2> QED
    BY <1>2, <1>3, <2>1 DEF Verdict, a, d
<1>4. CASE ~a.affordable
  <2>1. a.max_amount >= MinAmount
    BY <1>4 DEF a
  <2>2. verdict =
          [Verdict("APPROVE", None, {"COUNTEROFFER_REDUCED_AMOUNT"} \cup a.reason_codes,
                   RoundToIncrement(a.max_amount)) EXCEPT !.is_counteroffer = TRUE]
    BY <1>1, <1>4, <2>1 DEF Offer
  <2>3. /\ verdict.outcome = "APPROVE"
        /\ verdict.recommended_amount = RoundToIncrement(a.max_amount)
    BY <2>2 DEF Verdict
  <2> QED
    BY <1>2, <1>4, <2>3 DEF a, d
<1> QED
  BY <1>3, <1>4

(* A better score never costs an applicant an approval, nor lowers the      *)
(* offer or the maximum (decision.py: cut-offs, grades, rates, the          *)
(* affordable maximum and its rounding all work in the same direction).     *)
THEOREM BetterScoresKeepOffers == Spec => []BetterScoreKeepsTheOffer
<1>1. PipelineInv => BetterScoreKeepsTheOffer
  <2> SUFFICES ASSUME PipelineInv, Approved, NEW s \in Scores, s >= score
               PROVE  /\ Outcome(s).outcome = "APPROVE"
                      /\ Outcome(s).recommended_amount >= decision.recommended_amount
                      /\ Outcome(s).maximum_amount >= decision.maximum_amount
    BY DEF BetterScoreKeepsTheOffer
  <2> USE AffordabilityAssumption, EngineAssumption
  <2> DEFINE payroll == View["payroll"]
             e == FactorFor(application, GradeOf(s))
             f == FactorFor(application, GradeOf(score))
             a == assess(application, payroll, f)
             b == assess(application, payroll, e)
  <2>1. /\ application \in Intake /\ payroll \in Payloads["payroll"] \cup {None}
        /\ decision.recommended_amount \in Nat
        /\ decision.recommended_amount <= application.amount
    BY ApprovalFacts
  <2>2. decision = Outcome(score) /\ score \in ScoresNow /\ answers # None
    BY DEF PipelineInv, Approved, Decided
  <2>3. /\ decide(tenant, application, View, score).outcome = "APPROVE"
        /\ decision.recommended_amount = decide(tenant, application, View, score).recommended_amount
        /\ decision.maximum_amount = decide(tenant, application, View, score).maximum_amount
    BY <2>2, OutcomeKeepsTheOffer DEF Approved
  <2>4. Outcome(s) = decide(tenant, application, View, s)
    <3>1. ~Degraded
      BY <2>3, DegradedIsNotApproved
    <3> QED
      BY <3>1 DEF Outcome
  <2>5. /\ Fired(tenant, application, View) = {} /\ score # None
        /\ decision.recommended_amount =
             IF a.affordable THEN application.amount ELSE RoundToIncrement(a.max_amount)
        /\ ~a.affordable => a.max_amount >= MinAmount
        /\ decision.maximum_amount = a.max_amount
    <3>1. ApprovedOffer(tenant, application, View, score)
      BY <2>3, ApprovalShape
    <3>2. Assessment(application, View, score) = a
      BY DEF Assessment
    <3> HIDE DEF a
    <3> QED
      BY <2>3, <3>1, <3>2 DEF ApprovedOffer
  <2>6. score \in Nat /\ s \in Nat
    BY <2>2, <2>5 DEF ScoresNow
  <2>7. s >= AcceptCutoff
    <3>1. score >= AcceptCutoff
      BY <2>3, <2>6, ApprovedScore
    <3> QED
      BY <2>6, <3>1
  <2>8. e \in Factors /\ f \in Factors /\ (e = f \/ Keener(e, f))
    <3>1. /\ GradeOf(s) \in Grades /\ GradeOf(score) \in Grades
          /\ GradeOf(s) <= GradeOf(score)
      BY <2>2, <2>5, <2>6, GradeImproves DEF ScoresNow
    <3> QED
      BY <2>1, <3>1, FactorImproves, FactorsAreFactors
  <2> HIDE DEF e, f
  <2>9. /\ a.affordable => b.affordable
        /\ a.max_amount \in Nat /\ b.max_amount \in Nat
        /\ a.max_amount <= b.max_amount
    BY <2>1, <2>8, AssessmentImproves
  <2>10. /\ Outcome(s).outcome = "APPROVE"
         /\ Outcome(s).maximum_amount = b.max_amount
         /\ Outcome(s).recommended_amount =
              IF b.affordable THEN application.amount ELSE RoundToIncrement(b.max_amount)
    <3>1. Assessment(application, View, s) = b
      BY DEF Assessment, e
    <3> HIDE DEF a, b
    <3>2. ~b.affordable => b.max_amount >= MinAmount
      BY <2>5, <2>9
    <3> QED
      BY <2>4, <2>5, <2>6, <2>7, <3>1, <3>2, ApprovedWhen
  <2> HIDE DEF a, b
  <2>11. Outcome(s).recommended_amount >= decision.recommended_amount
    <3>1. application.amount \in Nat
      BY <2>1 DEF Intake
    <3>2. CASE b.affordable
      BY <2>1, <2>10, <3>1, <3>2
    <3>3. CASE ~b.affordable
      <4>1. decision.recommended_amount = RoundToIncrement(a.max_amount)
        BY <2>5, <2>9, <3>3
      <4>2. /\ RoundToIncrement(a.max_amount) \in Nat
            /\ RoundToIncrement(a.max_amount) <= RoundToIncrement(b.max_amount)
        BY <2>9, RoundingIsMonotone
      <4>3. RoundToIncrement(b.max_amount) \in Nat
        BY <2>9, RoundingIsMonotone
      <4> QED
        BY <2>10, <3>3, <4>1, <4>2, <4>3
    <3> QED
      BY <3>2, <3>3
  <2> QED
    BY <2>5, <2>9, <2>10, <2>11
<1> QED
  BY <1>1, PipelineInvHolds, PTL

(* The maximum of a decision is that of its affordability assessment,       *)
(* whatever gate or degradation policy decided.                             *)
LEMMA MaximumIsAssessed ==
  ASSUME NEW s
  PROVE  Outcome(s).maximum_amount = Assessment(application, View, s).max_amount
<1> DEFINE d == decide(tenant, application, View, s)
<1>1. d.maximum_amount = Assessment(application, View, s).max_amount
  BY DEF decide
<1>2. ApplyDegradation(d).maximum_amount = d.maximum_amount
  <2>1. /\ "maximum_amount" \in DOMAIN d
    BY DEF decide
  <2> HIDE DEF d
  <2> QED
    BY <2>1 DEF ApplyDegradation
<1> HIDE DEF d
<1> QED
  BY <1>1, <1>2 DEF Outcome, d

(* The maximum indicated at prequalification, at the worst rate, is not     *)
(* more than the maximum of the decision that follows, whatever its score,  *)
(* unless a payroll record replaces the declared income (prequalify of      *)
(* core/pipeline.py).                                                       *)
THEOREM PrequalificationIsHonoured == Spec => []PrequalificationHonoured
<1>1. PipelineInv => PrequalificationHonoured
  <2> SUFFICES ASSUME PipelineInv, Decided, View["payroll"] = None
               PROVE  Prequalified(application) <= decision.maximum_amount
    BY DEF PrequalificationHonoured
  <2> USE AffordabilityAssumption, EngineAssumption
  <2> DEFINE e == FactorFor(application, GradeOf(score))
             f == FactorFor(application, LastGrade)
  <2>1. application \in Intake /\ decision = Outcome(score)
    BY PipelineAssumption DEF PipelineInv, Decided
  <2>2. decision.maximum_amount = assess(application, None, e).max_amount
    BY <2>1, MaximumIsAssessed DEF Assessment
  <2>3. Prequalified(application) = assess(application, None, f).max_amount
    BY DEF Prequalified
  <2>4. /\ GradeOf(score) \in Grades /\ LastGrade \in Grades
        /\ GradeOf(score) <= LastGrade
    BY GradeIsGrade DEF Grades
  <2>5. e \in Factors /\ f \in Factors /\ (e = f \/ Keener(e, f))
    BY <2>1, <2>4, FactorImproves, FactorsAreFactors
  <2> HIDE DEF e, f
  <2>6. None \in Payloads["payroll"] \cup {None}
    OBVIOUS
  <2>7. assess(application, None, f).max_amount <= assess(application, None, e).max_amount
    BY <2>1, <2>5, <2>6, AssessmentImproves
  <2> QED
    BY <2>2, <2>3, <2>7
<1> QED
  BY <1>1, PipelineInvHolds, PTL

=============================================================================
