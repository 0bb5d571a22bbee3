--------------------------- MODULE DecisionEngine ---------------------------
(***************************************************************************)
(* From an application and the partner data obtained for it to a decision: *)
(* the mandatory features of core/features.py, the declarative rules of    *)
(* core/config.py and the three gates of core/decision.py.                 *)
(*                                                                         *)
(* Grades are numbered from the best, 1.  Reason codes are kept as a set:  *)
(* the code deduplicates them and every code used is in the library.  The  *)
(* fitted scorecard is data: a score is any member of Scores.              *)
(***************************************************************************)
EXTENDS Affordability

CONSTANTS
  MaxTenor,
  Increment,          \* offer_increment
  MaxAgeAtMaturity,
  Scores,
  GradeFloor,         \* grade -> its min_score
  GradeCeiling,       \* grade -> its max_score
  AcceptCutoff, ReferFloor,
  LastGrade,
  Tenors,             \* the tenors an application may name
  Factor              \* grade -> tenor -> annuity factor at the grade's rate

Grades == 1 .. LastGrade
Offerable == {a \in MinAmount .. MaxAmount : a \in {MinAmount, MaxAmount} \/ a % Increment = 0}

\* Pricing worsens from grade to grade.  No amount that can be offered has an
\* exact instalment at a factor whose quotient comes out above it.
ASSUME EngineAssumption ==
  /\ MaxTenor \in Nat /\ MinTenor <= MaxTenor /\ MinTenor \in Tenors
  /\ Tenors \subseteq Nat
  /\ Increment \in Nat \ {0}
  /\ MaxAgeAtMaturity \in Nat
  /\ LastGrade \in Nat \ {0}
  /\ Scores \subseteq Nat
  /\ GradeFloor \in [Grades -> Nat] /\ GradeCeiling \in [Grades -> Nat]
  /\ AcceptCutoff \in Nat /\ ReferFloor \in Nat /\ ReferFloor <= AcceptCutoff
  /\ Factor \in [Grades -> [Tenors -> Factors]]

ASSUME PricingAssumption ==
  \A g \in Grades, h \in Grades, n \in Tenors : g < h =>
    Factor[g][n].num * Factor[h][n].den < Factor[h][n].num * Factor[g][n].den

ASSUME ExactHitsAreNotOffered ==
  \A g \in Grades, n \in Tenors, a \in Offerable :
    Factor[g][n].up = 1 => (a * Factor[g][n].num) % Factor[g][n].den # 0

\* The bands of a tenant cover its scale and do not overlap (config.py lists
\* them; tests/test_phase1.py asserts it of every tenant).
ASSUME BandsAssumption ==
  /\ \A g \in Grades, h \in Grades : g < h => GradeCeiling[h] < GradeFloor[g]
  /\ \A s \in Scores : \E g \in Grades : GradeFloor[g] <= s /\ s <= GradeCeiling[g]

-----------------------------------------------------------------------------
(* Features and data quality.                                               *)

Clamp(x, low, high) == IF x < low THEN low ELSE Least(x, high)

\* Whole years, brought into the range the feature dictionary declares.
age_years(application) ==
  IF application.age = None THEN None ELSE Clamp(application.age, 18, 100)

employment_months(application, payroll) ==
  IF payroll # None THEN payroll.months ELSE application.employed_months

\* Mutant: an empty bureau answer is not noticed.
thin_file_Never(bureau) == FALSE

thin_file(bureau) == bureau = None

\* The status that keeps an application from being scored.  (DEGRADED and OK
\* differ only in the confidence reported.)
Blocked(application) == application.age = None \/ application.income = 0

-----------------------------------------------------------------------------
(* Rules.  The kind of each by the code it gives as reason, and whether it  *)
(* matches.  Data a partner did not deliver matches nothing, except that    *)
(* identity and payroll then count as not verified.                         *)

Kind == [
  AMOUNT_OUTSIDE_PRODUCT_RANGE |-> "hard_decline",
  TENOR_OUTSIDE_PRODUCT_RANGE  |-> "hard_decline",
  AGE_AT_MATURITY              |-> "hard_decline",
  BELOW_MINIMUM_AGE            |-> "hard_decline",
  SANCTIONS_MATCH              |-> "hard_decline",
  CONFIRMED_FRAUD              |-> "hard_decline",
  UNABLE_TO_VERIFY_IDENTITY    |-> "insufficient",
  UNABLE_TO_VERIFY_EMPLOYMENT  |-> "insufficient",
  RECENT_SERIOUS_DELINQUENCY   |-> "soft_decline",
  PRIOR_DEFAULT_OR_WRITE_OFF   |-> "soft_decline",
  TOO_MANY_RECENT_ENQUIRIES    |-> "refer",
  FRAUD_RISK_REVIEW            |-> "refer",
  THIN_CREDIT_FILE             |-> "refer",
  SHORT_EMPLOYMENT_TENURE      |-> "refer"]

Eligibility(application, age) == [
  AMOUNT_OUTSIDE_PRODUCT_RANGE |-> application.amount \notin MinAmount .. MaxAmount,
  TENOR_OUTSIDE_PRODUCT_RANGE  |-> application.tenor \notin MinTenor .. MaxTenor,
  AGE_AT_MATURITY              |->
    age # None /\ 12 * age + application.tenor > 12 * MaxAgeAtMaturity]

CommonRules(view, age) == [
  BELOW_MINIMUM_AGE          |-> age # None /\ age < 18,
  SANCTIONS_MATCH            |-> view.aml # None /\ view.aml.sanctions_hit,
  CONFIRMED_FRAUD            |-> view.fraud # None /\ view.fraud.confirmed,
  UNABLE_TO_VERIFY_IDENTITY  |-> ~(view.ekyc # None /\ view.ekyc.verified),
  RECENT_SERIOUS_DELINQUENCY |-> view.bureau # None /\ view.bureau.worst_dpd >= 90,
  PRIOR_DEFAULT_OR_WRITE_OFF |-> view.bureau # None /\ view.bureau.prior_default,
  TOO_MANY_RECENT_ENQUIRIES  |-> view.bureau # None /\ view.bureau.enquiries >= 6,
  FRAUD_RISK_REVIEW          |-> view.fraud # None /\ view.fraud.risk_level = "HIGH",
  THIN_CREDIT_FILE           |-> thin_file(view.bureau)]

PayrollRules(view, months) == [
  UNABLE_TO_VERIFY_EMPLOYMENT |-> ~(view.payroll # None /\ view.payroll.verified),
  SHORT_EMPLOYMENT_TENURE     |-> months # None /\ months < 6]

Matching(rules) == {code \in DOMAIN rules : rules[code]}

\* The codes of the rules that match.
Fired(tenant, application, view) ==
  LET age == age_years(application)
      months == employment_months(application, view.payroll)
  IN Matching(Eligibility(application, age)) \cup Matching(CommonRules(view, age))
       \cup (IF tenant.payroll_product THEN Matching(PayrollRules(view, months)) ELSE {})

-----------------------------------------------------------------------------
(* The gates.  A verdict is the outcome so far with its reasons; "PASS"     *)
(* sends the application on to the next gate.                               *)

Verdict(outcome, decline_type, codes, amount) ==
  [outcome |-> outcome, decline_type |-> decline_type, reason_codes |-> codes,
   recommended_amount |-> amount, is_counteroffer |-> FALSE]

Precedence == <<"hard_decline", "insufficient", "soft_decline", "refer">>

\* Mutant: verification comes before the declines that cannot be overridden.
Decisive_InsufficientFirst(fired) ==
  LET kinds == {Kind[code] : code \in fired}
      order == <<"insufficient", "hard_decline", "soft_decline", "refer">>
  IN order[CHOOSE i \in 1 .. 4 :
             order[i] \in kinds /\ \A j \in 1 .. i - 1 : order[j] \notin kinds]

Decisive(fired) ==
  LET kinds == {Kind[code] : code \in fired}
  IN Precedence[CHOOSE i \in 1 .. 4 :
                  Precedence[i] \in kinds /\ \A j \in 1 .. i - 1 : Precedence[j] \notin kinds]

PolicyGate(fired) ==
  LET kind == Decisive(fired)
      codes == {code \in fired : Kind[code] = kind}
  IN CASE kind = "hard_decline" -> Verdict("DECLINE", "hard", codes, 0)
       [] kind = "insufficient" -> Verdict("INSUFFICIENT_INFORMATION", None, codes, 0)
       [] kind = "soft_decline" -> Verdict("DECLINE", "soft", codes, 0)
       [] OTHER                 -> Verdict("REFER", None, codes, 0)

\* What the scorecard itself always reports; its fitted codes are data.
ScoreCodes(view) == IF thin_file(view.bureau) THEN {"NO_BUREAU_RECORD"} ELSE {}

ScoreGate(score, view) ==
  CASE score = None -> Verdict("INSUFFICIENT_INFORMATION", None, {"INSUFFICIENT_INFORMATION"}, 0)
    [] score # None /\ score >= AcceptCutoff -> Verdict("PASS", None, {}, 0)
    [] score # None /\ score < AcceptCutoff /\ score >= ReferFloor ->
         Verdict("REFER", None, ScoreCodes(view) \cup {"SCORE_IN_REFERRAL_BAND"}, 0)
    [] OTHER ->
         Verdict("DECLINE", "score", ScoreCodes(view) \cup {"SCORE_BELOW_CUTOFF"}, 0)

\* Down to a saleable amount, but never below the product's minimum.
RoundToIncrement(amount) ==
  LET rounded == (amount \div Increment) * Increment
  IN IF rounded >= MinAmount THEN rounded ELSE MinAmount

Offer(application, a) ==
  CASE a.affordable -> Verdict("APPROVE", None, {}, application.amount)
    [] ~a.affordable /\ a.max_amount >= MinAmount ->
         [Verdict("APPROVE", None, {"COUNTEROFFER_REDUCED_AMOUNT"} \cup a.reason_codes,
                  RoundToIncrement(a.max_amount)) EXCEPT !.is_counteroffer = TRUE]
    [] OTHER ->
         Verdict("DECLINE", "affordability", a.reason_codes, 0)

Gates(fired, score, view, application, a) ==
  LET scored == ScoreGate(score, view)
  IN IF fired # {} THEN PolicyGate(fired)
     ELSE IF scored.outcome # "PASS" THEN scored
     ELSE Offer(application, a)

-----------------------------------------------------------------------------
(* Grade, annuity factor and the decision.                                  *)

First(grades) == CHOOSE g \in grades : \A h \in grades : g <= h

\* Mutant: the top of a band is left out of it.
GradeOf_TopExcluded(score) ==
  LET matching == {g \in Grades : score # None /\ GradeFloor[g] <= score /\ score < GradeCeiling[g]}
  IN IF matching = {} THEN LastGrade ELSE First(matching)

\* The first grade whose band holds the score; the last when none does, or
\* without a score.
GradeOf(score) ==
  LET matching == {g \in Grades : score # None /\ GradeFloor[g] <= score /\ score <= GradeCeiling[g]}
  IN IF matching = {} THEN LastGrade ELSE First(matching)

\* A tenor of zero stands for the product's shortest.
TenorOf(application) == IF application.tenor = 0 THEN MinTenor ELSE application.tenor

FactorFor(application, grade) == Factor[grade][TenorOf(application)]

\* The affordability the pipeline hands to the engine: at the rate of the
\* grade, or at the product's worst when there is no score.
Assessment(application, view, score) ==
  assess(application, view.payroll, FactorFor(application, GradeOf(score)))

decide(tenant, application, view, score) ==
  LET a == Assessment(application, view, score)
      verdict == Gates(Fired(tenant, application, view), score, view, application, a)
      approved == verdict.outcome = "APPROVE"
  IN [outcome |-> verdict.outcome, decline_type |-> verdict.decline_type,
      reason_codes |-> verdict.reason_codes,
      recommended_amount |-> verdict.recommended_amount,
      is_counteroffer |-> verdict.is_counteroffer,
      maximum_amount |-> a.max_amount,
      grade |-> IF approved THEN GradeOf(score) ELSE None,
      instalment |-> IF approved
                     THEN InstalmentFor(verdict.recommended_amount,
                                        FactorFor(application, GradeOf(score)))
                     ELSE None]
=============================================================================
