------------------------------- MODULE Pipeline -------------------------------
(***************************************************************************)
(* Platform.decide of core/pipeline.py for one application after another:  *)
(* partner retrieval, in which any partner may fail, then features, score, *)
(* affordability and decision, then the tenant's degradation policy.  The  *)
(* ledger writes that follow are DecisionService's.                        *)
(*                                                                         *)
(* Applications are those that intake admits: the API's validation, and    *)
(* batch rows, which may also lack an age or declare a zero income, amount *)
(* or tenor.                                                               *)
(***************************************************************************)
EXTENDS DecisionEngine

CONSTANTS
  Tenants,        \* records of the degradation policy and the product's kind
  Applications,
  Overrides,      \* partner data a request may bring: partial functions
  Answers,        \* partner -> what came of asking it; None is an empty answer
  Failed          \* an attempt that brought no answer

Partners == {"bureau", "ekyc", "aml", "fraud", "payroll"}

\* The answers of which the engine makes use.
Payloads == [
  bureau  |-> [worst_dpd : Nat, prior_default : BOOLEAN, enquiries : Nat],
  ekyc    |-> [verified : BOOLEAN],
  aml     |-> [sanctions_hit : BOOLEAN],
  fraud   |-> [confirmed : BOOLEAN, risk_level : {"LOW", "MEDIUM", "HIGH"}],
  payroll |-> [verified : BOOLEAN, income : Nat \cup {None}, months : Nat]]

Intake == [
  age : Nat \cup {None}, income : Nat, amount : Nat, tenor : Tenors \cup {0},
  debt : Nat \cup {None}, expenses : Nat \cup {None}, dependants : Nat,
  documents : BOOLEAN, employer : BOOLEAN, employed_months : Nat \cup {None}]

ASSUME PipelineAssumption ==
  /\ \A t \in Tenants : /\ t.degradation \in {"refer", "partial", "decline"}
                        /\ t.payroll_product \in BOOLEAN
  /\ Applications \subseteq Intake /\ None \notin Applications
  /\ \A o \in Overrides : /\ DOMAIN o \subseteq Partners
                          /\ \A p \in DOMAIN o : o[p] \in Payloads[p] \cup {None}
  /\ \A r \in Answers, p \in Partners : r[p] \in Payloads[p] \cup {None, Failed}
  /\ None \notin Answers

VARIABLES
  tenant, application, overrides,   \* the request
  answers,                          \* partner_results
  score,
  decision                          \* None until it is made

vars == <<tenant, application, overrides, answers, score, decision>>
request == <<tenant, application, overrides>>

Init ==
  /\ tenant \in Tenants
  /\ application = None
  /\ overrides = << >>
  /\ answers = None
  /\ score = None
  /\ decision = None

-----------------------------------------------------------------------------
Submit(x, o) ==
  /\ application = None
  /\ application' = x /\ overrides' = o
  /\ UNCHANGED <<tenant, answers, score, decision>>

\* retrieve(): all partners at once; payroll is asked only about an employer.
Retrieve(r) ==
  /\ application # None /\ answers = None
  /\ application.employer \/ r["payroll"] = None
  /\ answers' = r
  /\ UNCHANGED <<request, score, decision>>

\* payload(): a failed call contributes nothing.
View ==
  [p \in Partners |->
     IF p \in DOMAIN overrides THEN overrides[p]
     ELSE IF answers[p] = Failed THEN None ELSE answers[p]]

\* Only the bureau's absence is material.
Degraded == "bureau" \notin DOMAIN overrides /\ answers["bureau"] = Failed

ApplyDegradation(d) ==
  LET noted == [d EXCEPT !.reason_codes = @ \cup {"PARTNER_DATA_UNAVAILABLE"}]
  IN CASE tenant.degradation = "refer" /\ d.outcome = "APPROVE" ->
            [noted EXCEPT !.outcome = "REFER"]
       [] tenant.degradation = "decline" /\ d.outcome # "DECLINE" ->
            [noted EXCEPT !.outcome = "DECLINE", !.decline_type = "partner_unavailable"]
       [] OTHER -> noted

\* The decision the platform makes of this request if the score is s.
Outcome(s) ==
  LET d == decide(tenant, application, View, s)
  IN IF Degraded THEN ApplyDegradation(d) ELSE d

\* Mutant: the data-quality status only lowers the confidence.
ScoresNow_Flagged == Scores

\* No score without the mandatory features.
ScoresNow == IF Blocked(application) THEN {None} ELSE Scores

Conclude(s) ==
  /\ answers # None /\ decision = None
  /\ s \in ScoresNow
  /\ score' = s
  /\ decision' = Outcome(s)
  /\ UNCHANGED <<request, answers>>

\* The next application of the tenant.
Done ==
  /\ decision # None
  /\ application' = None /\ overrides' = << >>
  /\ answers' = None /\ score' = None /\ decision' = None
  /\ UNCHANGED tenant

Next ==
  \/ \E x \in Applications, o \in Overrides : Submit(x, o)
  \/ \E r \in Answers : Retrieve(r)
  \/ \E s \in Scores \cup {None} : Conclude(s)
  \/ Done

Spec == Init /\ [][Next]_vars

-----------------------------------------------------------------------------
(* The prequalification of the same applicant: no partner is asked and the  *)
(* rate is the product's worst.                                             *)

\* Mutant: the indication is made at the best rate.
Prequalified_BestRate(x) == assess(x, None, FactorFor(x, 1)).max_amount

Prequalified(x) == assess(x, None, FactorFor(x, LastGrade)).max_amount

-----------------------------------------------------------------------------
(* Properties                                                               *)

Decided == decision # None
Approved == Decided /\ decision.outcome = "APPROVE"

(* The variables keep their types and a decision has one of the contract's  *)
(* outcomes.                                                                *)
TypeOK ==
  /\ tenant \in Tenants
  /\ application \in Applications \cup {None}
  /\ overrides \in Overrides \cup {<< >>}
  /\ answers \in Answers \cup {None}
  /\ score \in Scores \cup {None}
  /\ Decided =>
       /\ decision.outcome \in {"APPROVE", "DECLINE", "REFER", "INSUFFICIENT_INFORMATION"}
       /\ decision.decline_type \in {None, "hard", "soft", "score", "affordability",
                                     "partner_unavailable"}
       /\ (decision.outcome = "DECLINE") = (decision.decline_type # None)

(* What is offered can be repaid: the instalment of the offer, with what    *)
(* the applicant already owes, stays under the debt service ceiling and     *)
(* leaves the required buffer after living costs, whichever of the          *)
(* requested amount and a counteroffer it is, at the rate it is priced at.  *)
(* assess() derives the largest principal from the capacity, decide()       *)
(* rounds it and prices it again.                                           *)
OfferWithinCapacity ==
  Approved =>
    LET income == VerifiedIncome(application, View["payroll"])
    IN /\ Existing(application) + decision.instalment <= Percent(income, MaxDsr)
       /\ ModelledExpenses(application, income) + Existing(application)
            + decision.instalment + MinDisposable <= income

(* A counteroffer offers less than was asked for, no less than the product  *)
(* allows and no more than the decision itself names as the maximum.        *)
CounterofferIsLess ==
  Approved /\ decision.is_counteroffer =>
    /\ MinAmount <= decision.recommended_amount
    /\ decision.recommended_amount < application.amount
    /\ decision.recommended_amount <= decision.maximum_amount

(* Both: an offer can be repaid, and can be sold.                           *)
OfferIsSound == OfferWithinCapacity /\ CounterofferIsLess

(* Nobody is approved on data that is not there: whichever partners failed  *)
(* and whatever the tenant's degradation policy, an approval had a bureau   *)
(* record, a verified identity, the mandatory features and, for a payroll   *)
(* product, a payroll verification.                                         *)
ApprovalIsEvidenced ==
  Approved =>
    /\ View["bureau"] # None
    /\ View["ekyc"] # None /\ View["ekyc"].verified
    /\ application.age # None /\ application.income > 0
    /\ tenant.payroll_product => View["payroll"] # None /\ View["payroll"].verified

(* A sanctions match or confirmed fraud is a hard decline whatever else is  *)
(* missing, unverified or unavailable, and no degradation policy softens    *)
(* or relabels it.                                                          *)
HardDeclineStands ==
  Decided /\ ( \/ View["aml"] # None /\ View["aml"].sanctions_hit
               \/ View["fraud"] # None /\ View["fraud"].confirmed ) =>
    decision.outcome = "DECLINE" /\ decision.decline_type = "hard"

(* Only an approval carries an amount and an instalment.  The degradation   *)
(* policy rewrites the outcome of a priced decision and leaves its offer in *)
(* place, so this rests on no approval ever reaching it.                    *)
NoOfferUnlessApproved ==
  Decided /\ ~Approved =>
    decision.recommended_amount = 0 /\ decision.instalment = None

(* A better score never costs an applicant an approval, nor lowers the      *)
(* offer or the maximum: cut-offs, grades, rates, affordability and         *)
(* rounding work in the same direction.                                     *)
BetterScoreKeepsTheOffer ==
  Approved =>
    \A s \in Scores : s >= score =>
      /\ Outcome(s).outcome = "APPROVE"
      /\ Outcome(s).recommended_amount >= decision.recommended_amount
      /\ Outcome(s).maximum_amount >= decision.maximum_amount

(* The maximum indicated at prequalification is not more than the maximum   *)
(* of the decision that follows, unless a payroll record replaces the       *)
(* declared income: affordability is never indicated at a keener rate than  *)
(* the applicant is offered.                                                *)
PrequalificationHonoured ==
  Decided /\ View["payroll"] = None =>
    Prequalified(application) <= decision.maximum_amount

(* An applicant under the statutory minimum age is not approved (rule       *)
(* R-AGE-01 of core/config.py, a hard decline).                             *)
MinorsNotApproved ==
  Decided /\ application.age # None /\ application.age < 18 => ~Approved

(* A failed fraud check is handled by a rule, or the decision says that     *)
(* data was unavailable (core/pipeline.py on the partners it does not list  *)
(* as material).                                                            *)
FraudOutageIsHandled ==
  Decided /\ answers["fraud"] = Failed /\ "fraud" \notin DOMAIN overrides =>
    ~Approved \/ "PARTNER_DATA_UNAVAILABLE" \in decision.reason_codes
=============================================================================
