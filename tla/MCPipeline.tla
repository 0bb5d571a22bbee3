------------------------------ MODULE MCPipeline ------------------------------
\* Two grades, two permitted tenors and amounts of 8 to 40 in steps of 5; a
\* sample of applicants and every combination of up to MaxTrouble partners
\* that fail, have no record or report something adverse.
EXTENDS Pipeline, FiniteSets

CONSTANT MaxTrouble

MCHaircut == [PAYROLL_VERIFIED |-> 100, DOCUMENTED |-> 70, DECLARED |-> 40]
MCGradeFloor == <<4, 1>>
MCGradeCeiling == <<5, 3>>
MCTenors == {1, 2, 3}
\* The second grade's quotient falls above exact hits.
MCFactor == << [n \in MCTenors |-> AnnuityFactor(1, 20, n, 0, 0)],
               [n \in MCTenors |-> AnnuityFactor(1, 11, n, 1, 0)] >>

MCTenants == { [degradation |-> "refer", payroll_product |-> TRUE],
               [degradation |-> "partial", payroll_product |-> FALSE],
               [degradation |-> "decline", payroll_product |-> FALSE] }

Plain == [age |-> 30, income |-> 75, amount |-> 11, tenor |-> 1, debt |-> None,
          expenses |-> None, dependants |-> 0, documents |-> FALSE,
          employer |-> TRUE, employed_months |-> None]
Burdened == [Plain EXCEPT !.debt = 4, !.expenses = 20, !.dependants = 1]

MCApplications ==
  { [p EXCEPT !.income = i, !.amount = a, !.tenor = t, !.documents = d] :
      p \in {Plain, Burdened}, i \in {30, 75, 100}, a \in {8, 11, 20, 37, 40},
      t \in {1, 2}, d \in BOOLEAN }
  \cup { [Plain EXCEPT !.age = y] : y \in {None, 16, 59, 60, 101} }
  \cup { [Plain EXCEPT !.amount = a] : a \in {0, 7, 41} }
  \cup { [Plain EXCEPT !.tenor = t] : t \in {0, 3} }
  \cup { [Plain EXCEPT !.income = 0], [Plain EXCEPT !.employer = FALSE],
         [Plain EXCEPT !.employed_months = 3] }

Record(dpd, default, enquiries) ==
  [worst_dpd |-> dpd, prior_default |-> default, enquiries |-> enquiries]
Payroll(income, months) == [verified |-> TRUE, income |-> income, months |-> months]

Clean == [bureau |-> Record(0, FALSE, 0), ekyc |-> [verified |-> TRUE],
          aml |-> [sanctions_hit |-> FALSE],
          fraud |-> [confirmed |-> FALSE, risk_level |-> "LOW"],
          payroll |-> Payroll(None, 12)]

MCAnswers ==
  { r \in [ bureau : {Failed, None, Clean.bureau, Record(90, FALSE, 0),
                      Record(0, TRUE, 0), Record(0, FALSE, 6)},
            ekyc : {Failed, Clean.ekyc, [verified |-> FALSE]},
            aml : {Failed, Clean.aml, [sanctions_hit |-> TRUE]},
            fraud : {Failed, Clean.fraud, [confirmed |-> FALSE, risk_level |-> "HIGH"],
                     [confirmed |-> TRUE, risk_level |-> "LOW"]},
            payroll : {Failed, None, Clean.payroll, Payroll(50, 3)} ] :
      Cardinality({p \in Partners : r[p] # Clean[p]}) <= MaxTrouble }

MCOverrides == {<< >>, [bureau |-> Clean.bureau], [payroll |-> Payroll(50, 12)]}
=============================================================================
