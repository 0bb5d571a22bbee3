SPECIFICATION Spec
CONSTANTS
  None = None
  Failed = Failed
  MinAmount = 8
  MaxAmount = 40
  MinTenor = 1
  MaxTenor = 2
  Increment = 5
  MaxAgeAtMaturity = 60
  MaxDsr = 40
  MinDisposable = 5
  ExpenseFloor = 35
  DependantExpense = 3
  Scores = {1, 2, 3, 4, 5}
  AcceptCutoff = 3
  ReferFloor = 2
  LastGrade = 2
  MaxTrouble = 2
  Haircut <- MCHaircut
  GradeFloor <- MCGradeFloor
  GradeCeiling <- MCGradeCeiling
  Tenors <- MCTenors
  Factor <- MCFactor
  Tenants <- MCTenants
  Applications <- MCApplications
  Overrides <- MCOverrides
  Answers <- MCAnswers
INVARIANTS
  OfferIsSound
  ApprovalIsEvidenced
  HardDeclineStands
  NoOfferUnlessApproved
  BetterScoreKeepsTheOffer
  PrequalificationHonoured
