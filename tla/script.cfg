SPECIFICATION Spec
CONSTANTS
  Inputs <- AllInputs
  Valid <- Fitting
  Numerals <- NumeralTexts
  BranchNumerals <- BranchTexts
  Limits <- SmallLimits
INVARIANTS
  TypeOK
  AnswersMeaning
PROPERTIES
  SignsOwnScript
  ComputesAsPictured
