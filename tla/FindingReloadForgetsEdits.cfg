SPECIFICATION Spec
CONSTANTS
  Files = {f1}
  Texts = {t1, t2}
  None = none
  Reloads = TRUE
  MaxInFlight = 2
INVARIANT AnswersMatchDocument
