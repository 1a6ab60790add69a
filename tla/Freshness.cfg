SPECIFICATION Spec
CONSTANTS
  Files = {f1}
  Texts = {t1, t2, t3}
  None = none
  Reloads = TRUE
  MaxInFlight = 4
SYMMETRY Symmetry
INVARIANTS
  TypeOK
  StartupAnswersMatchDocument
  UnsavedIsStale
  SymbolsAreCurrent
