SPECIFICATION Spec
CONSTANTS
  k1 = k1
  c1 = c1
  c2 = c2
  a1 = a1
  a2 = a2
  Keys = {k1}
  Claims = {c1, c2}
  Agents = {a1, a2}
  Actors = {a1}
  Policy = "raise"
  Checked = TRUE
  Undated = FALSE
  MaxVersion = 1
  MaxReads = 2
  MaxAttempts = 1
  MaxTasks = 2
  MaxTurns = 1
SYMMETRY Symmetry
INVARIANTS
  ChargesWhatWasRead
  AttemptsAreApart
  EveryReadIsCharged
  CovariatesAreOfTheRun
CHECK_DEADLOCK FALSE
