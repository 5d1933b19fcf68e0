CONSTANTS
  NoDate = NoDate
  MaxRuns = 1
  Setups <- OneRun
SPECIFICATION Spec
INVARIANTS ZenithOfTheStep
