CONSTANTS
  NoDate = NoDate
  MaxRuns = 3
  Setups <- AllRuns
SPECIFICATION Spec
INVARIANTS ForcingOfTheDate ReadsInFile OutputsOnTime EndDate
PROPERTIES NamesIncrease DateContinuous
