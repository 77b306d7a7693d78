CONSTANTS
  PerSec = 2
  Delays = {0, 1, 4}
  MaxDelay = 4
  StepBy <- MCStepBy
  NumSetups = {0, 2, 3}
  NumRepetitions = {0, 1, 2}
  LimitTimes = {0, 1}
SPECIFICATION ExperimentSpec
INVARIANTS
  TimeBudget
  ShortOnlyWhenSlow
