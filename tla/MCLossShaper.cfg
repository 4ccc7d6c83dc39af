\* Every loss rate, with a counter that overflows past every threshold.
CONSTANTS
  Rates <- AllRates
  RoundedUp = {75, 95}
  IntMax = 127
SPECIFICATION FairSpec
INVARIANTS
  TypeOK
  NeverOverRate
  LosesOften
  Extremes
PROPERTY TakesEffect
