SPECIFICATION FairSpec
CONSTANTS
  w1 = w1  w2 = w2
  LastEvent = 2
  Poison = {1}
  Workers = {w1, w2}
  MaxRetries = 2
  BatchSize = 1
  UsePubSub = TRUE
  MaxFaults = 1
INVARIANTS NeverStranded SettledWasPublished BuriedAfterRetries
PROPERTIES EveryEventSettles
