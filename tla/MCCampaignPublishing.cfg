CONSTANTS
  NoPred = NoPred
  Setups <- MCSetups
  MaxTime = 3
  MaxEvents = 3
SPECIFICATION Spec
INVARIANT ChainResolves
PROPERTIES
  PublishNeverRewritesEarlier
  ForkIsFinal
CHECK_DEADLOCK FALSE
