SPECIFICATION LoaderSpec
CONSTANTS
  Instances = {i1, i2}
  Workers = {w1}
  MaxCalls = 3
  MaxMessages = 1
CHECK_DEADLOCK FALSE
INVARIANT BootSound
INVARIANT GrantedFindsBinding
INVARIANT FallbackStaysOpen
INVARIANT LiveOnMultiThreaded
INVARIANT PoolSound
PROPERTY CallersAreAnswered
