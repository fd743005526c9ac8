SPECIFICATION ConfigSpec
CONSTANTS
  Programs = {p, q}
  FeedIds = {1, 2}
  NoFeed = NoFeed
  Keys = {k, l}
  NoKey = NoKey
  MaxUpdates = 2
  MaxTokens = 2
PROPERTIES RevocationHolds NavLostWithCause OldOrdersOnlyAtOldOracle
CHECK_DEADLOCK FALSE
