SPECIFICATION FairSpec
CONSTANTS
  MaxMessages = 2
  Workers = {w1}
  WindowReset = 1
  WindowMax = 2
  MaxAttempts = 1
  MaxVersion = 2
  Nobody = Nobody
INVARIANTS NoMessageStranded QueueInOrder
PROPERTIES InboxSpec EveryMessageSettles
