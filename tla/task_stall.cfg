CONSTANTS
  Handler = {h1, h2}
  Nobody = Nobody
  Permits = 1
  QueueCap = 2
  Workers = 1
  MaxItems = 1
SPECIFICATION FairSpec
PROPERTIES
  EnqueueReturns
CHECK_DEADLOCK FALSE
