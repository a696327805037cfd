CONSTANTS
  Mids = {1, 2}
  MaxLoss = 1
SPECIFICATION Spec
INVARIANT
  AcknowledgedIsPublished
CHECK_DEADLOCK FALSE
