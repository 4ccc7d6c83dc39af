\* Both methods, a bandwidth that changes, and batches of two examples.
CONSTANTS
  Resolutions <- MCResolutions
  Requests <- MCRequests
  Bandwidths = {200, 900}
  Modes = {TRUE, FALSE}
  Contents = {1}
  Batch = 2
  MaxExamples = 3
  Functions <- MCFunctions
  FileLabels <- MCFileLabels
  FileSize = 2
  MaxEvents <- MCMaxEvents
SPECIFICATION FairSpec
INVARIANTS
  TypeOK
  FitsChannel
  PredictsKnown
  MediaHeld
PROPERTY Adapts
CHECK_DEADLOCK FALSE
