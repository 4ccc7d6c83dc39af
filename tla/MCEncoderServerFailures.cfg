\* One client, a late UI thread, and everything that may fail.
CONSTANTS
  c1 = c1
  Clients = {c1}
  Shapes <- FailureShapes
  Unsupported <- RefusedShapes
  Rates = {"low", "high"}
  DefaultRate = "high"
  Operations = {"start", "stop", "update"}
  Failures = {"socket", "create", "init", "deinit", "camera"}
  PromptUI = FALSE
  MaxFds = 2
  MaxMessages = 2
SPECIFICATION FairSpec
INVARIANTS
  Agreement
  LeavesNothing
  CameraServes
PROPERTY
  Streams
CHECK_DEADLOCK FALSE
