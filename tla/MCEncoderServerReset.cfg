\* A reset that fails to start the encoder.
CONSTANTS
  c1 = c1
  Clients = {c1}
  Shapes <- TestShapes
  Unsupported = {}
  Rates = {"high"}
  DefaultRate = "high"
  Operations = {"start"}
  Failures = {"create"}
  PromptUI = TRUE
  MaxFds = 2
  MaxMessages = 2
SPECIFICATION Spec
INVARIANTS
  RecordingMeansStreaming
CHECK_DEADLOCK FALSE
