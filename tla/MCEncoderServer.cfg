\* Two clients, one by one or at a time, that ask for any size, and a UI thread
\* that keeps up.
CONSTANTS
  c1 = c1
  c2 = c2
  Clients = {c1, c2}
  Shapes <- AllShapes
  Unsupported = {}
  Rates = {"high"}
  DefaultRate = "high"
  Operations = {"start", "stop"}
  Failures = {}
  PromptUI = TRUE
  MaxFds = 4
  MaxMessages = 2
SYMMETRY ClientSymmetry
SPECIFICATION Spec
INVARIANTS
  TypeOK
  EncoderAlive
  FramesFit
  RecordingMeansStreaming
  AllGone
CHECK_DEADLOCK FALSE
