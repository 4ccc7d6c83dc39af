\* A request while an answer is awaited.
CONSTANTS
  Requests = {"low", "middle", "zero", "bad"}
  Refused = {"bad"}
  Meaning <- MCMeaning
  ClientDefault = "initial"
  ServerDefault = "low"
  TickLimit = 2
  Failures = {}
  MaxRequests = 3
SPECIFICATION Spec
INVARIANT
  CurrentWasAccepted
CHECK_DEADLOCK FALSE
