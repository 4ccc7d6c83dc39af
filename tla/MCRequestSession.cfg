\* Impatient users, late answers and failures.
CONSTANTS
  Requests = {"low", "middle", "zero", "bad"}
  Refused = {"bad"}
  Meaning <- MCMeaning
  ClientDefault = "initial"
  ServerDefault = "low"
  TickLimit = 2
  Failures = {"send", "garble", "drop"}
  MaxRequests = 4
SPECIFICATION FairSpec
INVARIANTS
  TypeOK
  Agreement
  OwnAnswers
PROPERTY Ends
CHECK_DEADLOCK FALSE
