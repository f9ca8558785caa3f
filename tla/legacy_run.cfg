SPECIFICATION FairSpec
CONSTANTS
  Recorders = {"recorder"}
  Payloads = {"result", "log"}
  Attempts = {0, 1}
  MaxEdits = 1
INVARIANTS
  SealValidated
  EvidenceTrue
PROPERTIES
  AttemptsKept
  
  HooksEnd
