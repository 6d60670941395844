CONSTANTS
  SigLen = 2
  MaxCtx = 1
  MemLen = 10
  Word = 16
  MaxCalls = 3
  Messages <- MCMessages
  Contexts <- MCContexts
  Bytes <- MCBytes
  Places = {0, 2, 5}
  OpenPlaces = {0, 2, 5}
  HintN = 5
  HintK = 3
  OMEGA = 3
  N = 8
  SEEDBYTES = 2
  TRBYTES = 3
  K = 2
  L = 1
  Modes = {2, 3, 4, 5}
  WordBits = 21
  Shifts <- MCShifts
SPECIFICATION SignatureSpec
INVARIANTS PackedIsRead AcceptedIsCanonical FieldsAndBytesAgree AcceptedWasSigned RejectedIsCleared
PROPERTY OpenReturnsMessage
CHECK_DEADLOCK FALSE
