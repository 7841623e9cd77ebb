\* Three users, two requests at once, one check, one purpose, one document.
SPECIFICATION Spec
CONSTANTS
  ana = ana
  ben = ben
  eve = eve
  Users <- Three
  r1 = r1
  r2 = r2
  Requests <- Two
  Checks = {holder}
  Purposes = {aadhaar}
  Documents = {d1}
  Stages = {"documents_received", "kyc_verification", "not_required"}
  Closed = {"not_required"}
  None = None
  MaxVersion = 4
  OneBehind = TRUE
  MaxLost = 1
SYMMETRY Alike
INVARIANTS
  IInv
  FourEyes
  ApprovalIsBacked
PROPERTY DecidedStays
CHECK_DEADLOCK FALSE
