SPECIFICATION Spec
CONSTANTS
  IntMod = 256
  Strings <- MCStrings
  Limit <- Limits
  MCCRisk <- Risks
  DefaultRisk = 50
  DaysBefore <- Before2026
  Overflow = 30000
  QByte = 255
  Requests <- MCRequests
  Misprints <- MCMisprints
  None = None
INVARIANTS
  ReadsWhatIsWritten
  PresentNeverLooksMissing
  QueryMeetsReference
CHECK_DEADLOCK TRUE
