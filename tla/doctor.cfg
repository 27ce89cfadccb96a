SPECIFICATION DoctorSpec
CONSTANTS
  MaxTurns = 2
  MaxCount = 3
  DefaultCount = 2
  Asked = {0, 4}
INVARIANTS
  DoctorTypeOK ErrorsNeverConfirm FamilySymmetry PromptInterrupt InterruptedIsVague
  UntestedNeverBlamed BlameNeedsContrast GentleProbing FixedNeverRefreshed
  FramesNameTheTest
PROPERTY VerdictGiven
CHECK_DEADLOCK FALSE
