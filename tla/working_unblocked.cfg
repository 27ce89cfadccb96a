SPECIFICATION DoctorSpec
CONSTANTS
  MaxTurns = 2
  MaxCount = 3
  DefaultCount = 2
  Asked = {0}
INVARIANT WorkingMeansBlocked
CHECK_DEADLOCK FALSE
