SPECIFICATION SessionSpec
CONSTANTS
  Conn = {c1}
  ApiConn = {}
  MaxSignals = 0
INVARIANT NothingMeansNone
CHECK_DEADLOCK FALSE
