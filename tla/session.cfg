SPECIFICATION SessionSpec
CONSTANTS
  Conn = {c1, c2}
  ApiConn = {}
  MaxSignals = 2
INVARIANTS SessionTypeOK CommandKeepsProxy NoPanic ReceiptSound
PROPERTIES SignalsArrive SessionEnds
CHECK_DEADLOCK FALSE
