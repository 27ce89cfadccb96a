SPECIFICATION TurnSpec
CONSTANTS
  Conn = {c1, c2}
  ApiConn = {c1}
INVARIANTS
  TurnTypeOK RecordsFaithful BlackholeIsNoPath WithheldIsHung
PROPERTIES HandlersDrain TurnEnds
CHECK_DEADLOCK FALSE
