CONSTANTS
  HasToken = FALSE
  MaxFaults = 2
  MaxWire = 2
  Nodes = {n1, n2}
  Payloads <- MCPayloads
  Never = Never
  MaxChanges = 3
SPECIFICATION StatusSpec
CHECK_DEADLOCK FALSE
PROPERTIES
  AnswersAreCurrent
  StatusArrives
