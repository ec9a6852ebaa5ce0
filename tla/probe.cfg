SPECIFICATION Spec
CONSTANTS
  PHY_MAX_ADDR = 2
  Vals = {0, 1}
  Looks = 2
  ResetLooks = 2
  None = none
  BusyWrite = "restart"
INVARIANTS TypeOK Lifetimes AnswersFit AddressWhileUp
PROPERTIES EveryCallReturns
