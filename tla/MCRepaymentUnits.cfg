SPECIFICATION Spec
CONSTANTS
  Naira = {60}
  Charges = 7
  Opening = 9000
  Requests = {q1}
  Hooks = {h1}
  Deposits = {d1}
  DepositAmount <- MCDepositAmount
  None = None
  MaxRows = 1
  MaxFaults = 0
INVARIANT
  MovedIsBooked
CHECK_DEADLOCK FALSE
