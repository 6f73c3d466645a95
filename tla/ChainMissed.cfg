SPECIFICATION ChainSpec
CONSTANTS
  Outpoint = {o1}
  Amount = {1}
  Payment = {1}
  InputFee = 1
  ChangeFee = 1
  Dust = 1
  BnbTries = 100000
  MaxChange = 0
  FilterSize = 2
  MaxHeaders = 4
  MaxTip = 4
INVARIANT NothingMissed
