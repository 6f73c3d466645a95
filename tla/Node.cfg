SPECIFICATION FairSpec
CONSTANTS
  Outpoint = {o1, o2, o3}
  Amount = {4}
  Payment = {1}
  InputFee = 1
  ChangeFee = 1
  Dust = 1
  BnbTries = 100000
  MaxChange = 1
  FilterSize = 2
  MaxHeaders = 4
  MaxTip = 3
INVARIANTS TypeOK NodeKeyLast PaymentsFound ChangeTracked BalanceRight NodeInv
PROPERTY CallsReturn
