SPECIFICATION WalletSpec
CONSTANTS
  Outpoint = {o1, o2}
  Amount = {1, 4, 6}
  Payment = {3, 5}
  InputFee = 1
  ChangeFee = 1
  Dust = 1
  BnbTries = 100000
  MaxChange = 1
PROPERTY SpendsUnspent
CHECK_DEADLOCK FALSE
