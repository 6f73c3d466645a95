SPECIFICATION SelectSpec
CONSTANTS
  Outpoint = {o1, o2, o3}
  Amount = {1, 7, 9}
  Payment = {3, 4}
  InputFee = 4
  ChangeFee = 1
  Dust = 1
  BnbTries = 8
  MaxChange = 1
INVARIANTS WalletTypeOK ChangeFresh FeeBounded SelectInv
PROPERTIES ImplementsWallet SelectionEnds
CHECK_DEADLOCK FALSE
