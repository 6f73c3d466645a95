CONSTANTS
  Base = 8
  Sample <- MCSample
  MinVersion = 70
  Now = 1000
  MaxDrift = 20
  MaxInv = 3
  Cuts = {0, 1, 23, 24, 25, 60}
  WritePayload <- PayloadWrite
  SizePayload <- PayloadSize
  ReadPayload <- PayloadRead
  Accepted <- PayloadAccepted
  Checksum <- MCChecksum
  BitsPerByte = 3
  P = 4
  M = 7
  HashRange = 8
  Blocks <- MCBlocks
  Queries <- MCQueries
  Keys <- MCKeys
  Values <- MCValues
  Times = {5, 4097}
  Shorts = {0, 3, 8, 12, 13}
  MaxEntries = 2
SPECIFICATION CodecsSpec
INVARIANTS InStep FilterTold FileTold WholeEntryRead
CHECK_DEADLOCK FALSE
