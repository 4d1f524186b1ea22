SPECIFICATION FairLineSpec
CONSTANTS
  txbsz <- const_Size
  Guard <- const_Guard
  MsgLen <- const_MsgLen
  MaxPuts = 5
  MaxConns = 2
INVARIANTS LineTypeOK StreamIntact NothingOverwritten
PROPERTIES  XmteReturns
CHECK_DEADLOCK FALSE
