\* Two transfers of any kind, two PASV ports, one waiting connection.
SPECIFICATION FairSpec
CONSTANTS
  MaxTransfers = 2
  MaxPasv = 2
  MaxBacklog = 1
CHECK_DEADLOCK FALSE
INVARIANTS
  TypeOK
  ListingChain
  OneCompletion
  SequentialClient
  PortClosedAfterTransfer
  NoAcceptAfterEnd
  ForeignNotServed
  FileTransferCarriedOn
PROPERTIES EndDestroysSession FileTransferAnswered
