SPECIFICATION FairSpec
CONSTANTS
  Platform = "posix"
  Slots = 2
  MaxRequests = 4
  SyncRelease = FALSE
  MayDisconnect = TRUE
INVARIANTS NoRequestLost NeedIsBacked NoOvercommit TokensReturned
PROPERTIES AllRequestsServed
