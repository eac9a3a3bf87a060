CONSTANTS
  MaxSize = 3
  Limit = 2
  MaxConns = 2
SPECIFICATION FairSpec
INVARIANTS UploadDelivered DownloadIntact SuccessRecorded
PROPERTIES Released
