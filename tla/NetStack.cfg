CONSTANTS
    Noise = Noise
    Conns = {c1}
    MaxUp = 2
    MaxDown = 2
    TxBuffer = 1
    AppQueue = 1
    InQueue = 2
    MaxIngest = 1
SPECIFICATION FairSpec
INVARIANTS UploadIntact DownloadIntact
PROPERTY Reclaimed
CHECK_DEADLOCK FALSE
