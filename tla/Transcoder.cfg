SPECIFICATION FairSpec
CONSTANTS
    h240 = h240
    h360 = h360
    index = index
    seg = seg
    None = None
    H360 = h360
    Pre = {h360}
    Res = {h240, h360}
    Segs <- OneSegment
    Playlist = index
    MaxPermits = 1
INVARIANTS
    TypeOK
    UploadFindsItsFile
    ListedRungsAreUploaded
    VerifiedFileIsStored
    NothingLeftBehind
PROPERTIES
    ProcessingEnds
CHECK_DEADLOCK FALSE
