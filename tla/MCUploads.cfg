SPECIFICATION FairSpec
CONSTANTS
    c1 = c1
    c2 = c2
    Clients = {c1, c2}
    Bg = Bg
    Nobody = Nobody
    MaxUploads = 2
    Chunks = 1
    MaxCalls = 4
    MaxCleanups = 1
    MaxCrashes = 1
    Expiring = TRUE
INVARIANTS
    OneUploadPerFile
    NameIsFreed
PROPERTIES
    LibraryFileStays
    RequestsEnd
CHECK_DEADLOCK FALSE
