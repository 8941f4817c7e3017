SPECIFICATION FairSpec
CONSTANTS
    Calls <- FormCalls
    PathLens <- Lengths
    FileBlocks = 2
    Overlong = TRUE
INVARIANTS TypeOK RepliesMatch InStep SocketsOwned LocalFileKept
PROPERTIES PutLosesStoppedOnly CallsReturn
