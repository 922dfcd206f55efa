SPECIFICATION DriverSpec
CONSTANTS
    Arguments <- PlainArguments
    Environments <- PlainEnvironments
    References <- MCReferences
    Links <- MCLinks
    Inodes = {i1, i2}
    Sources <- MCSources
    MaxMeddling = 0
    None = None
INVARIANTS
    OutputIsMade
