SPECIFICATION DriverSpec
CONSTANTS
    Arguments <- AllArguments
    Environments <- MCEnvironments
    References <- MCReferences
    Links <- MCLinks
    Inodes = {i1, i2, i3}
    Sources <- MCSources
    MaxMeddling = 1
    None = None
INVARIANTS
    DriverTypeOK
    SuccessIsTranslated
    FailureLeavesNothing
    OnlyOutputChanges
