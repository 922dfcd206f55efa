SPECIFICATION FairMachineSpec
CONSTANTS
    Trees <- MCTrees
    SizeMax = 16
    Width = 2
    MaxInputs = 3
INVARIANTS
    GenTypeOK
    LabelInv
    ScopesNest
    LabelsDefinedOnce
    JumpsLand
    ControlMatchesTree
    ExitsWithValue
PROPERTIES
    ProgramEnds
