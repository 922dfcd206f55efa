SPECIFICATION MachineSpec
CONSTANTS
    Trees <- MCDivisionTrees
    SizeMax = 16
    Width = 2
    MaxInputs = 3
INVARIANTS
    DivisionDivides
