SPECIFICATION FairCompilerSpec
CONSTANTS
    TokenLists <- MCTokenLists
    Trees <- NoTrees
    SizeMax = 16
    MaxLength = 11
    MaxAny = 3
INVARIANTS
    ParserTypeOK
    YieldIsConsumed
    AcceptsGrammar
    DepthBounded
    CompiledInOrder
    OwedInOrder
    OutputAssembles
PROPERTIES
    CompilerTerminates
