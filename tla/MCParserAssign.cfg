\* Programs with up to two of the shortest statements.
SPECIFICATION ParserSpec
CONSTANTS
    TokenLists <- Documented
    MaxLength = 5
    MaxAny = 0
INVARIANT
    AcceptsDocumented
