SPECIFICATION Spec
CONSTANTS
    Half <- MCHalf
    MaxDouble = 80
    Scalars <- MCScalars
    Lists <- MCLists
    Texts <- MCTexts
INVARIANTS
    TypeOK
    SetsReadBack
    ArraysReadBack
    CacheAgrees
    ConversionsKeepTheNumber
