SPECIFICATION Spec
CONSTANTS
    LengthOf <- MCLengthOf
    Matches <- MCMatches
    Brackets <- MCBrackets
    AliasBody <- MCAliasBody
    MaxAliasDepth = 4
    InnerSize = 18
    SegmentSize = 36
    LongMax = 80
    Types <- MCTypes
    TypedValues <- MCTypedValues
    Versions <- MCVersions
    Elements <- MCElements
    MaxLength = 2
    Hashes <- MCHashes
    Orders <- MCOrders
INVARIANTS
    TypesRight
    VersionsOrdered
    CollectionsRight
