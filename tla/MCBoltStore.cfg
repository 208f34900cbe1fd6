CONSTANTS
    Types = {T1}
    Keys = {k1, k2}
    Fields <- MCFields
    Kind <- MCKind
    BucketField <- MCBucketField
    StrVals = {"a", "b"}
    MapKeys = {"m1"}
    MapVals = {"x", "y"}
    Unsupported = Unsupported
    NilFilter = NilFilter
    Filters <- MCFilters
    NilCallback = NilCallback
    Nil = Nil

SPECIFICATION Spec

INVARIANTS
    TypeOK
    SingleFieldReadMatchesDecode

PROPERTIES
    RefinesRecordStore
