CONSTANTS
    Types = {T1}
    Keys = {k1, k2}
    Fields <- MCFields
    Kind <- MCKind
    BucketField <- MCBucketField
    StrVals = {"a", "b"}
    MapKeys = {"m1"}
    MapVals = {"x", "y"}
    Unsupported = Unsupported
    NilFilter = NilFilter
    Filters <- MCFiltersWithMap
    NilCallback = NilCallback
    Nil = Nil

SPECIFICATION Spec

PROPERTIES
    RefinesRecordStore
