----------------------------- MODULE StoreData -----------------------------
(***************************************************************************)
(* Values shared by the abstract record store (RecordStore) and the bolt   *)
(* handler that implements it (BoltStore): the record shape given by the   *)
(* caller's prototype instance, the property maps of UpdateValue, the      *)
(* filter callbacks of LoadValuesByFilter, and the request records that    *)
(* name one call of the BoltHandler interface (store/boltdb, namespace.go  *)
(* lines 233-268).                                                         *)
(***************************************************************************)
EXTENDS Naturals, FiniteSets

CONSTANTS
    Types,        \* values of the typ argument: one top-level bucket each
    Keys,         \* record keys (the unique key of SaveValue)
    Fields,       \* exported fields of the prototype instance
    Kind,         \* Kind[f] \in {"string", "map"}: static kind of field f
    BucketField,  \* toBucketField: field name -> key inside a record bucket
    StrVals,      \* values a string field can hold
    MapKeys,      \* keys of map[string]string fields
    MapVals,      \* values of map[string]string fields
    Unsupported,  \* a property value of a runtime kind UpdateValue ignores
    NilFilter,    \* a nil filter callback
    Filters,      \* filter callbacks passed to LoadValuesByFilter
    NilCallback,  \* a nil process callback of IterateFields
    Nil           \* nil: absent bucket, key or value

ASSUME Kind \in [Fields -> {"string", "map"}]
\* toBucketField must be injective so that encode and decode stay symmetric
ASSUME \A f, g \in Fields : BucketField[f] = BucketField[g] => f = g

BKeys == {BucketField[f] : f \in Fields}
FieldOf(bk) == CHOOSE f \in Fields : BucketField[f] = bk

\* A map[string]string value; the empty function is Go's nil map.
Maps == UNION {[D -> MapVals] : D \in SUBSET MapKeys}
EmptyMap == [m \in {} |-> Nil]

ValuesOf(f) == IF Kind[f] = "map" THEN Maps ELSE StrVals

\* A function on D whose field f takes its value from sv[f] or mp[f] by Kind.
ByKind(D, sv, mp) == [f \in D |-> IF Kind[f] = "map" THEN mp[f] ELSE sv[f]]

Records == {ByKind(Fields, sv, mp) : sv \in [Fields -> StrVals], mp \in [Fields -> Maps]}

\* A property map of UpdateValue: field name -> new value, where a value
\* may also be of a runtime kind the update switch does not handle.
Props == UNION {{ByKind(D, sv, mp) : sv \in [D -> StrVals \cup {Unsupported}],
                                    mp \in [D -> Maps \cup {Unsupported}]}
                : D \in SUBSET Fields}

(***************************************************************************)
(* Filter callbacks, written the way the callers in src write them: look   *)
(* the field up in the name->value map, answer false when it is missing    *)
(* ("has" tests presence only, "eq" also compares the value).              *)
(***************************************************************************)
FilterRecords == [field : Fields, op : {"has"}]
                    \cup [field : Fields, op : {"eq"}, val : StrVals]
ASSUME Filters \subseteq FilterRecords \cup {NilFilter}

Matches(flt, fv) ==
    /\ flt.field \in DOMAIN fv
    /\ flt.op = "eq" => fv[flt.field] = flt.val

(***************************************************************************)
(* One call of the handler interface, and what it returned.                *)
(***************************************************************************)
SaveReq(t, k, r)     == [op |-> "SaveValue", typ |-> t, key |-> k, value |-> r]
UpdateReq(t, k, p)   == [op |-> "UpdateValue", typ |-> t, key |-> k, props |-> p]
DeleteReq(t, ks)     == [op |-> "DeleteValues", typ |-> t, keys |-> ks]
LoadReq(t, ks)       == [op |-> "LoadValues", typ |-> t, keys |-> ks]
LoadAllReq(t)        == [op |-> "LoadValuesAll", typ |-> t]
FilterReq(t, fs, fl) == [op |-> "LoadValuesByFilter", typ |-> t, fields |-> fs, filter |-> fl]
IterateReq(t, f, cb) == [op |-> "IterateFields", typ |-> t, field |-> f, process |-> cb]
CountReq(t)          == [op |-> "CountValues", typ |-> t]

WriteReqs(t) ==
    {SaveReq(t, k, r) : k \in Keys, r \in Records}
        \cup {UpdateReq(t, k, p) : k \in Keys, p \in Props}
        \cup {DeleteReq(t, ks) : ks \in SUBSET Keys}
=============================================================================
