----------------------------- MODULE BoltStore -----------------------------
(***************************************************************************)
(* boltHandler (src/store/boltdb/namespace.go, lines 202-753): the generic *)
(* typed object store over bolt's bucket hierarchy.  The file holds one    *)
(* top-level bucket per type, one child bucket per record key, and inside  *)
(* it one entry per field: a tagged buffer for a scalar field, or a nested *)
(* bucket of raw entries for a map[string]string field.                    *)
(*                                                                         *)
(* Every handler call runs inside one bolt transaction (db.Update or       *)
(* db.View).  Bolt serialises writers and gives each reader a snapshot,    *)
(* so a call is one atomic step here; a write transaction either commits   *)
(* everything its closure did or, on an engine error, nothing.             *)
(*                                                                         *)
(* The codec (encode/decode of tagged buffers, serializeObject,            *)
(* deserializeObject, encodeRawMap, toBucketField) is not in src; it is    *)
(* modelled from spec.md sections 4.1-4.3.                                 *)
(***************************************************************************)
EXTENDS StoreData, Sequences

VARIABLES
    db,    \* the file: type -> (key -> record bucket or Nil), or Nil
    last   \* the call served last and its result (history for refinement)

vars == <<db, last>>

-----------------------------------------------------------------------------
(* Type tag codec and record codec (spec-modelled).                        *)

TypeString == "typeString"   \* discriminant byte of a string buffer

\* Mutant: a string buffer written without its tag byte.
EncodeStringBufferNoTag(v) == <<v>>

\* encodeStringBuffer: the tag byte followed by the string's bytes.
EncodeStringBuffer(v) == <<TypeString, v>>
DecodeStringBuffer(buf) == buf[2]

Bufs == {EncodeStringBuffer(v) : v \in StrVals}

\* An entry of a record bucket: a key/value pair or a nested bucket.
ValEntry(buf) == [val |-> buf]
SubEntry(m) == [sub |-> m]
IsVal(e) == e # Nil /\ "val" \in DOMAIN e
IsSub(e) == e # Nil /\ "sub" \in DOMAIN e

Buckets == [BKeys -> {Nil} \cup {ValEntry(b) : b \in Bufs} \cup {SubEntry(m) : m \in Maps}]

ZeroValue(f) == IF Kind[f] = "map" THEN EmptyMap ELSE ""

\* Decode dispatches on the tag byte alone; an unknown tag is "no value".
DecodeBuffer(buf) == IF buf[1] = TypeString THEN DecodeStringBuffer(buf) ELSE Nil

\* serializeObject, first half: a nested bucket for every map field that has
\* entries (an empty map produces no bucket).
SerializeSubBuckets(bucket, value) ==
    [bk \in BKeys |-> IF Kind[FieldOf(bk)] = "map" /\ value[FieldOf(bk)] # EmptyMap
                      THEN SubEntry(value[FieldOf(bk)]) ELSE bucket[bk]]

\* serializeObject, second half: the tagged buffers of the scalar fields.
SerializeBuffers(value) ==
    [bk \in {BucketField[f] : f \in {g \in Fields : Kind[g] = "string"}} |->
        EncodeStringBuffer(value[FieldOf(bk)])]

\* deserializeObject: for each field of the shape, the flat entry if there is
\* one, else the nested bucket if there is one, else the zero value.
DeserializeObject(bucket) ==
    [f \in Fields |->
        LET e == bucket[BucketField[f]] IN
        CASE IsVal(e) -> IF DecodeBuffer(e.val) = Nil THEN ZeroValue(f) ELSE DecodeBuffer(e.val)
          [] IsSub(e) -> e.sub
          [] OTHER    -> ZeroValue(f)]

\* encodeRawMap: the field's nested bucket is rewritten with the map's entries.
EncodeRawMap(bucket, bk, m) == [bucket EXCEPT ![bk] = SubEntry(m)]

-----------------------------------------------------------------------------
(* Bolt primitives as the handler uses them.                               *)

\* bucket.Get: the value of a key/value pair; nil for a nested bucket.
BucketGet(bucket, bk) == IF IsVal(bucket[bk]) THEN bucket[bk].val ELSE <<>>

\* getBucket (588-594)
GetBucket(t, k) == IF db[t] = Nil THEN Nil ELSE db[t][k]

\* getKeys (628-635): the keys ForEach visits in a type bucket.
GetKeys(t) == {k \in Keys : db[t][k] # Nil}

EmptyTypeBucket == [k \in Keys |-> Nil]
EmptyBucket == [bk \in BKeys |-> Nil]

\* A write transaction: the closure's result is committed, or an engine
\* error aborts it and nothing is written.
Commit(req, newDb) ==
    \/ /\ db' = newDb
       /\ last' = [req |-> req, res |-> "ok"]
    \/ /\ UNCHANGED db
       /\ last' = [req |-> req, res |-> "err"]

\* A read-only call, or a call that returns before opening a transaction.
Answer(req, res) ==
    /\ last' = [req |-> req, res |-> res]
    /\ UNCHANGED db

-----------------------------------------------------------------------------
(* Single-field reads (used by LoadValuesByFilter and IterateFields).      *)

\* reflectMapMsg (441-455): the nested bucket's entries, or a nil map.  The
\* nil map is returned as a typed value, not as Nil (an untyped nil).
ReflectMapMsg(bucket, bk) == IF IsSub(bucket[bk]) THEN bucket[bk].sub ELSE EmptyMap

\* Mutant: an empty Get is taken as "no value", without the nested-bucket read.
GetFieldObjectNoMapFallback(bucket, f) ==
    LET valueBytes == BucketGet(bucket, BucketField[f])
    IN IF Len(valueBytes) = 0 THEN Nil ELSE DecodeBuffer(valueBytes)

\* getFieldObject (457-495)
GetFieldObject(bucket, f) ==
    LET bk == BucketField[f]
        valueBytes == BucketGet(bucket, bk)
    IN IF Len(valueBytes) = 0 THEN ReflectMapMsg(bucket, bk)
       ELSE DecodeBuffer(valueBytes)

\* matchObject (497-517): values that are nil are left out of the map.
MatchObject(bucket, fields, filter) ==
    IF fields = {} \/ filter = NilFilter THEN TRUE
    ELSE LET has == {f \in fields : GetFieldObject(bucket, f) # Nil}
         IN Matches(filter, [f \in has |-> GetFieldObject(bucket, f)])

-----------------------------------------------------------------------------
(* The handler operations.                                                 *)

\* Mutant: the old record bucket is reused instead of deleted and recreated,
\* so a nested map bucket the new value does not rewrite is left behind.
SaveValueReuseBucket(typ, key, value) ==
    LET typBucket == IF db[typ] = Nil THEN EmptyTypeBucket ELSE db[typ]
        old == IF typBucket[key] = Nil THEN EmptyBucket ELSE typBucket[key]
        bucket == SerializeSubBuckets(old, value)
        buffers == SerializeBuffers(value)
        filled == [bk \in BKeys |->
                     IF bk \in DOMAIN buffers THEN ValEntry(buffers[bk]) ELSE bucket[bk]]
    IN Commit(SaveReq(typ, key, value),
              [db EXCEPT ![typ] = [typBucket EXCEPT ![key] = filled]])

\* SaveValue (314-351): create the type bucket if needed, delete the old
\* record bucket, create a fresh one, serialize the object into it.
SaveValue(typ, key, value) ==
    LET typBucket == IF db[typ] = Nil THEN EmptyTypeBucket ELSE db[typ]
        bucket == SerializeSubBuckets(EmptyBucket, value)
        buffers == SerializeBuffers(value)
        filled == [bk \in BKeys |->
                     IF bk \in DOMAIN buffers THEN ValEntry(buffers[bk]) ELSE bucket[bk]]
    IN Commit(SaveReq(typ, key, value),
              [db EXCEPT ![typ] = [typBucket EXCEPT ![key] = filled]])

\* LoadValues / loadValues (354-378): keys without a bucket are skipped.
LoadValues(typ, keys) ==
    Answer(LoadReq(typ, keys),
           [k \in {x \in keys : GetBucket(typ, x) # Nil} |->
               DeserializeObject(GetBucket(typ, k))])

\* LoadValuesByFilter / loadValuesByFilter (381-425): a partial read decides,
\* a full read of the same snapshot is returned.
LoadValuesByFilter(typ, fields, filter) ==
    Answer(FilterReq(typ, fields, filter),
           IF db[typ] = Nil THEN EmptyMap
           ELSE [k \in {x \in GetKeys(typ) : MatchObject(db[typ][x], fields, filter)} |->
                    DeserializeObject(db[typ][k])])

\* IterateFields (520-551): the callback is called with each record's value
\* of the field; a nil callback returns at once.
IterateFields(typ, field, process) ==
    Answer(IterateReq(typ, field, process),
           IF process = NilCallback \/ db[typ] = Nil THEN EmptyMap
           ELSE [k \in GetKeys(typ) |-> GetFieldObject(db[typ][k], field)])

\* DeleteValues / deleteValues (562-586)
DeleteValues(typ, keys) ==
    IF keys = {} THEN Answer(DeleteReq(typ, keys), "ok")
    ELSE Commit(DeleteReq(typ, keys),
                IF db[typ] = Nil THEN db
                ELSE [db EXCEPT ![typ] = [k \in Keys |-> IF k \in keys THEN Nil ELSE @[k]]])

\* CountValues (638-651): entries of the type bucket, 0 without one.
CountValues(typ) ==
    Answer(CountReq(typ), IF db[typ] = Nil THEN 0 ELSE Cardinality(GetKeys(typ)))

\* One property of UpdateValue, by the value's runtime kind (669-700): a
\* string is re-encoded, a map[string]string rewrites the nested bucket, any
\* other kind falls through the switch and is ignored.
PutProperty(bucket, bk, v) ==
    CASE v = Unsupported                -> bucket
      [] Kind[FieldOf(bk)] = "string"   -> [bucket EXCEPT ![bk] = ValEntry(EncodeStringBuffer(v))]
      [] OTHER                          -> EncodeRawMap(bucket, bk, v)

\* UpdateValue (654-707): no-op when the type or record bucket is missing or
\* there are no properties; otherwise overwrite each property's entry.
UpdateValue(typ, key, properties) ==
    LET bucket == GetBucket(typ, key)
        updated == [bk \in BKeys |->
                      IF FieldOf(bk) \in DOMAIN properties
                      THEN PutProperty(bucket, bk, properties[FieldOf(bk)])[bk]
                      ELSE bucket[bk]]
    IN Commit(UpdateReq(typ, key, properties),
              IF bucket = Nil \/ DOMAIN properties = {} THEN db
              ELSE [db EXCEPT ![typ][key] = updated])

\* LoadValuesAll (710-740)
LoadValuesAll(typ) ==
    Answer(LoadAllReq(typ),
           IF db[typ] = Nil THEN EmptyMap
           ELSE [k \in GetKeys(typ) |-> DeserializeObject(db[typ][k])])

-----------------------------------------------------------------------------

\* The file starts with no buckets; type buckets are created lazily.
Init ==
    /\ db = [t \in Types |-> Nil]
    /\ last = Nil

Next ==
    \E t \in Types :
        \/ \E k \in Keys, r \in Records : SaveValue(t, k, r)
        \/ \E k \in Keys, p \in Props : UpdateValue(t, k, p)
        \/ \E ks \in SUBSET Keys : DeleteValues(t, ks) \/ LoadValues(t, ks)
        \/ LoadValuesAll(t)
        \/ \E fs \in SUBSET Fields, flt \in Filters : LoadValuesByFilter(t, fs, flt)
        \/ \E f \in Fields, cb \in {"process", NilCallback} : IterateFields(t, f, cb)
        \/ CountValues(t)

Spec == Init /\ [][Next]_vars

-----------------------------------------------------------------------------
(* Properties.                                                             *)

ResultMaps(V) == UNION {[S -> V] : S \in SUBSET Keys}

TypeOK ==
    /\ db \in [Types -> {Nil} \cup [Keys -> {Nil} \cup Buckets]]
    /\ last = Nil \/
       CASE last.req.op \in {"SaveValue", "UpdateValue", "DeleteValues"} -> last.res \in {"ok", "err"}
         [] last.req.op = "CountValues"   -> last.res \in 0 .. Cardinality(Keys)
         [] last.req.op = "IterateFields" -> last.res \in ResultMaps(ValuesOf(last.req.field))
         [] OTHER                         -> last.res \in ResultMaps(Records)

\* The single-field read of getFieldObject, which filters and iterations see,
\* agrees for every stored record and field with what deserializeObject
\* returns for that field (spec 4.3: the same flat-then-nested resolution).
SingleFieldReadMatchesDecode ==
    \A t \in Types, k \in Keys :
        GetBucket(t, k) # Nil =>
            \A f \in Fields :
                GetFieldObject(GetBucket(t, k), f) = DeserializeObject(GetBucket(t, k))[f]

\* The record each bucket decodes to: the state of the abstract store.
AbsStore == [t \in Types |-> [k \in Keys |->
                IF GetBucket(t, k) = Nil THEN Nil ELSE DeserializeObject(GetBucket(t, k))]]

Abstract == INSTANCE RecordStore WITH store <- AbsStore, last <- last

\* Every handler call does to the decoded records, and returns, what the
\* record-store contract says: Save replaces the whole record, Update merges
\* and never creates, Delete removes, the loads, filter, iteration and
\* count answer from the state they ran on, and a failed write changes nothing.
RefinesRecordStore == Abstract!Spec
=============================================================================
