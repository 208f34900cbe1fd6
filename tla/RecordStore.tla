---------------------------- MODULE RecordStore ----------------------------
(***************************************************************************)
(* The contract of the generic typed object store (spec.md sections 3,     *)
(* 4.4 and 7): per type, a map from key to a whole record; every call is   *)
(* one atomic transaction; a failed write changes nothing.  `last` records *)
(* the call that was served last and what it returned, so that an          *)
(* implementation is checked on its answers as well as on its state.       *)
(***************************************************************************)
EXTENDS StoreData

VARIABLES store, last
vars == <<store, last>>

Present(t) == {k \in Keys : store[t][k] # Nil}

\* A field that holds a map with no entries has "no value" (section 4.3).
HasValue(r, f) == Kind[f] = "map" => r[f] # EmptyMap

\* The name -> value map handed to a filter: only fields that have a value.
FieldMap(r, fs) == [f \in {g \in fs : HasValue(r, g)} |-> r[f]]

\* A request with no fields or no filter selects every record.
Selected(r, fs, flt) == fs = {} \/ flt = NilFilter \/ Matches(flt, FieldMap(r, fs))

\* Partial update: supported properties overwrite their field, the rest stay.
Merge(r, p) ==
    [f \in Fields |-> IF f \in DOMAIN p /\ p[f] # Unsupported THEN p[f] ELSE r[f]]

Served(req, res) == last' = [req |-> req, res |-> res]

Init ==
    /\ store = [t \in Types |-> [k \in Keys |-> Nil]]
    /\ last = Nil

Save(t, k, r) ==
    /\ Served(SaveReq(t, k, r), "ok")
    /\ store' = [store EXCEPT ![t][k] = r]

\* Updates are not upserts: a missing record is left missing.
Update(t, k, p) ==
    /\ Served(UpdateReq(t, k, p), "ok")
    /\ store' = IF store[t][k] = Nil THEN store
                ELSE [store EXCEPT ![t][k] = Merge(@, p)]

Delete(t, ks) ==
    /\ Served(DeleteReq(t, ks), "ok")
    /\ store' = [store EXCEPT ![t] = [k \in Keys |-> IF k \in ks THEN Nil ELSE @[k]]]

\* An engine error aborts the whole transaction.
FailWrite(t) ==
    /\ \E req \in WriteReqs(t) : Served(req, "err")
    /\ UNCHANGED store

Load(t, ks) ==
    /\ Served(LoadReq(t, ks), [k \in ks \cap Present(t) |-> store[t][k]])
    /\ UNCHANGED store

LoadAll(t) ==
    /\ Served(LoadAllReq(t), [k \in Present(t) |-> store[t][k]])
    /\ UNCHANGED store

LoadByFilter(t, fs, flt) ==
    /\ Served(FilterReq(t, fs, flt),
              [k \in {x \in Present(t) : Selected(store[t][x], fs, flt)} |-> store[t][k]])
    /\ UNCHANGED store

\* The callback sees each record's value of the field; a nil callback, none.
Iterate(t, f, cb) ==
    /\ Served(IterateReq(t, f, cb),
              IF cb = NilCallback THEN EmptyMap
              ELSE [k \in Present(t) |-> store[t][k][f]])
    /\ UNCHANGED store

Count(t) ==
    /\ Served(CountReq(t), Cardinality(Present(t)))
    /\ UNCHANGED store

Next ==
    \E t \in Types :
        \/ \E k \in Keys, r \in Records : Save(t, k, r)
        \/ \E k \in Keys, p \in Props : Update(t, k, p)
        \/ \E ks \in SUBSET Keys : Delete(t, ks) \/ Load(t, ks)
        \/ FailWrite(t)
        \/ LoadAll(t)
        \/ \E fs \in SUBSET Fields, flt \in Filters : LoadByFilter(t, fs, flt)
        \/ \E f \in Fields, cb \in {"process", NilCallback} : Iterate(t, f, cb)
        \/ Count(t)

Spec == Init /\ [][Next]_vars
=============================================================================
