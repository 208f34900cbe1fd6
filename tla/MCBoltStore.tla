---------------------------- MODULE MCBoltStore ----------------------------
(* Model values and small definitions that instantiate BoltStore for TLC:  *)
(* one type bucket, two record keys, a record shape with a string field    *)
(* (Owner) and a map[string]string field (Meta), as model.Namespace and    *)
(* model.Service have.                                                     *)
EXTENDS BoltStore

MCFields == {"Owner", "Meta"}
MCKind == [f \in MCFields |-> IF f = "Meta" THEN "map" ELSE "string"]
MCBucketField == [f \in MCFields |-> IF f = "Meta" THEN "bk_meta" ELSE "bk_owner"]

\* Callers' filters: ListNamespaces-style "Owner present and equal to a",
\* presence of Owner only, and a nil filter.
MCFilters == {NilFilter,
              [field |-> "Owner", op |-> "eq", val |-> "a"],
              [field |-> "Owner", op |-> "has"]}

\* The same, plus a presence test on the map field Meta (as the service test
\* TestBoltHandler_Service filters on "Meta").
MCFiltersWithMap == MCFilters \cup {[field |-> "Meta", op |-> "has"]}
=============================================================================
