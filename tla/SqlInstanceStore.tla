-------------------------- MODULE SqlInstanceStore --------------------------
(***************************************************************************)
(* The MySQL instance store (src/unnamed/part_003) over BaseDB and Retry   *)
(* (src/unnamed/part_002), used by several server goroutines, or several   *)
(* servers, at once.                                                       *)
(*                                                                         *)
(* Tables: instance (one row per id, soft-deleted by flag = 1, revision),  *)
(* health_check and instance_metadata (rows keyed by the instance id, with *)
(* a foreign key on instance.id that cascades on delete, as the comments   *)
(* at part_003 lines 140 and 223 state).  A row's data is abstracted to    *)
(* the call that wrote it: each client writes its own name as revision,   *)
(* health check and metadata.                                              *)
(*                                                                         *)
(* One attempt of a transaction, or of an Exec outside one, is one atomic  *)
(* step: MySQL runs it in isolation.  Its outcome is chosen by the         *)
(* environment: "ok"; "fail" (Deadlock or bad connection: rolled back);    *)
(* or "lost" (the server committed, the client sees invalid connection).   *)
(* A statement's own error (duplicate key, missing service, foreign key)   *)
(* follows from the tables.  Retry re-runs the attempt on the three        *)
(* transient messages, at most MaxTryTimes times.                          *)
(***************************************************************************)
EXTENDS Naturals, FiniteSets

CONSTANTS
    Clients,      \* concurrent callers of the store
    Ids,          \* instance ids
    Services,     \* service ids a request may name
    LiveServices, \* the services that exist (rlockServiceWithID finds them)
    MaxTryTimes,  \* maxTryTimes of Retry (20 in the code)
    Nil

ASSUME LiveServices \subseteq Services /\ MaxTryTimes \in Nat \ {0}

VARIABLES
    inst,     \* instance table: id -> [svc, flag, rev] or Nil
    hc,       \* health_check table: id -> writer or Nil
    meta,     \* instance_metadata rows of an id: their writer, or Nil (none)
    pc,       \* client -> "idle", "clean", "addtx", "updatetx", "delete", "get1",
              \* "get2", "exp1", "exp2"
    req,      \* client -> the call in progress
    tries,    \* client -> the attempt number i of Retry
    res,      \* client -> what the last call returned
    applied,  \* client -> whether this call's transaction has committed
    got,      \* client -> the instance row GetInstance read first, or the
              \* page GetExpandInstances read first
    out,      \* client -> the instance GetInstance returned, or Nil; the
              \* [page, total] GetExpandInstances returned
    snap      \* client -> the metadata the tables held when GetInstance read
              \* the row, or the number of valid instances when
              \* GetExpandInstances read its page (history variable, read by
              \* no step of the code)

vars == <<inst, hc, meta, pc, req, tries, res, applied, got, out, snap>>

Outcomes == {"ok", "fail", "lost"}
Retryable == {"fail", "lost"}  \* errMsg: Deadlock, bad connection, invalid connection

AddReqs == [op : {"add"}, id : Ids, svc : Services, hc : BOOLEAN, meta : {"empty", "some"}]
UpdateReqs == [op : {"update"}, id : Ids, hc : BOOLEAN, meta : {"nil", "empty", "some"}]
ExpandReqs == [op : {"expand"}, limit : {0, 1}]
Requests == AddReqs \cup UpdateReqs \cup [op : {"delete", "get"}, id : Ids] \cup ExpandReqs

\* The instances "instance.flag = 0" selects.
Valid == {i \in Ids : inst[i] # Nil /\ inst[i].flag = 0}

\* The rows of instance i become row, h and m.
Tables(i, row, h, m) ==
    /\ inst' = [inst EXCEPT ![i] = row]
    /\ hc' = [hc EXCEPT ![i] = h]
    /\ meta' = [meta EXCEPT ![i] = m]

-----------------------------------------------------------------------------
(* Retry (part_002 160-182) after one attempt of client c.                 *)

\* The attempt succeeded: the call goes on to `next`, or returns ok.
Proceed(c, next) ==
    /\ pc' = [pc EXCEPT ![c] = next]
    /\ tries' = [tries EXCEPT ![c] = 1]
    /\ res' = IF next = "idle" THEN [res EXCEPT ![c] = "ok"] ELSE res

\* Mutant: the loop bound read as i <= maxTryTimes before the increment,
\* one attempt too many.
RetryOffByOne(c, err) ==
    IF err \in Retryable /\ tries[c] <= MaxTryTimes
    THEN /\ tries' = [tries EXCEPT ![c] = @ + 1]
         /\ UNCHANGED <<pc, res>>
    ELSE /\ pc' = [pc EXCEPT ![c] = "idle"]
         /\ res' = [res EXCEPT ![c] = err]
         /\ tries' = [tries EXCEPT ![c] = 1]

\* Mutant: after maxTryTimes transient errors the count starts over instead
\* of the call giving up, so transient errors are retried for ever.
RetryStartOver(c, err) ==
    IF err \in Retryable
    THEN /\ tries' = [tries EXCEPT ![c] = IF @ < MaxTryTimes THEN @ + 1 ELSE 1]
         /\ UNCHANGED <<pc, res>>
    ELSE /\ pc' = [pc EXCEPT ![c] = "idle"]
         /\ res' = [res EXCEPT ![c] = err]
         /\ tries' = [tries EXCEPT ![c] = 1]

\* The attempt failed with err: retried while the message is transient and
\* tries remain, else the call returns err.
Retry(c, err) ==
    IF err \in Retryable /\ tries[c] < MaxTryTimes
    THEN /\ tries' = [tries EXCEPT ![c] = @ + 1]
         /\ UNCHANGED <<pc, res>>
    ELSE /\ pc' = [pc EXCEPT ![c] = "idle"]
         /\ res' = [res EXCEPT ![c] = err]
         /\ tries' = [tries EXCEPT ![c] = 1]

After(c, outcome, next) == IF outcome = "ok" THEN Proceed(c, next) ELSE Retry(c, outcome)

-----------------------------------------------------------------------------
(* The statements, applied when an attempt commits.                        *)

\* CleanInstance (224-232): delete from instance where id = ? and flag = 1;
\* the cascade removes the row's health check and metadata.
CleanInstance(i) ==
    IF inst[i] # Nil /\ inst[i].flag = 1
    THEN Tables(i, Nil, Nil, Nil)
    ELSE UNCHANGED <<inst, hc, meta>>

\* DeleteInstance (237-245): update instance set flag = 1 where id = ?.
DeleteInstance(i) ==
    IF inst[i] # Nil
    THEN Tables(i, [inst[i] EXCEPT !.flag = 1], hc[i], meta[i])
    ELSE UNCHANGED <<inst, hc, meta>>

\* addInstance (55-94): the error the transaction body stops with, if any.
AddError(c, r) ==
    CASE r.svc \notin LiveServices -> "notfound"   \* rlockServiceWithID
      [] inst[r.id] # Nil          -> "duplicate"  \* addMainInstance
      [] OTHER                     -> "none"

\* addMainInstance, addInstanceCheck (nil check: no row), addInstanceMeta
\* (no metadata: no rows).
AddInstanceRows(c, r) ==
    Tables(r.id, [svc |-> r.svc, flag |-> 0, rev |-> c],
           IF r.hc THEN c ELSE Nil, IF r.meta = "some" THEN c ELSE Nil)

\* updateInstance (190-220): updateInstanceMain changes no row when there is
\* none; updateInstanceCheck's replace and addInstanceMeta's insert fail on
\* the foreign key then.
UpdateError(c, r) ==
    IF inst[r.id] = Nil /\ (r.hc \/ r.meta = "some") THEN "fk" ELSE "none"

\* Mutant: updateInstanceMeta returning early on len(meta) == 0 instead of
\* meta == nil, so an empty map no longer deletes the metadata.
UpdateInstanceRowsEmptyAsNil(c, r) ==
    /\ inst' = IF inst[r.id] = Nil THEN inst
               ELSE [inst EXCEPT ![r.id].rev = c]
    /\ hc' = [hc EXCEPT ![r.id] = IF r.hc THEN c ELSE Nil]
    /\ meta' = [meta EXCEPT ![r.id] = IF r.meta = "some" THEN c ELSE @]

\* updateInstanceMain (no row: changes nothing), updateInstanceCheck (nil
\* check: delete the row, else replace it), updateInstanceMeta (nil: left
\* alone; else delete all and insert the new ones).
UpdateInstanceRows(c, r) ==
    /\ inst' = IF inst[r.id] = Nil THEN inst
               ELSE [inst EXCEPT ![r.id].rev = c]
    /\ hc' = [hc EXCEPT ![r.id] = IF r.hc THEN c ELSE Nil]
    /\ meta' = [meta EXCEPT ![r.id] = CASE r.meta = "nil"  -> @
                                        [] r.meta = "some" -> c
                                        [] OTHER           -> Nil]

-----------------------------------------------------------------------------
(* Client steps.                                                           *)

NoDb == UNCHANGED <<inst, hc, meta>>

\* A client calls the store.
Call(c) ==
    /\ pc[c] = "idle"
    /\ \E r \in Requests :
         /\ req' = [req EXCEPT ![c] = r]
         /\ pc' = [pc EXCEPT ![c] = CASE r.op = "add"    -> "clean"
                                      [] r.op = "update" -> "updatetx"
                                      [] r.op = "delete" -> "delete"
                                      [] r.op = "get"    -> "get1"
                                      [] OTHER           -> "exp1"]
    /\ applied' = [applied EXCEPT ![c] = FALSE]
    /\ res' = [res EXCEPT ![c] = Nil]
    /\ got' = [got EXCEPT ![c] = Nil]
    /\ out' = [out EXCEPT ![c] = Nil]
    /\ snap' = [snap EXCEPT ![c] = Nil]
    /\ NoDb /\ UNCHANGED tries

\* AddInstance (42-52), first CleanInstance: one Exec attempt.
CleanStep(c) ==
    /\ pc[c] = "clean"
    /\ \E o \in Outcomes :
         /\ IF o = "fail" THEN NoDb ELSE CleanInstance(req[c].id)
         /\ After(c, o, "addtx")
    /\ UNCHANGED <<req, applied, got, out, snap>>

\* AddInstance, then RetryTransaction(addInstance): one attempt.
AddTxStep(c) ==
    /\ pc[c] = "addtx"
    /\ LET err == AddError(c, req[c]) IN
       \E o \in IF err = "none" THEN Outcomes ELSE {"fail", err} :
         /\ IF o \in {"ok", "lost"} THEN AddInstanceRows(c, req[c]) ELSE NoDb
         /\ applied' = [applied EXCEPT ![c] = @ \/ o \in {"ok", "lost"}]
         /\ After(c, o, "idle")
    /\ UNCHANGED <<req, got, out, snap>>

\* UpdateInstance (174-186), RetryTransaction(updateInstance): one attempt.
\* A DuplicateEntry error would become DataConflict; no statement here
\* raises one.
UpdateTxStep(c) ==
    /\ pc[c] = "updatetx"
    /\ LET err == UpdateError(c, req[c]) IN
       \E o \in IF err = "none" THEN Outcomes ELSE {"fail", err} :
         /\ IF o \in {"ok", "lost"} THEN UpdateInstanceRows(c, req[c]) ELSE NoDb
         /\ applied' = [applied EXCEPT ![c] = @ \/ o \in {"ok", "lost"}]
         /\ After(c, o, "idle")
    /\ UNCHANGED <<req, got, out, snap>>

\* DeleteInstance: one attempt of the retried Exec.
DeleteStep(c) ==
    /\ pc[c] = "delete"
    /\ \E o \in Outcomes :
         /\ IF o = "fail" THEN NoDb ELSE DeleteInstance(req[c].id)
         /\ After(c, o, "idle")
    /\ UNCHANGED <<req, applied, got, out, snap>>

\* GetInstance (262-274) / getInstance (554-579): the instance row first.
\* No row: the call returns nil.
GetMainStep(c) ==
    /\ pc[c] = "get1"
    /\ got' = [got EXCEPT ![c] = inst[req[c].id]]
    /\ snap' = [snap EXCEPT ![c] = meta[req[c].id]]
    /\ IF inst[req[c].id] = Nil
       THEN /\ pc' = [pc EXCEPT ![c] = "idle"]
            /\ res' = [res EXCEPT ![c] = "ok"] /\ out' = [out EXCEPT ![c] = Nil]
       ELSE pc' = [pc EXCEPT ![c] = "get2"] /\ UNCHANGED <<res, out>>
    /\ NoDb /\ UNCHANGED <<req, tries, applied>>

\* Then GetInstanceMeta in a second query; an invalid instance is nil.
GetMetaStep(c) ==
    /\ pc[c] = "get2"
    /\ pc' = [pc EXCEPT ![c] = "idle"]
    /\ res' = [res EXCEPT ![c] = "ok"]
    /\ out' = [out EXCEPT ![c] = IF got[c].flag = 1 THEN Nil
                                 ELSE <<got[c], meta[req[c].id]>>]
    /\ NoDb /\ UNCHANGED <<req, tries, applied, got, snap>>

\* GetExpandInstances (391-407): getExpandInstances (411-438) reads the
\* page of valid instances, newest first, in one query, or returns an
\* empty page at once for limit 0.  Offset 0: with the ids of the model a
\* page of limit 1 or more holds every valid instance.
ExpandPageStep(c) ==
    /\ pc[c] = "exp1"
    /\ got' = [got EXCEPT ![c] = IF req[c].limit = 0 THEN {} ELSE Valid]
    /\ snap' = [snap EXCEPT ![c] = Cardinality(Valid)]
    /\ pc' = [pc EXCEPT ![c] = "exp2"]
    /\ NoDb /\ UNCHANGED <<req, tries, res, applied, out>>

\* Then getExpandInstancesCount (445-469): select count(*) in a second
\* query, one QueryRow attempt of Retry("query-instance-row").
ExpandCountStep(c) ==
    /\ pc[c] = "exp2"
    /\ \E o \in {"ok", "fail"} :
         /\ After(c, o, "idle")
         /\ out' = IF o = "ok"
                   THEN [out EXCEPT ![c] = [page |-> got[c], total |-> Cardinality(Valid)]]
                   ELSE out
    /\ NoDb /\ UNCHANGED <<req, applied, got, snap>>

-----------------------------------------------------------------------------

Init ==
    /\ inst = [i \in Ids |-> Nil]
    /\ hc = [i \in Ids |-> Nil]
    /\ meta = [i \in Ids |-> Nil]
    /\ pc = [c \in Clients |-> "idle"]
    /\ req = [c \in Clients |-> Nil]
    /\ tries = [c \in Clients |-> 1]
    /\ res = [c \in Clients |-> Nil]
    /\ applied = [c \in Clients |-> FALSE]
    /\ got = [c \in Clients |-> Nil]
    /\ out = [c \in Clients |-> Nil]
    /\ snap = [c \in Clients |-> Nil]

\* The steps of a call that is under way.
Step(c) ==
    CleanStep(c) \/ AddTxStep(c) \/ UpdateTxStep(c) \/ DeleteStep(c)
        \/ GetMainStep(c) \/ GetMetaStep(c) \/ ExpandPageStep(c) \/ ExpandCountStep(c)

Next == \E c \in Clients : Call(c) \/ Step(c)

\* A goroutine that has called the store keeps running it, and every query
\* or transaction attempt comes back.  The second is an assumption about
\* the database and the network: the DSN (part_002:85) sets no timeout.
\* Callers need not call again.
Spec == Init /\ [][Next]_vars /\ \A c \in Clients : WF_vars(Step(c))

-----------------------------------------------------------------------------
(* Properties.                                                             *)

Row == [svc : Services, flag : {0, 1}, rev : Clients]

TypeOK ==
    /\ inst \in [Ids -> {Nil} \cup Row]
    /\ hc \in [Ids -> {Nil} \cup Clients]
    /\ meta \in [Ids -> {Nil} \cup Clients]
    /\ pc \in [Clients -> {"idle", "clean", "addtx", "updatetx", "delete", "get1", "get2",
                           "exp1", "exp2"}]
    /\ req \in [Clients -> {Nil} \cup Requests]
    /\ tries \in [Clients -> 1 .. MaxTryTimes]
    /\ applied \in [Clients -> BOOLEAN]

\* Every store call returns, even when the database fails every attempt:
\* Retry gives up after MaxTryTimes attempts.
CallsReturn == \A c \in Clients : pc[c] # "idle" ~> pc[c] = "idle"

\* updateInstanceMeta tells a nil metadata map (leave the rows alone) from
\* an empty one (delete them all), across retries and the calls of other
\* clients: metadata rows change only through the cascade of a removed
\* instance row or a commit of an add or update that carries a map, to
\* what that map holds, and
\* the first commit of an update carrying an empty map leaves none.
UpdateMetadataNilVsEmpty ==
    [][/\ \A i \in Ids :
           meta'[i] # meta[i] =>
               \/ inst'[i] = Nil
               \/ \E c \in Clients : /\ pc[c] \in {"addtx", "updatetx"}
                                    /\ req[c].id = i /\ req[c].meta # "nil"
                                    /\ meta'[i] = IF req[c].meta = "some" THEN c ELSE Nil
       /\ \A c \in Clients :
           pc[c] = "updatetx" /\ req[c].meta = "empty" /\ ~applied[c] /\ applied'[c]
               => meta'[req[c].id] = Nil]_vars

\* AddInstance does not report DuplicateEntry because of its own insert:
\* a call whose transaction committed does not return "duplicate".
AddNeverDuplicatesItself ==
    \A c \in Clients :
        pc[c] = "idle" /\ applied[c] /\ req[c].op = "add" => res[c] # "duplicate"

\* GetInstance returns an instance as the tables held it at one moment: its
\* row together with the metadata rows that were there when it read the row.
GetReturnsExistingState ==
    \A c \in Clients :
        pc[c] = "idle" /\ req[c] # Nil /\ req[c].op = "get" /\ out[c] # Nil
            => out[c] = <<got[c], snap[c]>>

\* GetExpandInstances returns, with its page, the number of instances that
\* matched the filter when it read that page: a caller that pages by the
\* total never counts rows the page could not have held.
ExpandTotalMatchesPage ==
    \A c \in Clients :
        pc[c] = "idle" /\ req[c] # Nil /\ req[c].op = "expand" /\ out[c] # Nil
            => out[c].total = snap[c]
=============================================================================
