------------------------------ MODULE SqlBatch ------------------------------
(***************************************************************************)
(* The batch helpers of the SQL store (src/store/sqldb/common.go 34-91):   *)
(* BatchQuery hands its argument to a handler in chunks of at most         *)
(* QueryMax (200 in the code), BatchOperation in chunks of at most         *)
(* OperationMax (100); both stop at the first handler error.  Each handler *)
(* call is one step.  The handler of BatchOperation is the one of          *)
(* BatchDeleteInstances and BatchSetInstanceIsolate (part_003): nothing    *)
(* for an empty chunk, else one retried Exec, which commits ("ok"), fails  *)
(* ("fail"), or commits and still returns an error once Retry has given    *)
(* up on a lost answer ("lost").  The handler of BatchQuery only reads.    *)
(*                                                                         *)
(* The elements are opaque to the helpers, so an argument of length n is   *)
(* the sequence 1..n; Nil is the nil slice.                                *)
(***************************************************************************)
EXTENDS Naturals, Sequences, SequencesExt

CONSTANTS
    MaxLen,        \* longest argument
    QueryMax,      \* maxCount of BatchQuery
    OperationMax,  \* maxCount of BatchOperation
    Nil

ASSUME QueryMax \in Nat \ {0} /\ OperationMax \in Nat \ {0}

VARIABLES
    fn,       \* the helper running: "query" or "operation"
    data,     \* its argument
    beg,      \* beg of BatchQuery, begin of BatchOperation
    remain,   \* remain of BatchQuery
    calls,    \* the chunks handed to the handler so far
    applied,  \* the elements whose handler call took effect, in order
    st        \* "run", or what the helper returned: "ok" or "err"

vars == <<fn, data, beg, remain, calls, applied, st>>

Data == {[i \in 1 .. n |-> i] : n \in 0 .. MaxLen} \cup {Nil}
Items(d) == IF d = Nil THEN <<>> ELSE d

-----------------------------------------------------------------------------

\* A caller starts a helper: BatchQuery returns at once when len(data) is
\* 0; BatchOperation when data is nil, and its loop does not run for an
\* empty slice.
Call ==
    /\ st # "run"
    /\ \E f \in {"query", "operation"}, d \in Data :
         /\ fn' = f /\ data' = d
         /\ beg' = 0 /\ remain' = Len(Items(d))
         /\ st' = IF Len(Items(d)) = 0 THEN "ok" ELSE "run"
    /\ calls' = <<>> /\ applied' = <<>>

\* One handler call on chunk: its outcome, and the effect it had.
Handle(chunk, o) ==
    /\ calls' = Append(calls, chunk)
    /\ applied' = IF o \in {"ok", "lost"} THEN applied \o chunk ELSE applied

\* The handler of BatchOperation: an empty chunk returns nil unexecuted.
OperationOutcomes(chunk) == IF chunk = <<>> THEN {"ok"} ELSE {"ok", "fail", "lost"}

\* Mutant: remain >= maxCount, so a length that is a multiple of maxCount
\* ends with a call on an empty chunk.
BatchQueryLoopGe ==
    /\ st = "run" /\ fn = "query"
    /\ LET full == remain >= QueryMax
           chunk == SubSeq(data, beg + 1, beg + IF full THEN QueryMax ELSE remain)
       IN \E o \in {"ok", "fail"} :
            /\ Handle(chunk, o)
            /\ CASE o = "fail" -> st' = "err" /\ UNCHANGED <<beg, remain>>
                 [] full       -> /\ beg' = beg + QueryMax
                                  /\ remain' = remain - QueryMax
                                  /\ UNCHANGED st
                 [] OTHER      -> st' = "ok" /\ UNCHANGED <<beg, remain>>
    /\ UNCHANGED <<fn, data>>

\* One turn of the loop of BatchQuery: a full chunk while more than
\* maxCount remain, else the rest, and then the loop ends.
BatchQueryLoop ==
    /\ st = "run" /\ fn = "query"
    /\ LET full == remain > QueryMax
           chunk == SubSeq(data, beg + 1, beg + IF full THEN QueryMax ELSE remain)
       IN \E o \in {"ok", "fail"} :
            /\ Handle(chunk, o)
            /\ CASE o = "fail" -> st' = "err" /\ UNCHANGED <<beg, remain>>
                 [] full       -> /\ beg' = beg + QueryMax
                                  /\ remain' = remain - QueryMax
                                  /\ UNCHANGED st
                 [] OTHER      -> st' = "ok" /\ UNCHANGED <<beg, remain>>
    /\ UNCHANGED <<fn, data>>

\* Mutant: the handler's error is logged and the loop goes on.
BatchOperationLoopIgnoreErr ==
    /\ st = "run" /\ fn = "operation"
    /\ LET end == Min({beg + OperationMax, Len(data)})
           chunk == SubSeq(data, beg + 1, end)
       IN \E o \in OperationOutcomes(chunk) :
            /\ Handle(chunk, o)
            /\ beg' = beg + OperationMax
            /\ st' = IF beg + OperationMax < Len(data) THEN "run" ELSE "ok"
    /\ UNCHANGED <<fn, data, remain>>

\* One turn of the loop of BatchOperation: data[begin:end] with end
\* clipped to len(data); an error is returned at once.
BatchOperationLoop ==
    /\ st = "run" /\ fn = "operation"
    /\ LET end == Min({beg + OperationMax, Len(data)})
           chunk == SubSeq(data, beg + 1, end)
       IN \E o \in OperationOutcomes(chunk) :
            /\ Handle(chunk, o)
            /\ beg' = beg + OperationMax
            /\ st' = CASE o # "ok"                       -> "err"
                       [] beg + OperationMax < Len(data) -> "run"
                       [] OTHER                          -> "ok"
    /\ UNCHANGED <<fn, data, remain>>

-----------------------------------------------------------------------------

Init ==
    /\ fn = "query" /\ data = Nil /\ beg = 0 /\ remain = 0
    /\ calls = <<>> /\ applied = <<>> /\ st = "ok"

Next == Call \/ BatchQueryLoop \/ BatchOperationLoop

Spec == Init /\ [][Next]_vars

-----------------------------------------------------------------------------
(* Properties.                                                             *)

\* The reference partition of s into chunks of n: every element in exactly
\* one chunk, in order, each chunk full but the last, none empty.
RECURSIVE Chunks(_, _)
Chunks(s, n) ==
    IF s = <<>> THEN <<>>
    ELSE <<SubSeq(s, 1, Min({n, Len(s)}))>> \o Chunks(SubSeq(s, Min({n, Len(s)}) + 1, Len(s)), n)

ChunkSize == IF fn = "query" THEN QueryMax ELSE OperationMax
Reference == Chunks(Items(data), ChunkSize)

\* The loops of BatchQuery and BatchOperation hand the handler the chunks
\* of the reference partition, in order, and all of them when they return
\* nil: no element skipped or handed twice at the maxCount boundary.
ChunksFollowReference ==
    /\ IsPrefix(calls, Reference)
    /\ st = "ok" => calls = Reference

\* What a batch call did when it returns: nil means every element was
\* handled; an error means the whole chunks before the failing one were,
\* perhaps the failing one as well (its commit answer lost), and nothing
\* after it: a caller can never see a nil return with elements left over.
BatchOutcome ==
    /\ st = "ok" => applied = Items(data)
    /\ st = "err" =>
         \E k \in {Len(calls) - 1, Len(calls)} :
            applied = FlattenSeq(SubSeq(Reference, 1, k))
=============================================================================
