------------------------------ MODULE QueryArgs ------------------------------
(***************************************************************************)
(* The paging arguments of a list request (src/naming/utils.go 207-340)    *)
(* and where they end up: checkQueryOffset and checkQueryLimit parse the   *)
(* []string values of a namespace query into Go ints that                  *)
(* namespaceStore.GetNamespaces (src/store/boltdb/namespace.go 159-176)    *)
(* turns into slice bounds; ParseOffsetAndLimit parses the map[string]     *)
(* string of an instance query into uint32s and deletes the keys it has    *)
(* parsed from the caller's map.  Each call is one step.  No caller of     *)
(* ParseOffsetAndLimit is in src, so what the map is used for afterwards   *)
(* (ParseInstanceArgs, say) is not modelled.                               *)
(*                                                                         *)
(* A query value is abstracted to its kind: absent, repeated (a []string   *)
(* of two), not a number, or a decimal number n.  Integers keep their      *)
(* width: int has IntBits bits (64 in the build) and wraps on overflow,    *)
(* uint32 has UintBits; strconv reports a number out of range as an error. *)
(*                                                                         *)
(* Calls share no state, so a behaviour is one request: Init is any        *)
(* request, and the step that serves it is the whole call.                 *)
(***************************************************************************)
EXTENDS Integers

CONSTANTS
    IntBits,            \* width of Go's int
    UintBits,           \* width of uint32
    QueryDefaultLimit,  \* utils.go 46
    QueryMaxLimit,      \* utils.go 48
    MaxQuerySize,       \* the cap of checkQueryLimit (defined outside src)
    MaxNamespaces       \* most namespaces the table holds

ASSUME IntBits > UintBits /\ UintBits > 0

VARIABLES
    req,    \* the query values of the last request: [api, offset, limit, size]
    out,    \* what the call returned
    left    \* keys of the instance query left after ParseOffsetAndLimit

vars == <<req, out, left>>

IntMin == -(2 ^ (IntBits - 1))
IntMax == 2 ^ (IntBits - 1) - 1
UintMax == 2 ^ UintBits - 1

Param(k, n) == [k |-> k, n |-> n]
Nums == -1 .. IntMax + 1
\* A value of url.Values ([]string): absent, repeated, not a number, n.
ListParams == {Param("absent", 0), Param("many", 0), Param("junk", 0)}
                \cup {Param("num", n) : n \in Nums}
\* A value of a map[string]string: absent is "".  ParseUint refuses
\* every number above UintMax alike, so the numbers stop one past it.
StrParams == {Param("absent", 0), Param("junk", 0)}
                \cup {Param("num", n) : n \in -1 .. UintMax + 1}

Res(err, v) == [err |-> err, val |-> v]
Err == Res(TRUE, 0)

\* Go's int arithmetic: two's complement, modulo 2^IntBits.
WrapInt(x) == ((x - IntMin) % (2 ^ IntBits)) + IntMin

\* strconv.Atoi: a decimal int, or an error (syntax, or out of range).
Atoi(p) == IF p.k = "num" /\ p.n \in IntMin .. IntMax THEN Res(FALSE, p.n) ELSE Err

\* strconv.ParseUint(s, 10, 32): a sign is a syntax error.
ParseUint(p) == IF p.k = "num" /\ p.n \in 0 .. UintMax THEN Res(FALSE, p.n) ELSE Err

-----------------------------------------------------------------------------
(* utils.go                                                                *)

CheckQueryOffset(p) ==
    CASE p.k = "absent"            -> Res(FALSE, 0)
      [] p.k = "many"              -> Err
      [] Atoi(p).err               -> Err
      [] Atoi(p).val < 0           -> Err
      [] OTHER                     -> Atoi(p)

CheckQueryLimit(p) ==
    CASE p.k = "absent"            -> Res(FALSE, MaxQuerySize)
      [] p.k = "many"              -> Err
      [] Atoi(p).err               -> Err
      [] Atoi(p).val < 0           -> Err
      [] Atoi(p).val > MaxQuerySize -> Res(FALSE, MaxQuerySize)
      [] OTHER                     -> Atoi(p)

ParseQueryOffset(p) == IF p.k = "absent" THEN Res(FALSE, 0) ELSE ParseUint(p)

\* Mutant: the limit is not clamped to QueryMaxLimit.
ParseQueryLimitNoClamp(p) ==
    IF p.k = "absent" THEN Res(FALSE, QueryDefaultLimit) ELSE ParseUint(p)

ParseQueryLimit(p) ==
    CASE p.k = "absent"              -> Res(FALSE, QueryDefaultLimit)
      [] ParseUint(p).err            -> Err
      [] ParseUint(p).val > QueryMaxLimit -> Res(FALSE, QueryMaxLimit)
      [] OTHER                       -> ParseUint(p)

-----------------------------------------------------------------------------
(* The calls.                                                              *)

\* GetNamespaces' bounds (168-175) for offset and limit, over n namespaces:
\* nil past the end, else namespaces[startIdx:endIdx], which panics when
\* the bounds are out of order or negative.
PageBounds(offset, limit, n) ==
    LET startIdx == WrapInt(offset * limit)
        endIdx0 == WrapInt(startIdx + limit)
        endIdx == IF endIdx0 > n THEN n ELSE endIdx0
    IN CASE startIdx >= n                    -> [kind |-> "nil", lo |-> 0, hi |-> 0]
         [] 0 <= startIdx /\ startIdx <= endIdx -> [kind |-> "page", lo |-> startIdx, hi |-> endIdx]
         [] OTHER                            -> [kind |-> "panic", lo |-> startIdx, hi |-> endIdx]

Pending == [kind |-> "none", lo |-> 0, hi |-> 0]

\* A namespace list request: the offset and limit the checkers accept are
\* handed to GetNamespaces over a table of req.size namespaces.
GetNamespacesCall ==
    /\ req.api = "namespaces" /\ out = Pending
    /\ out' = LET ofs == CheckQueryOffset(req.offset)
                  lmt == CheckQueryLimit(req.limit)
              IN IF ofs.err \/ lmt.err THEN [kind |-> "error", lo |-> 0, hi |-> 0]
                 ELSE PageBounds(ofs.val, lmt.val, req.size)
    /\ UNCHANGED <<req, left>>

\* ParseOffsetAndLimit (324-340): offset parsed and its key deleted, then
\* the limit; the first error returns.
ParseOffsetAndLimit ==
    /\ req.api = "instances" /\ out = Pending
    /\ LET ofs == ParseQueryOffset(req.offset)
           lmt == ParseQueryLimit(req.limit)
       IN /\ out' = IF ofs.err \/ lmt.err THEN [kind |-> "error", lo |-> 0, hi |-> 0]
                    ELSE [kind |-> "args", lo |-> ofs.val, hi |-> lmt.val]
          /\ left' = CASE ofs.err -> {"offset", "limit"}
                       [] lmt.err -> {"limit"}
                       [] OTHER   -> {}
    /\ UNCHANGED req

Requests ==
    [api : {"namespaces"}, offset : ListParams, limit : ListParams, size : 0 .. MaxNamespaces]
        \cup [api : {"instances"}, offset : StrParams, limit : StrParams, size : {0}]

Init ==
    /\ req \in Requests
    /\ out = Pending
    /\ left = {"offset", "limit"}

Next == GetNamespacesCall \/ ParseOffsetAndLimit

Spec == Init /\ [][Next]_vars

-----------------------------------------------------------------------------
(* Properties.                                                             *)

\* What an instance list request asks for, by definition: an absent value
\* is the default, a number must fit a uint32, and the limit is capped.
RefArg(p, default, cap) ==
    CASE p.k = "absent"                 -> Res(FALSE, default)
      [] p.k = "num" /\ p.n \in 0 .. UintMax ->
            Res(FALSE, IF p.n > cap THEN cap ELSE p.n)
      [] OTHER                          -> Err

\* ParseOffsetAndLimit returns the offset and limit the query asks for,
\* never a limit above QueryMaxLimit, and an error exactly when one of the
\* two values is malformed or out of the uint32 range.
ParsedArgsMatchReference ==
    req.api = "instances" /\ out # Pending =>
        LET ofs == RefArg(req.offset, 0, UintMax)
            lmt == RefArg(req.limit, QueryDefaultLimit, QueryMaxLimit)
        IN IF ofs.err \/ lmt.err THEN out.kind = "error"
           ELSE out = [kind |-> "args", lo |-> ofs.val, hi |-> lmt.val]

\* A namespace list request whose offset and limit pass the checks never
\* makes GetNamespaces slice out of bounds (a runtime panic).
NamespacePageInBounds == out.kind # "panic"
=============================================================================
