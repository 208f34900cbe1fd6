--------------------------- MODULE NamespaceStore ---------------------------
(***************************************************************************)
(* namespaceStore (src/store/boltdb/namespace.go, lines 30-201): the       *)
(* namespace table kept in the bolt file through the BoltHandler.  Each    *)
(* method makes one handler call, which is one atomic transaction (checked *)
(* in BoltStore); a write's commit may fail and then changes nothing.      *)
(*                                                                         *)
(* The server process: InitData adds the built-in namespaces that are      *)
(* missing, one GetNamespace and one AddNamespace call each, and the       *)
(* process may crash or fail between any two calls and run InitData again  *)
(* on restart; the bolt file survives.  While serving, requests add and    *)
(* update namespaces, and a client pages through GetNamespaces.  Fields    *)
(* no property reads (Comment, Valid, CreateTime) are left out, and so are *)
(* the read-only ListNamespaces, GetNamespace outside InitData, and        *)
(* GetMoreNamespaces, whose caller is not in src.                          *)
(***************************************************************************)
EXTENDS Integers, Sequences, SequencesExt

CONSTANTS
    Names,          \* namespace names a request may use
    Builtins,       \* <<defaultNamespace, polarisNamespace>>, in InitData's order
    BuiltinToken,   \* namespaceToToken
    BuiltinOwner,   \* the owner InitData gives them ("polaris")
    Owners,         \* owners a request may carry, the empty string included
    Tokens,         \* tokens a request may carry, the empty string included
    Empty,          \* the empty string of an Owner or Token
    Limit,          \* the page size the paging client asks for
    MaxTime,        \* bound of the clock time.Now() reads
    Nil

ASSUME ToSet(Builtins) \subseteq Names /\ Limit \in Nat \ {0}

VARIABLES
    ns,        \* the namespace table: name -> [owner, token, mtime] or Nil
    now,       \* the clock time.Now() reads
    srv,       \* "init", "serving" or "failed"
    initPos,   \* index into Builtins of the namespace InitData handles next
    initFound, \* what InitData's GetNamespace returned for it (Nil: not read)
    pager      \* the paging client: next page, names seen, duplicates seen,
               \* whether the table was written since it started, done

vars == <<ns, now, srv, initPos, initFound, pager>>

Time == 0 .. MaxTime
Record(o, tk, t) == [owner |-> o, token |-> tk, mtime |-> t]
Present == {n \in Names : ns[n] # Nil}
PagerStart == [page |-> 0, seen |-> {}, dup |-> FALSE, quiet |-> TRUE, done |-> FALSE]

\* Every successful write of the table makes a running paging client
\* unquiet.
Written(ok) == pager' = IF ok THEN [pager EXCEPT !.quiet = FALSE] ELSE pager

\* handler.SaveValue: full replace, or a failed commit that changes nothing.
SaveValue(n, rec, ok) == ns' = IF ok THEN [ns EXCEPT ![n] = rec] ELSE ns

\* Mutant: an update that creates a missing record (an upsert).
UpdateValueUpsert(n, props, ok) ==
    ns' = IF ok THEN [ns EXCEPT ![n] = IF @ = Nil THEN props
                                       ELSE [f \in DOMAIN @ |->
                                               IF f \in DOMAIN props THEN props[f] ELSE @[f]]]
          ELSE ns

\* handler.UpdateValue: merge into a present record; no-op on a missing one.
UpdateValue(n, props, ok) ==
    ns' = IF ok /\ ns[n] # Nil THEN [ns EXCEPT ![n] = [f \in DOMAIN @ |->
                                        IF f \in DOMAIN props THEN props[f] ELSE @[f]]]
          ELSE ns

-----------------------------------------------------------------------------
(* InitData (52-75), one handler call per step.                            *)

\* GetNamespace (128-140): LoadValues of the one name; nil when the
\* result has no entry for it.
GetNamespace(n) == ns[n]

\* GetNamespace(name) for the next built-in namespace.
InitGet ==
    /\ srv = "init" /\ initPos <= Len(Builtins) /\ initFound = Nil
    /\ initFound' = IF GetNamespace(Builtins[initPos]) # Nil THEN "found" ELSE "missing"
    /\ UNCHANGED <<ns, now, srv, initPos, pager>>

\* An existing namespace is kept; a missing one is added (AddNamespace).
\* A failed add makes InitData, and the start of the server, fail.
InitAdd ==
    /\ srv = "init" /\ initPos <= Len(Builtins) /\ initFound # Nil
    /\ LET n == Builtins[initPos] IN
       IF initFound = "found"
       THEN /\ initPos' = initPos + 1 /\ initFound' = Nil
            /\ UNCHANGED <<ns, srv, pager>>
       ELSE \E ok \in BOOLEAN :
              /\ SaveValue(n, Record(BuiltinOwner, BuiltinToken[n], now), ok)
              /\ Written(ok)
              /\ initPos' = IF ok THEN initPos + 1 ELSE initPos
              /\ initFound' = Nil
              /\ srv' = IF ok THEN srv ELSE "failed"
    /\ UNCHANGED <<now>>

\* Mutant: the loop over the built-in namespaces stops one short.
InitDoneEarly ==
    /\ srv = "init" /\ initPos >= Len(Builtins) /\ initFound = Nil
    /\ srv' = "serving"
    /\ UNCHANGED <<ns, now, initPos, initFound, pager>>

\* InitData returned nil: the server serves requests.
InitDone ==
    /\ srv = "init" /\ initPos > Len(Builtins)
    /\ srv' = "serving"
    /\ UNCHANGED <<ns, now, initPos, initFound, pager>>

\* The process stops (crash, or a failed start) and is started again; only
\* the bolt file survives.
Restart ==
    /\ srv' = "init" /\ initPos' = 1 /\ initFound' = Nil
    /\ UNCHANGED <<ns, now, pager>>

-----------------------------------------------------------------------------
(* Requests, while serving.                                                *)

\* AddNamespace (78-84): rejects an empty owner or token, then SaveValue.
AddNamespace(n, o, tk) ==
    /\ srv = "serving"
    /\ IF o = Empty \/ tk = Empty THEN UNCHANGED <<ns, pager>>
       ELSE \E ok \in BOOLEAN : SaveValue(n, Record(o, tk, now), ok) /\ Written(ok)
    /\ UNCHANGED <<now, srv, initPos, initFound>>

\* UpdateNamespace (87-96): Owner and ModifyTime (Comment is not modelled).
UpdateNamespace(n, o) ==
    /\ srv = "serving"
    /\ IF o = Empty THEN UNCHANGED <<ns, pager>>
       ELSE \E ok \in BOOLEAN :
              UpdateValue(n, [owner |-> o, mtime |-> now], ok) /\ Written(ok)
    /\ UNCHANGED <<now, srv, initPos, initFound>>

\* UpdateNamespaceToken (99-107): Token and ModifyTime.
UpdateNamespaceToken(n, tk) ==
    /\ srv = "serving"
    /\ IF tk = Empty THEN UNCHANGED <<ns, pager>>
       ELSE \E ok \in BOOLEAN :
              UpdateValue(n, [token |-> tk, mtime |-> now], ok) /\ Written(ok)
    /\ UNCHANGED <<now, srv, initPos, initFound>>

\* The clock moves on; two writes without a Tick share a ModifyTime.
Tick ==
    /\ now < MaxTime
    /\ now' = now + 1
    /\ UNCHANGED <<ns, srv, initPos, initFound, pager>>

-----------------------------------------------------------------------------
(* GetNamespaces (142-177) and the client that pages through it.           *)

\* sort.Sort(sort.Reverse(NamespaceSlice)) of toNamespaces(values): newest
\* ModifyTime first.  The slice comes from a Go map, in random order, and
\* sort.Sort is not stable, so namespaces of equal ModifyTime may come in
\* any order: every such order is a possible result.
SortedNamespaces ==
    {s \in SetToSeqs(Present) :
        \A i, j \in 1 .. Len(s) : i < j => ns[s[i]].mtime >= ns[s[j]].mtime}

\* The page GetNamespaces(filter, offset, limit) returns: startIdx is
\* offset*limit; nil past the end; endIdx clipped to the length.
PageOf(s, offset, limit) ==
    LET startIdx == offset * limit
        endIdx == IF startIdx + limit > Len(s) THEN Len(s) ELSE startIdx + limit
    IN IF startIdx >= Len(s) THEN <<>> ELSE SubSeq(s, startIdx + 1, endIdx)

\* The client asks for page after page until it gets an empty one.
GetNamespaces ==
    /\ srv = "serving" /\ ~pager.done
    /\ \E s \in SortedNamespaces :
         LET page == PageOf(s, pager.page, Limit) IN
         pager' = [pager EXCEPT !.page = @ + 1,
                                !.seen = @ \cup ToSet(page),
                                !.dup = @ \/ ToSet(page) \cap pager.seen # {},
                                !.done = page = <<>>]
    /\ UNCHANGED <<ns, now, srv, initPos, initFound>>

\* The client starts over.
PagerReset ==
    /\ pager.done
    /\ pager' = PagerStart
    /\ UNCHANGED <<ns, now, srv, initPos, initFound>>

-----------------------------------------------------------------------------

\* An empty bolt file, and a fresh process running InitData.
Init ==
    /\ ns = [n \in Names |-> Nil]
    /\ now = 0
    /\ srv = "init" /\ initPos = 1 /\ initFound = Nil
    /\ pager = PagerStart

Next ==
    \/ InitGet \/ InitAdd \/ InitDone \/ Restart \/ Tick
    \/ \E n \in Names, o \in Owners, tk \in Tokens : AddNamespace(n, o, tk)
    \/ \E n \in Names, o \in Owners : UpdateNamespace(n, o)
    \/ \E n \in Names, tk \in Tokens : UpdateNamespaceToken(n, tk)
    \/ GetNamespaces \/ PagerReset

Spec == Init /\ [][Next]_vars

-----------------------------------------------------------------------------
(* Properties.                                                             *)

TypeOK ==
    /\ ns \in [Names -> {Nil} \cup [owner : Owners \cup {BuiltinOwner},
                                     token : Tokens \cup Range(BuiltinToken),
                                     mtime : Time]]
    /\ now \in Time
    /\ srv \in {"init", "serving", "failed"}
    /\ initPos \in 1 .. Len(Builtins) + 1
    /\ initFound \in {Nil, "found", "missing"}
    /\ pager \in [page : Nat, seen : SUBSET Names, dup : BOOLEAN,
                  quiet : BOOLEAN, done : BOOLEAN]

\* Once InitData has returned nil and the server serves, both built-in
\* namespaces exist, whatever crashes and failed commits came before.
BuiltinsPresentWhenServing ==
    srv = "serving" => \A i \in 1 .. Len(Builtins) : ns[Builtins[i]] # Nil

\* A client that pages through GetNamespaces with nothing written meanwhile
\* sees every namespace, and sees none twice.
PagingCoversOnce ==
    pager.done /\ pager.quiet => pager.seen = Present /\ ~pager.dup

=============================================================================
