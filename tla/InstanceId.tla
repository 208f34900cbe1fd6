------------------------------ MODULE InstanceId ------------------------------
(***************************************************************************)
(* Instance ids (src/naming/utils.go): CalculateInstanceID hashes the      *)
(* fields of an instance joined by "##", with the VPC id only when there   *)
(* is one, and the id is the key an instance is stored under.  The fields  *)
(* of a create request pass the validators of utils.go first:             *)
(* checkResourceName for namespace and service, checkInstanceHost and     *)
(* checkInstancePort (the handler that calls them is outside src).         *)
(*                                                                         *)
(* A string is a sequence of characters drawn from Chars, a small          *)
(* alphabet; NameClass is the part of it the class [0-9A-Za-z-.:_] of      *)
(* checkResourceName admits.  SHA-1 is taken as injective, so two ids are  *)
(* equal exactly when the strings hashed are.  io.WriteString on a hash    *)
(* never fails, so the error return is not modelled.                       *)
(*                                                                         *)
(* A step creates one more instance; the state is the set of requests      *)
(* created, up to MaxInstances.                                            *)
(***************************************************************************)
EXTENDS Naturals, Sequences, SequencesExt, FiniteSets

CONSTANTS
    Chars,         \* the characters strings are made of
    NameClass,     \* those matched by [0-9A-Za-z-.:_]
    MaxFieldLen,   \* longest field
    Ports,         \* port numbers a request may carry
    Vpcs,          \* VPC ids a request may carry ("" is <<>>)
    MaxInstances,  \* most instances created
    Nil            \* a nil wrapper (*wrappers.StringValue, UInt32Value)

ASSUME NameClass \subseteq Chars /\ "#" \in Chars

VARIABLE created  \* the create requests whose id has been calculated

Str == BoundedSeq(Chars, MaxFieldLen)

Requests == [ns : Str \cup {Nil}, svc : Str \cup {Nil}, vpc : Vpcs,
             host : Str \cup {Nil}, port : Ports \cup {Nil}]

-----------------------------------------------------------------------------
(* Validators (utils.go 94-163).                                           *)

\* checkResourceName: nil, empty, or a character outside the class fails.
CheckResourceName(name) ==
    /\ name # Nil /\ name # <<>>
    /\ \A i \in 1 .. Len(name) : name[i] \in NameClass

\* checkInstanceHost: only nil and empty are refused.
CheckInstanceHost(host) == host # Nil /\ host # <<>>

\* checkInstancePort: port < 0 on a uint32 never holds; only nil fails.
CheckInstancePort(port) == port # Nil

Accepted(r) ==
    /\ CheckResourceName(r.ns) /\ CheckResourceName(r.svc)
    /\ CheckInstanceHost(r.host) /\ CheckInstancePort(r.port)

-----------------------------------------------------------------------------
(* CalculateInstanceID (utils.go 265-282).                                 *)

Digits == <<"0", "1", "2", "3", "4", "5", "6", "7", "8", "9">>

\* %d of a uint32: its decimal digits.
RECURSIVE Decimal(_)
Decimal(n) == IF n < 10 THEN <<Digits[n + 1]>>
              ELSE Decimal(n \div 10) \o <<Digits[(n % 10) + 1]>>

Sep == <<"#", "#">>

\* The string hashed: ns##svc##host##port, or ns##svc##vpc##host##port.
CalculateInstanceID(r) ==
    IF r.vpc = <<>>
    THEN r.ns \o Sep \o r.svc \o Sep \o r.host \o Sep \o Decimal(r.port)
    ELSE r.ns \o Sep \o r.svc \o Sep \o r.vpc \o Sep \o r.host \o Sep \o Decimal(r.port)

-----------------------------------------------------------------------------

\* A create request passes the validators and its id is calculated.
Create ==
    /\ Cardinality(created) < MaxInstances
    /\ \E r \in Requests :
         /\ Accepted(r) /\ r \notin created
         /\ created' = created \cup {r}

Init == created = {}

Next == Create

Spec == Init /\ [][Next]_created

-----------------------------------------------------------------------------
(* Properties.                                                             *)

\* Any two different instances that pass the validators get different ids,
\* with or without a VPC id: the id identifies the instance.
InstanceIdsDistinct ==
    \A r1, r2 \in created :
        r1 # r2 => CalculateInstanceID(r1) # CalculateInstanceID(r2)
=============================================================================
