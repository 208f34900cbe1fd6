------------------------- MODULE MCNamespaceStore -------------------------
(* The namespace store with the two built-in namespaces of InitData and    *)
(* one namespace a user creates.                                           *)
EXTENDS NamespaceStore

MCBuiltins == <<"default", "Polaris">>
MCBuiltinToken == [n \in {"default", "Polaris"} |->
                      IF n = "default" THEN "tok_default" ELSE "tok_polaris"]
=============================================================================
