------------------------ MODULE MCSqlInstanceStore ------------------------
(* Two callers and one instance id: every race of the store is between two *)
(* calls on the same id.                                                   *)
EXTENDS SqlInstanceStore
=============================================================================
