---------------------------- MODULE MCSqlBatch ----------------------------
(* Chunks of 2 and of 3 over arguments of up to 9 elements: empty, one     *)
(* partial chunk, exactly one full chunk, full chunks and a partial rest,  *)
(* and exact multiples of both sizes.                                      *)
EXTENDS SqlBatch
=============================================================================
