---------------------------- MODULE MCQueryArgs ----------------------------
(* Go's int and uint32 scaled to 8 and 6 bits, with the limits scaled to  *)
(* fit: the overflows happen at the same places relative to the widths.   *)
EXTENDS QueryArgs
=============================================================================
