--------------------------- MODULE MCIgniteClient ---------------------------
(***************************************************************************)
(* IgniteClient for TLC: two callers, or one, and the opener.              *)
(***************************************************************************)
EXTENDS IgniteClient

CONSTANTS c1, c2, opener
=============================================================================
