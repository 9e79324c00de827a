-------------------------------- MODULE MCWots --------------------------------
(***************************************************************************)
(* All pairs of digests of three bytes of two binary digits, the largest   *)
(* whose checksum fits three digits: the assumption is tight.              *)
(***************************************************************************)
EXTENDS Wots
=============================================================================
