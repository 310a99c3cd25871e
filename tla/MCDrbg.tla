-------------------------------- MODULE MCDrbg --------------------------------
(* Drbg with a V of 2, outputs of at most 4, and reseeding after 2 outputs. *)
EXTENDS Drbg
=============================================================================
