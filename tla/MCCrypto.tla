------------------------------- MODULE MCCrypto -------------------------------
(***************************************************************************)
(* Blocks of 5 bytes with a count of 2, digests of 2.                      *)
(***************************************************************************)
EXTENDS Crypto
MCTransforms == <<"shani", "sse2">>
MCKeyLens == {0, 1, 4, 5, 6}
=============================================================================
