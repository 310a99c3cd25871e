----------------------------- MODULE MCScryptEnc -----------------------------
(* ScryptEnc with a 4-cell header (magic, version, checksum and signature),   *)
(* 2-cell authenticators and blocks, inputs of up to 4 bytes: empty, within a *)
(* block, at its boundary and beyond.                                         *)
EXTENDS ScryptEnc

CONSTANTS a, b

MCInputs == {<<>>, <<a>>, <<a, b>>, <<b, a, b>>, <<a, a, b, b>>}
=============================================================================
