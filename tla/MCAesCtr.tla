------------------------------ MODULE MCAesCtr -------------------------------
(* AesCtr on 2-byte blocks and a 3-valued counter byte: 14 bytes are seven  *)
(* blocks, so the low byte wraps twice after the wrap of the first block.   *)
EXTENDS AesCtr
=============================================================================
