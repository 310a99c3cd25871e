-------------------------------- MODULE Crypto --------------------------------
(***************************************************************************)
(* SHA-256, HMAC with PBKDF2, and the choice of an AES, as one             *)
(* specification.  They share no variable: what holds of each alone holds  *)
(* of them together, and a behaviour is of the one that part names.        *)
(***************************************************************************)
EXTENDS Sha256, Hmac, AesKeys

VARIABLE part      \* "sha256", "hmac" or "aes"

vars == <<part, shavars, hmacvars, keyvars>>

\* What the parts that do not move start from.
ShaRests == sha_offered = {} /\ sha_sound = {}
AesRests == build = "none" /\ aes_offered = FALSE /\ aes_sound = {}

Init ==
  /\ part \in {"sha256", "hmac", "aes"}
  /\ ShaInit /\ HInit /\ KInit
  /\ part # "sha256" => ShaRests
  /\ part # "aes" => AesRests

Next ==
  /\ UNCHANGED part
  /\ \/ part = "sha256" /\ ShaNext /\ UNCHANGED <<hmacvars, keyvars>>
     \/ part = "hmac" /\ HNext /\ UNCHANGED <<shavars, keyvars>>
     \/ part = "aes" /\ KNext /\ UNCHANGED <<shavars, hmacvars>>

Spec == Init /\ [][Next]_vars
=============================================================================
