------------------------------ MODULE CtrStream ------------------------------
(***************************************************************************)
(* What an AES-CTR stream promises its caller (crypto_aesctr.h): byte i    *)
(* of the data is combined with byte i % Block of the encryption of the    *)
(* pair (nonce, i \div Block), however the data is cut into calls and      *)
(* whatever implementation of the loop runs.                               *)
(***************************************************************************)
EXTENDS Integers

CONSTANTS Block,    \* bytes in a cipherblock (16 in the code)
          Nonces    \* the nonces a caller passes

VARIABLES nonce,    \* the nonce of the current stream
          owed,     \* bytes the caller asked for and has not got yet
          pos,      \* bytes delivered since the stream was set up
          out       \* out[i]: the keystream byte that covered byte i

avars == <<nonce, owed, pos, out>>

\* Byte i of the keystream, as the definition of CTR mode has it.
KeystreamByte(n, i) == [nonce |-> n, ctr |-> i \div Block, off |-> i % Block]

AInit == /\ nonce \in Nonces
         /\ owed = 0
         /\ pos = 0
         /\ out = [i \in {} |-> 0]

ARestart == /\ nonce' \in Nonces
            /\ owed' = 0
            /\ pos' = 0
            /\ out' = [i \in {} |-> 0]

ARequest == /\ owed = 0
            /\ owed' \in Nat
            /\ UNCHANGED <<nonce, pos, out>>

ADeliver == \E n \in 0..owed :
              /\ owed' = owed - n
              /\ pos' = pos + n
              /\ out' = [i \in 0..(pos + n - 1) |-> KeystreamByte(nonce, i)]
              /\ UNCHANGED nonce

ANext == ARestart \/ ARequest \/ ADeliver

ASpec == AInit /\ [][ANext]_avars
=============================================================================
