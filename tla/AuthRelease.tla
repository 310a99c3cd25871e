----------------------------- MODULE AuthRelease -----------------------------
(***************************************************************************)
(* What decryption promises (scryptenc.h): a ciphertext is accepted whole  *)
(* before any of it is released, what is accepted was produced by an       *)
(* encryptor that knew the key, and what is released is the decryption of  *)
(* that ciphertext from its beginning.                                     *)
(***************************************************************************)
EXTENDS Sequences, Integers

CONSTANTS Authentic,   \* the ciphertexts encryptors produced with the key
          Nothing      \* no ciphertext has been accepted

VARIABLES verdict,     \* the ciphertext accepted, or Nothing
          out          \* what has been released

avars == <<verdict, out>>

\* The decryption of ciphertext d: each byte with its place in the stream.
Plain(d) == [i \in 1..Len(d) |-> [cell |-> d[i], at |-> i - 1]]

AInit == verdict = Nothing /\ out = <<>>

AAccept == /\ verdict = Nothing
           /\ verdict' \in Authentic
           /\ UNCHANGED out

ARelease == /\ verdict # Nothing
            /\ \E n \in Len(out)..Len(verdict) : out' = SubSeq(Plain(verdict), 1, n)
            /\ UNCHANGED verdict

\* A fresh output is empty, whatever is written to it later.
ANewOutput == out' = <<>> /\ UNCHANGED verdict

ADiscard == verdict' = Nothing /\ UNCHANGED out

ANext == AAccept \/ ARelease \/ ANewOutput \/ ADiscard

ASpec == AInit /\ [][ANext]_avars
=============================================================================
