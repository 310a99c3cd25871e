------------------------------ MODULE ScryptEnc ------------------------------
(***************************************************************************)
(* Encryption (lib/scryptenc/scryptenc.c): scryptenc_file writes a header, *)
(* the encrypted input block by block, and an authenticator of all of it;  *)
(* scryptenc_buf does the same in memory, scryptdec_buf undoes it.  The    *)
(* input file may change while it is read, every write may stop short.     *)
(*                                                                         *)
(* A cell stands for a byte: <<"h", i>> of the header, <<"c", x, i>> the   *)
(* encryption of x at place i of the stream, <<"m", s, i>> of the HMAC of  *)
(* s, which is ideal.                                                      *)
(***************************************************************************)
EXTENDS Integers, Sequences

CONSTANTS
  Bytes,        \* what a byte of an input may be
  Inputs,       \* contents of input files and buffers
  HeaderLen,    \* length of a header: 96
  MagicLen,     \* of the magic that begins it: 6; the version is next
  SumLen,       \* of what its checksum covers and the checksum: 64
  TagLen,       \* of an authenticator: 32
  EncBlock,     \* ENCBLOCK: 65536
  Forged        \* a byte that none of the functions writes

ASSUME SizeAssumption == /\ HeaderLen \in Nat /\ SumLen \in 1..HeaderLen
                         /\ MagicLen \in 1..(SumLen - 1)
                         /\ TagLen \in Nat \ {0} /\ EncBlock \in Nat \ {0}
ASSUME DataAssumption == Inputs \subseteq Seq(Bytes) /\ Inputs # {}

VARIABLES
  pc,              \* where the call is; "idle" between calls
  op,              \* "file" (scryptenc_file) or "buf" (scryptenc_buf)
  rc,              \* what the last call returned
  content, pos,    \* the input, and how much of it has been read
  rdError,         \* ferror(infile)
  dk,              \* the derived keys: "none", "key", "zero"
  hashed,          \* what the HMAC context has been given
  taken,           \* what was read and encrypted
  out,             \* the output of the last call
  clean,           \* the input was not changed since the call began
  dec              \* what the last scryptdec_buf was given, returned and wrote

invars == <<content, pos, rdError>>
vars == <<pc, op, rc, invars, dk, hashed, taken, out, clean, dec>>

-----------------------------------------------------------------------------
\* What the resource limits and the parameters may give: see checkparams and
\* pickparams.
CheckResults == {"OK", "EINVAL", "ELIMIT", "ECLOCK", "ENOMEM", "ETOOBIG",
                 "ETOOSLOW", "EBIGSLOW"}
PickResults == {"OK", "ELIMIT", "ECLOCK", "ENOMEM"}

\* What scryptenc_setup makes of a result of checkparams: limits only warn.
Suppressed(e) ==
  IF e \in {"ETOOBIG", "ETOOSLOW", "EBIGSLOW"} THEN "OK"
  ELSE IF e = "EINVAL" THEN "EPARAM"
  ELSE e

\* Results of scryptenc_setup.
SetupResults == {Suppressed(e) : e \in CheckResults} \cup PickResults
                \cup {"ESALT", "EKEY"}

Smaller(m, n) == IF m < n THEN m ELSE n
Piece(s, i, n) == SubSeq(s, i + 1, i + n)

\* fread of up to want cells of s from place p: all there is of them, or fewer
\* with the error indicator set.
Fread(s, p, want, n, fails) ==
  LET there == IF p >= Len(s) THEN 0 ELSE Smaller(want, Len(s) - p) IN
  IF fails THEN n \in 0..there /\ n < want ELSE n = there

Header == [i \in 1..HeaderLen |-> <<"h", i>>]

\* AES-CTR of s from place p of its stream on.
Encrypted(s, p) == [i \in 1..Len(s) |-> <<"c", s[i], p + i>>]

\* HMAC of s.
Hmac(s) == [i \in 1..TagLen |-> <<"m", s, i>>]

NoDec == [given |-> <<>>, rc |-> "OK", plain |-> <<>>, outlen |-> 0]

Init ==
  /\ pc = "idle" /\ op = "file" /\ rc = "EPARAM"
  /\ content \in Inputs /\ pos = 0 /\ rdError = FALSE
  /\ dk = "none" /\ hashed = <<>> /\ taken = <<>> /\ out = <<>>
  /\ clean = TRUE /\ dec = NoDec

\* Mutant: the early exits forget the keys.
Return_KeepKeys(code) ==
  /\ pc' = "idle" /\ rc' = code
  /\ dk' = IF code = "OK" THEN "zero" ELSE dk
  /\ hashed' = <<>>

\* Both exits zero the keys; the HMAC context goes with the frame.
Return(code) ==
  /\ pc' = "idle" /\ rc' = code
  /\ dk' = "zero"
  /\ hashed' = <<>>

-----------------------------------------------------------------------------
\* A caller calls scryptenc_file on an open file or scryptenc_buf on a buffer.
Call ==
  /\ pc = "idle"
  /\ op' \in {"file", "buf"}
  /\ content' \in Inputs /\ pos' = 0 /\ rdError' = FALSE
  /\ pc' = "setup" /\ dk' = "none"
  /\ out' = <<>> /\ taken' = <<>> /\ clean' = TRUE /\ dec' = NoDec
  /\ UNCHANGED <<rc, hashed>>

\* scryptenc_setup, and hashing the header; scryptenc_buf copies it out.
Setup ==
  /\ pc = "setup"
  /\ \/ /\ \E e \in SetupResults \ {"OK"} : Return(e)
        /\ UNCHANGED out
     \/ /\ dk' = "key" /\ hashed' = Header
        /\ out' = IF op = "buf" THEN Header ELSE <<>>
        /\ pc' = IF op = "buf" THEN "whole" ELSE "header"
        /\ UNCHANGED rc
  /\ UNCHANGED <<op, invars, taken, clean, dec>>

\* fwrite of the header, which may stop after m cells; then the key is
\* expanded and the stream set up.
WriteHeader ==
  /\ pc = "header"
  /\ \/ /\ \E m \in 0..(HeaderLen - 1) : out' = Piece(Header, 0, m)
        /\ Return("EWRFILE")
     \/ /\ out' = Header
        /\ \E e \in {"EOPENSSL", "ENOMEM"} : Return(e)
     \/ /\ out' = Header
        /\ pc' = "encrypt"
        /\ UNCHANGED <<rc, dk, hashed>>
  /\ UNCHANGED <<op, invars, taken, clean, dec>>

\* Leaving the loop: ferror decides.
EndOfInput_NoFerror(error) == pc' = "tag" /\ UNCHANGED <<rc, dk, hashed>>  \* mutant
EndOfInput(error) ==
  IF error THEN Return("ERDFILE") ELSE pc' = "tag" /\ UNCHANGED <<rc, dk, hashed>>

\* Mutant: hashes what it read, not what it writes.
Hashed_Plain(read, cipher) == hashed \o read
Hashed(read, cipher) == hashed \o cipher

\* A turn of the loop: a block is read, encrypted, hashed and written.
Block ==
  /\ pc = "encrypt"
  /\ \E fails \in BOOLEAN, n \in 0..EncBlock :
       LET read == Piece(content, pos, n)
           cipher == Encrypted(read, Len(taken))
       IN
       /\ Fread(content, pos, EncBlock, n, fails)
       /\ pos' = pos + n
       /\ rdError' = (rdError \/ fails)
       /\ IF n = 0
            THEN EndOfInput(rdError') /\ UNCHANGED <<taken, out>>
            ELSE /\ taken' = taken \o read
                 /\ \/ /\ out' = out \o cipher
                       /\ hashed' = Hashed(read, cipher)
                       /\ UNCHANGED <<pc, rc, dk>>
                    \/ /\ \E m \in 0..(n - 1) : out' = out \o Piece(cipher, 0, m)
                       /\ Return("EWRFILE")
  /\ UNCHANGED <<op, content, clean, dec>>

\* The final HMAC is written, perhaps not all of it.
WriteTag ==
  /\ pc = "tag"
  /\ \/ out' = out \o Hmac(hashed) /\ Return("OK")
     \/ /\ \E m \in 0..(TagLen - 1) : out' = out \o Piece(Hmac(hashed), 0, m)
        /\ Return("EWRFILE")
  /\ UNCHANGED <<op, invars, taken, clean, dec>>

\* The rest of scryptenc_buf.
WholeBuf ==
  /\ pc = "whole"
  /\ \/ /\ \E e \in {"EOPENSSL", "ENOMEM"} : Return(e)
        /\ UNCHANGED <<taken, out>>
     \/ /\ LET cipher == Encrypted(content, 0) IN
           out' = Header \o cipher \o Hmac(Header \o cipher)
        /\ taken' = content
        /\ Return("OK")
  /\ UNCHANGED <<op, invars, clean, dec>>

\* Somebody changes the input file while it is being encrypted.
Rewrite ==
  /\ pc = "encrypt"
  /\ content' \in Inputs \ {content}
  /\ clean' = FALSE
  /\ UNCHANGED <<pc, op, rc, pos, rdError, dk, hashed, taken, out, dec>>
-----------------------------------------------------------------------------
\* What scryptdec_buf makes of the buffer b, when nothing fails.
DecFault_NoMac(b, right) ==             \* mutant: does not verify
  IF Len(b) < HeaderLen + TagLen \/ Piece(b, 0, HeaderLen) # Header THEN "EINVAL"
  ELSE IF ~right THEN "EPASS"
  ELSE "OK"
DecFault(b, right) ==
  LET body == Len(b) - TagLen
      Has(n) == Piece(b, 0, n) = Piece(Header, 0, n)
  IN
  IF Len(b) <= MagicLen \/ ~Has(MagicLen) THEN "EINVAL"
  ELSE IF ~Has(MagicLen + 1) THEN "EVERSION"
  ELSE IF body < HeaderLen \/ ~Has(SumLen) THEN "EINVAL"        \* 128 bytes; checksum
  ELSE IF ~right \/ ~Has(HeaderLen) THEN "EPASS"               \* header signature
  ELSE IF Piece(b, body, TagLen) # Hmac(Piece(b, 0, body)) THEN "EINVAL"
  ELSE "OK"

\* The decryption of cipher: a cell decrypts only at its place.
Decrypted(cipher) ==
  [i \in 1..Len(cipher) |->
     IF cipher[i][1] = "c" /\ cipher[i][3] = i THEN cipher[i][2] ELSE Forged]

\* Buffers scryptdec_buf may be given: the output, the beginning of one, an
\* output with something appended or with a byte replaced.
Buffers ==
  {Piece(out, 0, m) : m \in 0..Len(out)}
  \cup {Append(out, <<"x", Forged>>)}
  \cup {[out EXCEPT ![i] = <<"x", Forged>>] : i \in 1..Len(out)}

\* A caller calls scryptdec_buf with some passphrase: the limits, the key
\* derivation and AES may fail once the header's checksum is right.
DecBuf ==
  /\ pc = "idle" /\ dec = NoDec
  /\ \E b \in Buffers, right \in BOOLEAN :
       LET none == [given |-> b, rc |-> DecFault(b, right), plain |-> <<>>, outlen |-> 0]
           size == Len(b) - (HeaderLen + TagLen)
       IN
       \/ /\ none.rc # "OK"
          /\ dec' = none
       \/ /\ size >= 0 /\ Piece(b, 0, SumLen) = Piece(Header, 0, SumLen)
          /\ \E e \in (CheckResults \ {"OK", "EINVAL"}) \cup {"EKEY", "EOPENSSL"} :
               dec' = [none EXCEPT !.rc = e]
       \/ /\ none.rc = "OK"
          /\ dec' = [none EXCEPT !.plain = Decrypted(Piece(b, HeaderLen, size)),
                                 !.outlen = size]
  /\ UNCHANGED <<pc, op, rc, invars, dk, hashed, taken, out, clean>>

Steps == Setup \/ WriteHeader \/ Block \/ WriteTag \/ WholeBuf
Next == Call \/ Rewrite \/ DecBuf \/ Steps

Spec == Init /\ [][Next]_vars
-----------------------------------------------------------------------------
Codes == {"OK", "ELIMIT", "ECLOCK", "EKEY", "ESALT", "EOPENSSL", "ENOMEM",
          "EWRFILE", "ERDFILE", "EPARAM"}

\* Types; the codes are those of encryption: limits that explicit parameters
\* exceed never refuse one.
TypeOK ==
  /\ pc \in {"idle", "setup", "header", "encrypt", "tag", "whole"}
  /\ op \in {"file", "buf"} /\ rc \in Codes
  /\ content \in Inputs /\ pos \in Nat /\ rdError \in BOOLEAN
  /\ dk \in {"none", "key", "zero"}
  /\ taken \in Seq(Bytes) /\ clean \in BOOLEAN

\* The whole encrypted stream of plaintext p.
Sealed(p) == LET s == Header \o Encrypted(p, 0) IN s \o Hmac(s)

\* A success has written the whole encryption of what was read, whatever else
\* happened to the input, and that is the whole input when nobody changed it.
SuccessIsWhole ==
  pc = "idle" /\ rc = "OK" => out = Sealed(taken) /\ (clean => taken = content)

\* What decrypts is the output of a successful encryption, unaltered, and it
\* decrypts to what was encrypted: neither what a failing call left behind, nor
\* a beginning or an alteration of an output, is ever accepted.
DecryptsToInput ==
  dec.rc = "OK" /\ dec # NoDec
    => rc = "OK" /\ dec.given = out /\ dec.plain = taken /\ dec.outlen = Len(taken)

\* No call leaves the keys in memory, whichever exit it takes.
KeysZeroed == pc = "idle" => dk # "key"

\* A read error never ends in an output that says it is complete.
ReadErrorFails == rdError => ~(pc = "idle" /\ rc = "OK") /\ pc # "tag"
=============================================================================
