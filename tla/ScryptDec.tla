------------------------------ MODULE ScryptDec ------------------------------
(***************************************************************************)
(* Decryption of a file (lib/scryptenc/scryptenc.c): scryptdec_file_prep   *)
(* reads the whole encrypted stream into a spool and authenticates it,     *)
(* scryptdec_file_copy decrypts the spool, scryptdec_file does both.  Each *)
(* turn of a loop is a step; between two steps the input file may change.  *)
(*                                                                         *)
(* HMAC is ideal: what is hashed has an authenticator that the input can   *)
(* hold only if an encryptor computed it (Tag).  AES-CTR is the pairing of *)
(* a cell with its place in the stream (see AesCtr).                       *)
(***************************************************************************)
EXTENDS Integers, Sequences

CONSTANTS
  Cells,        \* what a byte of the body of an input may be
  Authentic,    \* ciphertexts an encryptor produced with this key and header
  Tag,          \* the authenticator it computed of each
  TagLen,       \* the length of an authenticator: 32
  EncBlock,     \* ENCBLOCK: 65536
  Inputs,       \* what may follow the header in the input file
  Headers,      \* kinds of headers: see HeaderFault
  Forced,       \* the values of force that are used
  Nothing       \* stands for no ciphertext in the abstract specification

ASSUME SizeAssumption == TagLen \in Nat \ {0} /\ EncBlock \in Nat \ {0}
HeaderKinds == {"short", "magic", "version", "truncated", "checksum", "params",
                "signature", "good"}

ASSUME DataAssumption == /\ Authentic \subseteq Seq(Cells)
                         /\ Headers \subseteq HeaderKinds
                         /\ Inputs \subseteq Seq(Cells) /\ Inputs # {}
                         /\ Forced \subseteq BOOLEAN
ASSUME TagAssumption == /\ Tag \in [Authentic -> Seq(Cells)]
                        /\ \A d \in Authentic : Len(Tag[d]) = TagLen
ASSUME NothingAssumption == Nothing \notin Authentic

VARIABLES
  pc,          \* where the current call is; "idle" between calls
  op,          \* the call: "prep", "copy" or "file" (scryptdec_file)
  rc,          \* what the last call returned
  header,      \* the kind of header the input has
  content, pos,    \* what follows it, and how much of that is read
  rdError,     \* ferror(infile)
  cookie,      \* "none" (not allocated, or freed), "prep", "valid" (returned)
  dk,          \* the derived keys in the cookie: "none", "junk", "key", "zero"
  spool, spoolOpen,   \* C->authenticated: its contents; whether it is open
  spoolPos, spoolError,
  buf,         \* the retained end of what was read
  hashed,      \* what the HMAC context of the body has been given
  ctr,         \* bytes the AES-CTR stream of this copy has processed
  out,         \* what has been written to the current output
  clean        \* no fault, no change of the input since the call began

filevars == <<header, content, pos, rdError>>
spoolvars == <<spool, spoolOpen, spoolPos, spoolError>>
workvars == <<buf, hashed, ctr>>
vars == <<pc, op, rc, filevars, cookie, dk, spoolvars, workvars, out, clean>>

-----------------------------------------------------------------------------
\* The error codes of scryptenc.h this component returns.
Codes == {"OK", "ELIMIT", "ECLOCK", "EKEY", "EOPENSSL", "ENOMEM", "EINVAL",
          "EVERSION", "ETOOBIG", "ETOOSLOW", "EPASS", "EWRFILE", "ERDFILE",
          "ETMPFILE", "EBIGSLOW"}

\* What scryptdec_file_load_header and scryptdec_setup make of a header; the
\* passphrase is part of it, because a wrong one is seen as a bad signature.
HeaderFault(h) ==
  CASE h \in {"short", "magic", "truncated", "checksum", "params"} -> "EINVAL"
    [] h = "version" -> "EVERSION"
    [] h = "signature" -> "EPASS"
    [] h = "good" -> "OK"
LoadedHeaders == {"checksum", "params", "signature", "good"}

\* What the resource limits may give, when they are consulted.
LimitFaults == {"ELIMIT", "ECLOCK", "ENOMEM", "ETOOBIG", "ETOOSLOW", "EBIGSLOW"}

Smaller(m, n) == IF m < n THEN m ELSE n

\* The cells of s from place i on, n of them.
Piece(s, i, n) == SubSeq(s, i + 1, i + n)

\* fread of up to want cells of s from place p: all there is of them, or fewer
\* with the error indicator set.  fails says which.
Fread(s, p, want, n, fails) ==
  LET there == IF p >= Len(s) THEN 0 ELSE Smaller(want, Len(s) - p) IN
  IF fails THEN n \in 0..there /\ n < want ELSE n = there

Init ==
  /\ pc = "idle" /\ op = "prep" /\ rc = "OK"
  /\ header \in Headers /\ content \in Inputs /\ pos = 0 /\ rdError = FALSE
  /\ cookie = "none" /\ dk = "none"
  /\ spool = <<>> /\ spoolOpen = FALSE /\ spoolPos = 0 /\ spoolError = FALSE
  /\ buf = <<>> /\ hashed = <<>> /\ ctr = 0
  /\ out = <<>> /\ clean = TRUE

\* scryptdec_file_cookie_free: closes (and so removes) the spool, zeroes the
\* keys.
FreeCookie ==
  /\ cookie' = "none" /\ dk' = "zero"
  /\ spool' = <<>> /\ spoolOpen' = FALSE
  /\ spoolPos' = 0 /\ spoolError' = FALSE

Return(code) == pc' = "idle" /\ rc' = code

\* The locals of scryptdec_file_prep go with its frame.
DropLocals == buf' = <<>> /\ hashed' = <<>>

\* goto err1 of scryptdec_file_prep, with rc set.
PrepFails(code) ==
  /\ rc' = code /\ pc' = "err1"
  /\ UNCHANGED <<op, header, content, cookie, dk, spoolvars, workvars, out>>

-----------------------------------------------------------------------------
\* A caller opens an input file and calls scryptdec_file_prep or
\* scryptdec_file.
Prep ==
  /\ pc = "idle" /\ cookie = "none"
  /\ op' \in {"prep", "file"}
  /\ header' \in Headers /\ content' \in Inputs
  /\ pos' = 0 /\ rdError' = FALSE
  /\ out' = <<>>
  /\ \/ pc' = "header" /\ cookie' = "prep" /\ dk' = "junk" /\ UNCHANGED rc
     \/ /\ Return("ENOMEM")                        \* malloc of the cookie
        /\ UNCHANGED <<cookie, dk>>
  /\ clean' = (pc' = "header")
  /\ UNCHANGED <<spoolvars, workvars>>

\* scryptdec_file_load_header.
LoadHeader ==
  /\ pc = "header"
  /\ \/ /\ header \in LoadedHeaders
        /\ pc' = "setup"
        /\ UNCHANGED <<op, rc, filevars, cookie, dk, spoolvars, workvars, out, clean>>
     \/ /\ header \notin LoadedHeaders
        /\ PrepFails(HeaderFault(header))
        /\ UNCHANGED <<pos, rdError, clean>>
     \/ /\ rdError' = TRUE /\ clean' = FALSE       \* a read of it fails
        /\ PrepFails("ERDFILE")
        /\ UNCHANGED pos

\* scryptdec_setup: the checksum, the limits unless force, the key, and the
\* header's signature; then tmpfile.
Setup ==
  /\ pc = "setup"
  /\ \/ /\ header \in {"checksum", "params"}
        /\ PrepFails(HeaderFault(header))
        /\ UNCHANGED clean
     \/ /\ header \in {"signature", "good"}
        /\ \/ \E force \in Forced, e \in LimitFaults :
                /\ force => e = "ENOMEM"           \* display_params only
                /\ PrepFails(e)
           \/ PrepFails("EKEY")
        /\ clean' = FALSE
     \/ /\ header = "signature"
        /\ PrepFails(HeaderFault(header))
        /\ UNCHANGED clean
     \/ /\ header = "good"
        /\ PrepFails("ETMPFILE")
        /\ clean' = FALSE
     \/ /\ header = "good"
        /\ dk' = "key"
        /\ spoolOpen' = TRUE
        /\ pc' = "read"
        /\ UNCHANGED <<op, rc, header, content, cookie, spool, spoolPos,
                       spoolError, workvars, out, clean>>
  /\ UNCHANGED <<pos, rdError>>

\* Of the cells new, after reading n, how many are hashed and spooled.
HeadLen_PerRead(new, n) == n - TagLen   \* mutant: forgets what was held back
HeadLen(new, n) == Len(new) - TagLen

\* What is held back of them.
Retain(new, done) == Piece(new, done, TagLen)

\* fread returned nothing.
EndOfInput_Wait == UNCHANGED pc         \* mutant: tries again
EndOfInput == pc' = "verify"

\* fseek to the start and clearerr.
Rewind_Clearerr == UNCHANGED spoolPos /\ spoolError' = FALSE   \* mutant
Rewind == spoolPos' = 0 /\ spoolError' = FALSE

\* fwrite to the spool comes short.
SpoolFails_Returns ==                   \* mutant: returns the code at once
  /\ Return("ETMPFILE")
  /\ DropLocals
  /\ UNCHANGED <<op, header, content, cookie, dk, spoolvars, ctr, out>>
SpoolFails == PrepFails("ETMPFILE")

\* A turn of the loop that reads: n cells come, and all that is read but the
\* last TagLen is hashed and spooled.
ReadBlock ==
  /\ pc = "read"
  /\ \E fails \in BOOLEAN, n \in 0..(EncBlock + TagLen) :
       LET new == buf \o Piece(content, pos, n)
           done == HeadLen(new, n)
           head == Piece(new, 0, done)
       IN
       /\ Fread(content, pos, EncBlock + TagLen - Len(buf), n, fails)
       /\ rdError' = (rdError \/ fails)
       /\ pos' = pos + n
       /\ \/ /\ n = 0
             /\ EndOfInput
             /\ clean' = (clean /\ ~fails)
             /\ UNCHANGED <<op, rc, header, content, cookie, dk, spoolvars,
                            workvars, out>>
          \/ /\ n > 0 /\ done <= 0
             /\ buf' = new
             /\ clean' = (clean /\ ~fails)
             /\ UNCHANGED <<pc, op, rc, header, content, cookie, dk, spoolvars,
                            hashed, ctr, out>>
          \/ /\ n > 0 /\ done > 0
             /\ hashed' = hashed \o head
             /\ spool' = spool \o head
             /\ buf' = Retain(new, done)
             /\ spoolPos' = Len(spool')
             /\ clean' = (clean /\ ~fails)
             /\ UNCHANGED <<pc, op, rc, header, content, cookie, dk, spoolOpen,
                            spoolError, ctr, out>>
          \/ /\ n > 0 /\ done > 0
             /\ SpoolFails
             /\ clean' = FALSE

\* The final HMAC of what was hashed is t.
HmacIs(t) == hashed \in Authentic /\ t = Tag[hashed]

\* What the code does with what it has read.
VerifyFault_NoHmac ==                   \* mutant: only looks at the length
  IF rdError THEN "ERDFILE" ELSE IF Len(buf) < TagLen THEN "EINVAL" ELSE "OK"
VerifyFault_NoFerror ==                 \* mutant: takes an error for the end
  IF Len(buf) < TagLen \/ ~HmacIs(buf) THEN "EINVAL" ELSE "OK"
VerifyFault ==
  IF rdError THEN "ERDFILE"
  ELSE IF Len(buf) < TagLen \/ ~HmacIs(buf) THEN "EINVAL"
  ELSE "OK"

\* The checks after the loop, and rewinding the spool.
Verify ==
  /\ pc = "verify"
  /\ \/ /\ VerifyFault # "OK"
        /\ PrepFails(VerifyFault)
        /\ UNCHANGED clean
     \/ /\ VerifyFault = "OK"                      \* fseek fails
        /\ PrepFails("ETMPFILE")
        /\ clean' = FALSE
     \/ /\ VerifyFault = "OK"
        /\ cookie' = "valid"
        /\ Rewind
        /\ IF op = "file" THEN pc' = "copy" /\ UNCHANGED rc ELSE Return("OK")
        /\ DropLocals
        /\ UNCHANGED <<op, header, content, dk, spool, spoolOpen, ctr, out, clean>>
  /\ UNCHANGED <<pos, rdError>>

\* The label err1 of scryptdec_file_prep; scryptdec_file goes on to its err0,
\* which returns the same code.
Err1 ==
  /\ pc = "err1"
  /\ pc' = "idle"
  /\ FreeCookie
  /\ DropLocals
  /\ UNCHANGED <<op, rc, filevars, ctr, out, clean>>
-----------------------------------------------------------------------------
\* The end of scryptdec_file_copy, whose AES-CTR stream goes; scryptdec_file
\* goes on to free its cookie.
CopyReturns(code) ==
  /\ rc' = code
  /\ ctr' = 0
  /\ pc' = IF op = "file" THEN "free" ELSE "idle"

\* scryptdec_file_copy into a new output.
Copy ==
  /\ pc = "idle" /\ cookie = "valid"
  /\ pc' = "copy" /\ op' = "copy"
  /\ out' = <<>> /\ clean' = TRUE
  /\ UNCHANGED <<rc, filevars, cookie, dk, spoolvars, workvars>>

\* Its start: the spool is rewound, the key expanded, a stream set up.
CopyStart ==
  /\ pc = "copy"
  /\ \/ /\ pc' = "decrypt"
        /\ Rewind /\ ctr' = 0
        /\ UNCHANGED <<rc, clean>>
     \/ /\ \E e \in {"ETMPFILE", "EOPENSSL", "ENOMEM"} : CopyReturns(e)
        /\ clean' = FALSE
        /\ UNCHANGED <<spoolPos, spoolError>>
  /\ UNCHANGED <<op, filevars, cookie, dk, spool, spoolOpen, buf, hashed, out>>

\* Decryption of n cells of the spool at the place the stream is at.
Decrypted_NewStream(n) ==               \* mutant: a new stream for each block
  [i \in 1..n |-> [cell |-> spool[spoolPos + i], at |-> i - 1]]
Decrypted(n) == [i \in 1..n |-> [cell |-> spool[spoolPos + i], at |-> ctr + i - 1]]

\* A turn of the loop: the write may stop after m cells.
CopyBlock ==
  /\ pc = "decrypt"
  /\ \E fails \in BOOLEAN, n \in 0..EncBlock :
       /\ Fread(spool, spoolPos, EncBlock, n, fails)
       /\ spoolError' = (spoolError \/ fails)
       /\ \/ /\ n = 0
             /\ \E e \in {"ETMPFILE", "OK"} :
                  (e = "OK" <=> ~spoolError') /\ CopyReturns(e)
             /\ clean' = (clean /\ ~fails)
             /\ UNCHANGED <<spoolPos, out>>
          \/ /\ n > 0
             /\ out' = out \o Decrypted(n)
             /\ spoolPos' = spoolPos + n /\ ctr' = ctr + n
             /\ clean' = (clean /\ ~fails)
             /\ UNCHANGED <<pc, rc>>
          \/ /\ n > 0
             /\ \E m \in 0..(n - 1) : out' = out \o Decrypted(m)
             /\ spoolPos' = spoolPos + n
             /\ CopyReturns("EWRFILE")
             /\ clean' = FALSE
  /\ UNCHANGED <<op, filevars, cookie, dk, spool, spoolOpen, buf, hashed>>

\* scryptdec_file_cookie_free, by scryptdec_file or by the caller of _prep.
Free(where) ==
  /\ pc = where /\ cookie = "valid"
  /\ FreeCookie
  /\ pc' = "idle"
  /\ UNCHANGED <<op, rc, filevars, workvars, out, clean>>

\* Somebody rewrites the input file; what was read of it stays read.
Rewrite ==
  /\ content' \in Inputs \ {content}
  /\ clean' = FALSE
  /\ UNCHANGED <<pc, op, rc, header, pos, rdError, cookie, dk, spoolvars, workvars, out>>

Steps == LoadHeader \/ Setup \/ ReadBlock \/ Verify \/ Err1 \/ CopyStart \/ CopyBlock
         \/ Free("free")
Next == Prep \/ Copy \/ Free("idle") \/ Rewrite \/ Steps

Spec == Init /\ [][Next]_vars

\* The process runs a call it has entered to its end.
FairSpec == Spec /\ WF_vars(Steps)
-----------------------------------------------------------------------------
Released == [cell : Cells, at : Nat]

\* Types; the cookie's keys and spool are there when they are used.
TypeOK ==
  /\ pc \in {"idle", "header", "setup", "read", "verify", "err1", "copy", "decrypt", "free"}
  /\ op \in {"prep", "copy", "file"}
  /\ rc \in Codes
  /\ header \in Headers
  /\ content \in Inputs
  /\ pos \in Nat /\ rdError \in BOOLEAN
  /\ cookie \in {"none", "prep", "valid"}
  /\ dk \in {"none", "junk", "key", "zero"}
  /\ spool \in Seq(Cells) /\ spoolOpen \in BOOLEAN
  /\ spoolPos \in Nat /\ spoolError \in BOOLEAN
  /\ buf \in Seq(Cells) /\ Len(buf) <= TagLen /\ hashed \in Seq(Cells) /\ ctr \in Nat
  /\ out \in Seq(Released)
  /\ clean \in BOOLEAN

\* o is the decryption of the beginning of ciphertext d.
DecryptsPrefix(o, d) ==
  /\ Len(o) <= Len(d)
  /\ \A i \in 1..Len(o) : o[i] = [cell |-> d[i], at |-> i - 1]

\* No plaintext is written before the whole stream is authenticated, whoever
\* changes the input while it is read or after: all that any output ever holds
\* is the beginning of something an encryptor encrypted.
NoUnauthenticatedPlaintext ==
  out # <<>> => \E d \in Authentic : DecryptsPrefix(out, d)

\* A copy that succeeds is whole, however often the cookie was copied before
\* and with whatever errors those copies ended.
SuccessfulCopyIsWhole ==
  pc = "idle" /\ op \in {"copy", "file"} /\ rc = "OK"
    => \E d \in Authentic : /\ Len(out) = Len(d) /\ DecryptsPrefix(out, d)
                            /\ cookie = "valid" => d = spool

\* A read error in the middle of the input is never taken for its end, even
\* when later reads succeed: no cookie comes out of it.
ReadErrorRejects == rdError => cookie # "valid"

\* No exit of scryptdec_file_prep or of scryptdec_file, from any place and with
\* any code, leaves behind a cookie that its caller does not get: a half-made
\* one never outlives the call, a prep that fails and every scryptdec_file give
\* theirs back, and then no spool is open and no key is left in memory.  A
\* failing copy leaves the caller's cookie to the caller.
FailureLeavesNothing ==
  pc = "idle" =>
    /\ cookie # "prep"
    /\ op = "prep" /\ rc # "OK" => cookie = "none"
    /\ op = "file" => cookie = "none"
    /\ cookie = "none" => ~spoolOpen /\ dk \in {"none", "zero"}

\* A whole, unchanged file with a good header is accepted when nothing fails:
\* the loop that holds back the authenticator loses no byte at any length.
AuthenticIsAccepted ==
  pc = "idle" /\ op \in {"prep", "file"} /\ clean /\ header = "good"
  /\ (\E d \in Authentic : content = d \o Tag[d]) => rc = "OK"

\* Decryption implements authenticated release.
Abstract == INSTANCE AuthRelease
  WITH verdict <- IF cookie = "valid" THEN spool ELSE Nothing
ImplementsAuthRelease == Abstract!ASpec

\* Every call returns.
CallReturns == pc # "idle" ~> pc = "idle"
=============================================================================
