------------------------------- MODULE AesCtr --------------------------------
(***************************************************************************)
(* The AES-CTR stream of libcperciva/crypto (crypto_aesctr.c, the code it  *)
(* shares with the AESNI and ARM variants, and those variants).  A call of *)
(* crypto_aesctr_stream is a sequence of steps: the bytes that complete a  *)
(* cipherblock, the whole blocks one at a time, the bytes after them.      *)
(*                                                                         *)
(* The counter half of pblk is kept as the code keeps it: its last byte is *)
(* incremented on its own, and the eight bytes are written together only   *)
(* when that byte wraps; until the first block the seven high bytes hold   *)
(* whatever malloc or the stack left there.                                *)
(***************************************************************************)
EXTENDS Integers

CONSTANTS Block,      \* bytes in a cipherblock: 16
          Base,       \* values of a byte: 256
          Nonces,     \* nonces passed to crypto_aesctr_init
          Garbage,    \* values uninitialized memory may hold
          Detected,   \* results of crypto_aes_can_use_intrinsics (0, 1, 2)
          MaxBytes    \* bound on the bytes of one stream

ASSUME BlockAssumption == Block \in Nat \ {0}
ASSUME BaseAssumption == Base \in Nat /\ Base > 1
ASSUME DataAssumption == /\ Nonces # {}
                         /\ Garbage \subseteq Nat
                         /\ MaxBytes \in Nat
ASSUME DetectedAssumption == Detected \subseteq 0..2

VARIABLES
  hwaccel,    \* the static of crypto_aesctr.c
  bytectr,    \* struct crypto_aesctr
  pblk,       \*   [nonce, hi, lo]: the nonce, 7 counter bytes, the last one
  buf,        \*   the pblk whose encryption the buffer holds
  pc,         \* where the current call is; "none" when there is no stream
  buflen,     \* bytes the call has left, as the code's own variable counts
  block_counter, arr, i,  \* locals of the whole-blocks loop
  nonce,      \* the nonce the caller passed
  pos,        \* how far inbuf and outbuf have moved since the stream began
  out         \* out[k]: the keystream byte that was XORed with byte k

stream == <<bytectr, pblk, buf>>
locals == <<block_counter, arr, i>>
vars == <<hwaccel, stream, pc, buflen, locals, nonce, pos, out>>

-----------------------------------------------------------------------------
\* be64enc of a block number, as its seven high bytes and its last byte.
be64enc(n) == [hi |-> n \div Base, lo |-> n % Base]

\* The XOR of n bytes from offset bytemod of the encryption of block b.
XorBytes(n, bytemod, b) ==
  /\ out' = [k \in 0..(pos + n - 1) |->
               IF k < pos THEN out[k]
               ELSE [nonce |-> b.nonce, ctr |-> b.hi * Base + b.lo,
                     off |-> bytemod + (k - pos)]]
  /\ pos' = pos + n

\* Mutant: the counter bytes are never written together.
NextPblk_NoReencode == [pblk EXCEPT !.lo = (pblk.lo + 1) % Base]

\* The block the next crypto_aes_encrypt_block is given.
NextPblk ==
  LET low == (pblk.lo + 1) % Base
      enc == be64enc(bytectr \div Block)
  IN  IF low = 0
        THEN [nonce |-> pblk.nonce, hi |-> enc.hi, lo |-> enc.lo]
        ELSE [pblk EXCEPT !.lo = low]

\* Moving over n bytes once they are XORed.
cipherblock_use(n, bytemod, b) ==
  /\ XorBytes(n, bytemod, b)
  /\ bytectr' = bytectr + n
  /\ buflen' = buflen - n

\* Generating a cipherblock and using n bytes of it.
GenerateAndUse(n) ==
  /\ pblk' = NextPblk
  /\ buf' = NextPblk
  /\ cipherblock_use(n, 0, NextPblk)
-----------------------------------------------------------------------------
NoPblk == [nonce |-> CHOOSE n \in Nonces : TRUE, hi |-> 0, lo |-> 0]

Init == /\ hwaccel = "unset"
        /\ bytectr = 0
        /\ pblk = NoPblk
        /\ buf = NoPblk
        /\ pc = "none"
        /\ buflen = 0
        /\ block_counter = 0 /\ arr = be64enc(0) /\ i = 0
        /\ nonce = NoPblk.nonce
        /\ pos = 0
        /\ out = [k \in {} |-> 0]

\* hwaccel_init: decided by the first stream and kept for the process.
hwaccel_init ==
  IF hwaccel # "unset" THEN UNCHANGED hwaccel
  ELSE \E d \in Detected :
         hwaccel' = CASE d = 1 -> "aesni" [] d = 2 -> "arm" [] d = 0 -> "software"

\* crypto_aesctr_init2 over memory whose high counter bytes are h.
Init2(n, h) ==
  /\ pblk' = [nonce |-> n, hi |-> h, lo |-> Base - 1]
  /\ bytectr' = 0
  /\ hwaccel_init
  /\ nonce' = n
  /\ pos' = 0
  /\ out' = [k \in {} |-> 0]
  /\ pc' = "idle"
  /\ UNCHANGED <<buflen, locals>>

\* crypto_aesctr_init: a new struct, full of garbage, and _init2.  When malloc
\* fails there is no stream and nothing changes.
crypto_aesctr_init ==
  /\ pc = "none"
  /\ \E n \in Nonces, h \in Garbage, g \in Garbage, gn \in Nonces :
       /\ Init2(n, h)
       /\ buf' = [nonce |-> gn, hi |-> g, lo |-> g % Base]

\* crypto_aesctr_init2 on a stream in use: the high bytes are the old ones.
crypto_aesctr_init2 ==
  /\ pc = "idle"
  /\ \E n \in Nonces : Init2(n, pblk.hi)
  /\ UNCHANGED buf

crypto_aesctr_free ==
  /\ pc = "idle"
  /\ pc' = "none"
  /\ UNCHANGED <<hwaccel, stream, buflen, locals, nonce, pos, out>>

\* The dispatch of crypto_aesctr_stream on a request of n bytes.
Path(n) == IF n >= Block /\ hwaccel \in {"aesni", "arm"} THEN hwaccel
           ELSE "generic"

\* The caller asks for n more bytes.
crypto_aesctr_stream ==
  /\ pc = "idle"
  /\ \E n \in 0..(MaxBytes - bytectr) :
       /\ buflen' = n
       /\ pc' = CASE Path(n) = "generic" -> "pre"
                  [] Path(n) = "aesni" -> "aesni_pre"
                  [] Path(n) = "arm" -> "arm_pre"
  /\ UNCHANGED <<hwaccel, stream, locals, nonce, pos, out>>

\* Mutant: the request is taken to reach the end of the cipherblock.
\* crypto_aesctr_stream_pre_wholeblock, then the code at label next.
pre_wholeblock(next) ==
  LET bytemod == bytectr % Block IN
  /\ IF bytemod = 0
       THEN pc' = next /\ UNCHANGED <<bytectr, buflen, pos, out>>
       ELSE IF bytemod + buflen <= Block
         THEN pc' = "idle" /\ cipherblock_use(buflen, bytemod, buf)
         ELSE pc' = next /\ cipherblock_use(Block - bytemod, bytemod, buf)
  /\ UNCHANGED <<hwaccel, pblk, buf, locals, nonce>>

GenericPre == pc = "pre" /\ pre_wholeblock("loop")

\* Mutant: the loop has no way out but the whole of the request.
\* One turn of the loop over whole blocks, or its exit.
GenericLoop ==
  /\ pc = "loop"
  /\ IF buflen >= Block
       THEN GenerateAndUse(Block) /\ UNCHANGED pc
       ELSE pc' = "post" /\ UNCHANGED <<stream, buflen, pos, out>>
  /\ UNCHANGED <<hwaccel, locals, nonce>>

\* Mutant: one turn more than there are whole blocks.
\* The head of the whole-blocks routine: it loads its locals from the stream.
LoadLocals(next) ==
  /\ IF buflen >= Block
       THEN /\ block_counter' = bytectr \div Block
            /\ i' = buflen \div Block
            /\ pc' = next
            /\ UNCHANGED arr
       ELSE pc' = "post" /\ UNCHANGED locals
  /\ UNCHANGED <<hwaccel, stream, buflen, nonce, pos, out>>

\* One turn of its do-while loop: buf and bytectr are not touched.
WideTurn ==
  /\ i > 0
  /\ arr' = be64enc(block_counter)
  /\ XorBytes(Block, 0, [nonce |-> pblk.nonce, hi |-> arr'.hi, lo |-> arr'.lo])
  /\ block_counter' = block_counter + 1
  /\ i' = i - 1
  /\ UNCHANGED <<hwaccel, stream, pc, buflen, nonce>>

\* Mutant: the counter bytes do not go back into pblk.
StoreLocals_KeepPblk ==
  LET num_blocks == buflen \div Block IN
  /\ i = 0
  /\ buflen' = buflen - Block * num_blocks
  /\ bytectr' = bytectr + Block * num_blocks
  /\ pc' = "post"
  /\ UNCHANGED <<hwaccel, pblk, buf, locals, nonce, pos, out>>

\* Its end: the counter bytes last used go back into pblk.
StoreLocals ==
  LET num_blocks == buflen \div Block IN
  /\ i = 0
  /\ buflen' = buflen - Block * num_blocks
  /\ pblk' = [pblk EXCEPT !.hi = arr.hi, !.lo = arr.lo]
  /\ bytectr' = bytectr + Block * num_blocks
  /\ pc' = "post"
  /\ UNCHANGED <<hwaccel, buf, locals, nonce, pos, out>>

AesniPre == pc = "aesni_pre" /\ pre_wholeblock("aesni_load")
AesniLoad == pc = "aesni_load" /\ LoadLocals("aesni_loop")
AesniWholeblocks == pc = "aesni_loop" /\ (WideTurn \/ StoreLocals)

ArmPre == pc = "arm_pre" /\ pre_wholeblock("arm_load")
ArmLoad == pc = "arm_load" /\ LoadLocals("arm_loop")
ArmWholeblocks == pc = "arm_loop" /\ (WideTurn \/ StoreLocals)

post_wholeblock ==
  /\ pc = "post"
  /\ pc' = "idle"
  /\ IF buflen > 0 THEN GenerateAndUse(buflen)
     ELSE UNCHANGED <<stream, buflen, pos, out>>
  /\ UNCHANGED <<hwaccel, locals, nonce>>

Calls == crypto_aesctr_init \/ crypto_aesctr_init2 \/ crypto_aesctr_free
         \/ crypto_aesctr_stream
Steps == GenericPre \/ GenericLoop
         \/ AesniPre \/ AesniLoad \/ AesniWholeblocks
         \/ ArmPre \/ ArmLoad \/ ArmWholeblocks
         \/ post_wholeblock

Next == Calls \/ Steps

Spec == Init /\ [][Next]_vars
-----------------------------------------------------------------------------
Labels == {"none", "idle", "pre", "loop", "post", "aesni_pre", "aesni_load",
           "aesni_loop", "arm_pre", "arm_load", "arm_loop"}
Wide == {"aesni_loop", "arm_loop"}

Pblk == [nonce : Nonces, hi : Nat, lo : 0..(Base - 1)]

\* Every variable has its type; out is defined exactly on the bytes passed.
TypeOK ==
  /\ hwaccel \in {"unset", "software", "aesni", "arm"}
  /\ bytectr \in Nat /\ buflen \in Nat /\ pos \in Nat
  /\ pblk \in Pblk /\ buf \in Pblk
  /\ pc \in Labels
  /\ block_counter \in Nat /\ i \in Nat
  /\ arr \in [hi : Nat, lo : 0..(Base - 1)]
  /\ nonce \in Nonces
  /\ out \in [0..(pos - 1) -> [nonce : Nonces, ctr : Nat, off : Nat]]

\* Byte k of the data is covered by byte k % Block of the encryption of
\* (nonce, k \div Block), however the calls cut it and whichever of the
\* generic, AESNI and ARM loops ran each of them: decryption is free to read
\* the stream in other pieces than encryption wrote it.
KeystreamInOrder ==
  \A k \in 0..(pos - 1) :
    out[k] = [nonce |-> nonce, ctr |-> k \div Block, off |-> k % Block]

\* Between two calls the stream has advanced by exactly the bytes passed: the
\* counters of the loops and the position of the pointers agree again.
NothingLeftOver == pc = "idle" => buflen = 0 /\ pos = bytectr

\* The stream implements the abstract one; inside the whole-blocks loop the
\* bytes still owed are those the code's buflen has not discounted yet.
Abstract == INSTANCE CtrStream WITH owed <- buflen - (pos - bytectr)
ImplementsCtrStream == Abstract!ASpec

=============================================================================
