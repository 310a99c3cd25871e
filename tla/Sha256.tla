-------------------------------- MODULE Sha256 --------------------------------
(***************************************************************************)
(* SHA-256 of libcperciva/alg/sha256.c: the choice of a transform by       *)
(* self-test, the context that takes a message in pieces of any length,    *)
(* and the padding.                                                        *)
(*                                                                         *)
(* The compression function is ideal: the eight words of state stand for   *)
(* the bytes that were compressed, in order, so that equal states come     *)
(* only of equal bytes.  A transform that is not sound computes something  *)
(* else from every block, the one of the self-test included.  Byte k of    *)
(* the message is a cell that says so.                                     *)
(***************************************************************************)
EXTENDS Integers, Sequences

CONSTANTS BlockLen,    \* bytes in a block: 64
          LenBytes,    \* bytes of the bit count at its end: 8
          Transforms,  \* Transforms[c]: the c-th hardware transform that is built in
          MaxBytes     \* bound on the bytes of a message; 2^61 - 1 in the code

ASSUME ShaLengths == BlockLen \in Nat /\ LenBytes \in Nat \ {0} /\ LenBytes < BlockLen
ASSUME ShaBound == MaxBytes \in Nat
ASSUME ShaTransforms ==
  /\ DOMAIN Transforms = 1..Len(Transforms)
  /\ \A c \in DOMAIN Transforms : Transforms[c] # "software"

VARIABLES
  sha_hw,        \* the static hwaccel
  sha_offered,   \* the transforms for which the CPU has the instructions
  sha_sound,     \* the transforms that compute SHA-256
  sha_pc,        \* where the client or the call is
  count,         \* SHA256_CTX: bits so far,
  state,         \*   the bytes that were compressed: [n, at]
  buf,           \*   the block being filled
  src, len,      \* locals of SHA256_Update: where in the message, what is left
  given,         \* bytes the client gave since SHA256_Init
  digest         \* what SHA256_Final wrote, as the bytes it is the hash of

world == <<sha_offered, sha_sound>>
ctx == <<count, state, buf>>
shavars == <<sha_hw, world, sha_pc, ctx, src, len, given, digest>>

-----------------------------------------------------------------------------
Input(k) == <<"in", k>>
Pad1 == <<"0x80">>
Zero == <<"zero">>
LenByte(k, bits) == <<"len", k, bits>>     \* byte k of be64enc(bits)
Garbage == <<"garbage">>                   \* uninitialized, or zeroed
Broken(x) == <<"broken", x>>

Offsets == 0..(BlockLen - 1)
Nothing == [n |-> 0, at |-> [k \in {} |-> Zero]]
NoBlock == [k \in Offsets |-> Garbage]

\* What transform f makes of the state s and a block.
Compress(f, s, block) ==
  [n |-> s.n + BlockLen,
   at |-> [k \in 0..((s.n + BlockLen) - 1) |->
             IF k < s.n THEN s.at[k]
             ELSE IF f \in sha_sound \/ f = "software" THEN block[k - s.n]
             ELSE Broken(block[k - s.n])]]

\* SHA256_Transform: the dispatch on hwaccel.
SHA256_Transform(s, block) ==
  Compress(IF sha_hw = "unset" THEN "software" ELSE sha_hw, s, block)

\* memcpy(&buf[r], ..., n), the k-th byte copied being byte(k).
CopyIn(b, r, n, byte(_)) ==
  [k \in Offsets |-> IF k >= r /\ k < r + n THEN byte(k - r) ELSE b[k]]

\* Byte k of what is left of the input.
Src(k) == Input(src + k)

ShaInit ==
  /\ sha_hw = "unset"
  /\ sha_offered \in SUBSET {Transforms[c] : c \in DOMAIN Transforms}
  /\ sha_sound \in SUBSET {Transforms[c] : c \in DOMAIN Transforms}
  /\ sha_pc = "none"
  /\ count = 0 /\ state = Nothing /\ buf = NoBlock
  /\ src = 0 /\ len = 0 /\ given = 0
  /\ digest = Nothing

-----------------------------------------------------------------------------
(* hwaccel_init: the first transform that is offered and whose result on    *)
(* the block 0, 1, 2, ... is that of the software.                          *)
TestBlock == [k \in Offsets |-> Input(k)]
hwtest(f) == Compress("software", Nothing, TestBlock) = Compress(f, Nothing, TestBlock)
Validated(c) == Transforms[c] \in sha_offered /\ hwtest(Transforms[c])
hwaccel_init ==
  IF sha_hw # "unset" THEN UNCHANGED sha_hw
  ELSE \/ \E c \in DOMAIN Transforms :
            /\ Validated(c) /\ \A d \in DOMAIN Transforms : d < c => ~Validated(d)
            /\ sha_hw' = Transforms[c]
       \/ /\ \A c \in DOMAIN Transforms : ~Validated(c)
          /\ sha_hw' = "software"

\* SHA256_Init; only the first of the process chooses.
SHA256_Init ==
  /\ sha_pc \in {"none", "open"}
  /\ count' = 0 /\ state' = Nothing
  /\ hwaccel_init
  /\ sha_pc' = "open"
  /\ given' = 0 /\ src' = 0
  /\ UNCHANGED <<world, buf, len, digest>>

Buffered == (count \div 8) % BlockLen

\* SHA256_Update with n more bytes, up to the end of the current block.
SHA256_Update ==
  /\ sha_pc = "open"
  /\ \E n \in 0..(MaxBytes - given) :
       LET r == Buffered IN
       /\ given' = given + n
       /\ IF n = 0
            THEN UNCHANGED <<ctx, src, len, sha_pc>>
          ELSE IF n < BlockLen - r
            THEN /\ count' = count + 8 * n
                 /\ buf' = CopyIn(buf, r, n, Src)
                 /\ src' = src + n
                 /\ UNCHANGED <<state, len, sha_pc>>
          ELSE /\ count' = count + 8 * n
               /\ buf' = CopyIn(buf, r, BlockLen - r, Src)
               /\ state' = SHA256_Transform(state, CopyIn(buf, r, BlockLen - r, Src))
               /\ src' = src + (BlockLen - r)
               /\ len' = n - (BlockLen - r)
               /\ sha_pc' = "blocks"
  /\ UNCHANGED <<sha_hw, world, digest>>

\* "while (len >= 64)".
UpdateBlocks ==
  /\ sha_pc = "blocks" /\ len >= BlockLen
  /\ state' = SHA256_Transform(state, [k \in Offsets |-> Src(k)])
  /\ src' = src + BlockLen /\ len' = len - BlockLen
  /\ UNCHANGED <<sha_hw, world, sha_pc, count, buf, given, digest>>

\* The left over bytes.
UpdateRest ==
  /\ sha_pc = "blocks" /\ len < BlockLen
  /\ buf' = CopyIn(buf, 0, len, Src)
  /\ src' = src + len /\ len' = 0
  /\ sha_pc' = "open"
  /\ UNCHANGED <<sha_hw, world, count, state, given, digest>>

PadByte(k) == IF k = 0 THEN Pad1 ELSE Zero
ZeroByte(k) == Zero
CountByte(k) == LenByte(k, count)
FinalStart == BlockLen - LenBytes           \* 56
FitsLength_Off(r) == r <= FinalStart        \* mutant: "r <= 56"
FitsLength(r) == r < FinalStart

\* SHA256_Final: SHA256_Pad up to the bit count, through one block or two.
SHA256_Pad ==
  /\ sha_pc = "open"
  /\ LET r == Buffered IN
     IF FitsLength(r)
       THEN /\ buf' = CopyIn(buf, r, FinalStart - r, PadByte)
            /\ UNCHANGED state
       ELSE /\ state' = SHA256_Transform(state, CopyIn(buf, r, BlockLen - r, PadByte))
            /\ buf' = CopyIn(CopyIn(buf, r, BlockLen - r, PadByte), 0, FinalStart,
                             ZeroByte)
  /\ sha_pc' = "pad"
  /\ UNCHANGED <<sha_hw, world, count, src, len, given, digest>>

\* The bit count, the last block, the digest; the context is zeroed.
SHA256_Final ==
  /\ sha_pc = "pad"
  /\ digest' = SHA256_Transform(state,
                 CopyIn(buf, FinalStart, LenBytes, CountByte))
  /\ count' = 0 /\ state' = Nothing /\ buf' = NoBlock
  /\ sha_pc' = "hashed"
  /\ UNCHANGED <<sha_hw, world, src, len, given>>

\* The client is done with the digest.
ShaDone ==
  /\ sha_pc = "hashed"
  /\ sha_pc' = "none"
  /\ digest' = Nothing /\ given' = 0 /\ src' = 0
  /\ UNCHANGED <<sha_hw, world, ctx, len>>

ShaNext == \/ SHA256_Init \/ SHA256_Update \/ UpdateBlocks \/ UpdateRest
           \/ SHA256_Pad \/ SHA256_Final \/ ShaDone

ShaSpec == ShaInit /\ [][ShaNext]_shavars
-----------------------------------------------------------------------------
(* The reference: FIPS 180-4, 5.1.1.  A message of n bytes is followed by   *)
(* the bit 1, the fewest zeros after which a block has room for just the    *)
(* count, and the count.                                                    *)
IsPaddedLen(n, t) == /\ t % BlockLen = 0
                     /\ n + 1 + LenBytes <= t /\ t < n + 1 + LenBytes + BlockLen
Padded(n, t) ==
  [n |-> t,
   at |-> [k \in 0..(t - 1) |->
             IF k < n THEN Input(k)
             ELSE IF k = n THEN Pad1
             ELSE IF k < t - LenBytes THEN Zero
             ELSE LenByte(k - (t - LenBytes), 8 * n)]]

\* The digest is the hash of the whole message, padded as FIPS 180-4 says,
\* however SHA256_Update was given it and whichever transform was chosen.
DigestIsOfMessage ==
  sha_pc = "hashed" => IsPaddedLen(given, digest.n) /\ digest = Padded(given, digest.n)
=============================================================================
