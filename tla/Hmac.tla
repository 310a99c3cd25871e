--------------------------------- MODULE Hmac ---------------------------------
(***************************************************************************)
(* HMAC-SHA256 and PBKDF2-SHA256 of libcperciva/alg/sha256.c.              *)
(*                                                                         *)
(* A SHA256_CTX is the bytes it was given, which is what Sha256 shows it   *)
(* to be, and a digest is a sequence of cells named after those bytes: the *)
(* hash is ideal.  The xor of cells is the set of those that occur an odd  *)
(* number of times.                                                        *)
(***************************************************************************)
EXTENDS Integers, Sequences, FiniteSets

CONSTANTS HBlock,     \* bytes in a block: 64
          HDigest,    \* bytes in a digest: 32
          KeyLens,    \* bound: lengths of keys and passwords
          DataLens,   \* bound: lengths of a salt and of a message's pieces
          MaxData,    \* bound on the bytes of a message
          Iterations, \* bound: values of c
          DkLens      \* bound: values of dkLen

ASSUME HmacLengths == /\ HBlock \in Nat \ {0} /\ HDigest \in 1..HBlock
ASSUME HmacInputs == /\ KeyLens \subseteq Nat /\ DataLens \subseteq Nat /\ DkLens \subseteq Nat
                     /\ Iterations \subseteq Nat \ {0} /\ MaxData \in Nat

VARIABLES
  hmac_pc,
  klen,          \* the length of the key or password
  ictx, octx,    \* HMAC_SHA256_CTX
  fed,           \* bytes of message given to the context
  mac,           \* what HMAC_SHA256_Final wrote
  saltlen, c, dkLen,   \* arguments of PBKDF2_SHA256
  Phctx, PShctx,       \* [i, o]: the contexts after P, and after P and S
  i, j, U, T,          \* its locals
  dk                   \* what it wrote to buf

args == <<klen, saltlen, c, dkLen>>
hctx == <<ictx, octx>>       \* hctx of PBKDF2_SHA256 is a copy that is made before each use
kept == <<Phctx, PShctx>>
hmacvars == <<hmac_pc, args, hctx, fed, mac, kept, i, j, U, T, dk>>

-----------------------------------------------------------------------------
Bytes(what, n) == [k \in 1..n |-> <<what, k>>]
Cleared == <<>>                         \* a context that was zeroed
NoCtx == [i |-> Cleared, o |-> Cleared]

\* SHA256_Final: the cells of the hash of m.
Digest(m) == [k \in 1..HDigest |-> <<"sha", m, k>>]

\* A key of more than a block is its hash.
ShortKey_Not(K) == SubSeq(K, 1, IF Len(K) > HBlock THEN HBlock ELSE Len(K))   \* mutant: is cut
ShortKey(K) == IF Len(K) > HBlock THEN Digest(K) ELSE K

\* pad[i] ^= K[i] over a block of 0x36 or 0x5c.
XorPad(pad, K) ==
  [k \in 1..HBlock |-> <<pad, IF k <= Len(K) THEN K[k] ELSE <<"zero">> >>]

\* HMAC_SHA256_Init, _Update and _Final on a context.
HmacInit(K) == [i |-> XorPad("0x36", ShortKey(K)), o |-> XorPad("0x5c", ShortKey(K))]
HmacUpdate(h, in) == [h EXCEPT !.i = @ \o in]
HmacFinal(h) == Digest(h.o \o Digest(h.i))

Xor(a, b) == [k \in 1..HDigest |-> (a[k] \cup b[k]) \ (a[k] \cap b[k])]
Cells(d) == [k \in 1..HDigest |-> {d[k]}]
INT(n) == << <<"be32", n>> >>
-----------------------------------------------------------------------------
NoArgs == klen = 0 /\ saltlen = 0 /\ c = 0 /\ dkLen = 0
HInit ==
  /\ hmac_pc = "none" /\ NoArgs
  /\ ictx = Cleared /\ octx = Cleared /\ fed = 0 /\ mac = <<>>
  /\ Phctx = NoCtx /\ PShctx = NoCtx
  /\ i = 0 /\ j = 0 /\ U = <<>> /\ T = <<>> /\ dk = <<>>

Context(h) == ictx' = h.i /\ octx' = h.o
hctxNow == [i |-> ictx, o |-> octx]

HMAC_SHA256_Init ==
  /\ hmac_pc = "none"
  /\ \E n \in KeyLens : klen' = n /\ Context(HmacInit(Bytes("key", n)))
  /\ hmac_pc' = "mac" /\ fed' = 0 /\ mac' = <<>>
  /\ UNCHANGED <<saltlen, c, dkLen, kept, i, j, U, T, dk>>

HMAC_SHA256_Update ==
  /\ hmac_pc = "mac"
  /\ \E n \in DataLens :
       /\ fed + n <= MaxData
       /\ Context(HmacUpdate(hctxNow, [k \in 1..n |-> <<"data", fed + k>>]))
       /\ fed' = fed + n
  /\ UNCHANGED <<hmac_pc, args, mac, kept, i, j, U, T, dk>>

HMAC_SHA256_Final ==
  /\ hmac_pc = "mac"
  /\ mac' = HmacFinal(hctxNow)
  /\ Context(NoCtx)
  /\ hmac_pc' = "mac_done"
  /\ UNCHANGED <<args, fed, kept, i, j, U, T, dk>>

\* PBKDF2_SHA256 up to its loop.
PBKDF2_SHA256 ==
  /\ hmac_pc = "none"
  /\ klen' \in KeyLens /\ saltlen' \in DataLens /\ c' \in Iterations /\ dkLen' \in DkLens
  /\ Phctx' = HmacInit(Bytes("key", klen'))
  /\ PShctx' = HmacUpdate(Phctx', Bytes("salt", saltlen'))
  /\ i' = 0 /\ j' = 0 /\ dk' = <<>>
  /\ hmac_pc' = "blocks"
  /\ UNCHANGED <<hctx, fed, mac, U, T>>

\* "for (i = 0; i * 32 < dkLen; i++)": U_1.
FirstU ==
  /\ hmac_pc = "blocks" /\ i * HDigest < dkLen
  /\ LET h == HmacUpdate(PShctx, INT(i + 1)) IN
     /\ U' = HmacFinal(h)
     /\ T' = Cells(HmacFinal(h))
  /\ j' = 2
  /\ hmac_pc' = "iterate"
  /\ UNCHANGED <<args, hctx, fed, mac, kept, i, dk>>

IterateCtx_Salted == PShctx       \* mutant: every U_j is salted
IterateCtx == Phctx

\* "for (j = 2; j <= c; j++)".
NextU ==
  /\ hmac_pc = "iterate" /\ j <= c
  /\ LET h == HmacUpdate(IterateCtx, U) IN
     /\ U' = HmacFinal(h)
     /\ T' = Xor(T, Cells(HmacFinal(h)))
  /\ j' = j + 1
  /\ UNCHANGED <<hmac_pc, args, hctx, fed, mac, kept, i, dk>>

\* Copy as many bytes as necessary.
clen == IF dkLen - i * HDigest > HDigest THEN HDigest ELSE dkLen - i * HDigest
CopyT ==
  /\ hmac_pc = "iterate" /\ j > c
  /\ dk' = dk \o SubSeq(T, 1, clen)
  /\ i' = i + 1
  /\ hmac_pc' = "blocks"
  /\ UNCHANGED <<args, hctx, fed, mac, kept, j, U, T>>

\* Clean the stack.
PBKDF2_Return ==
  /\ hmac_pc = "blocks" /\ i * HDigest >= dkLen
  /\ Phctx' = NoCtx /\ PShctx' = NoCtx /\ U' = <<>> /\ T' = <<>>
  /\ hmac_pc' = "dk_done"
  /\ UNCHANGED <<args, hctx, fed, mac, i, j, dk>>

\* The caller is done with the result.
HDone ==
  /\ hmac_pc \in {"mac_done", "dk_done"}
  /\ hmac_pc' = "none"
  /\ klen' = 0 /\ saltlen' = 0 /\ c' = 0 /\ dkLen' = 0
  /\ fed' = 0 /\ mac' = <<>> /\ i' = 0 /\ j' = 0 /\ dk' = <<>>
  /\ UNCHANGED <<hctx, kept, U, T>>

HNext == \/ HMAC_SHA256_Init \/ HMAC_SHA256_Update \/ HMAC_SHA256_Final
         \/ PBKDF2_SHA256 \/ FirstU \/ NextU \/ CopyT \/ PBKDF2_Return \/ HDone
HSpec == HInit /\ [][HNext]_hmacvars
-----------------------------------------------------------------------------
(* The references: RFC 2104 and RFC 8018, 5.2.                              *)
Key0(K) == [k \in 1..HBlock |-> LET short == IF Len(K) > HBlock THEN Digest(K) ELSE K
                                IN IF k <= Len(short) THEN short[k] ELSE <<"zero">>]
HMAC(K, m) ==
  LET xor(pad) == [k \in 1..HBlock |-> <<pad, Key0(K)[k]>>]
  IN  Digest(xor("0x5c") \o Digest(xor("0x36") \o m))

F(P, S, n, b) ==
  LET u[k \in 1..n] == HMAC(P, IF k = 1 THEN S \o << <<"be32", b>> >> ELSE u[k - 1])
  IN  [x \in 1..HDigest |-> {y \in {u[k][x] : k \in 1..n} :
                               Cardinality({k \in 1..n : u[k][x] = y}) % 2 = 1}]

\* The authenticator of a message is RFC 2104's, however the message was given
\* and however long the key is.
MacIsHmac ==
  hmac_pc = "mac_done" => mac = HMAC(Bytes("key", klen), Bytes("data", fed))

\* The derived key is RFC 8018's, for every length and number of iterations.
DkIsPbkdf2 ==
  hmac_pc = "dk_done" =>
    /\ Len(dk) = dkLen
    /\ \A k \in 1..dkLen :
         LET b == (k - 1) \div HDigest + 1
         IN  dk[k] = F(Bytes("key", klen), Bytes("salt", saltlen), c, b)[k - (b - 1) * HDigest]
=============================================================================
