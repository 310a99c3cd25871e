---------------------------- MODULE AesCtr_proofs ----------------------------
(***************************************************************************)
(* For every block size, byte base, set of nonces, initial memory contents *)
(* and detected acceleration: the bytes of an AES-CTR stream are covered   *)
(* by the keystream in order, and the stream implements CtrStream.         *)
(***************************************************************************)
EXTENDS AesCtr, TLAPS

-----------------------------------------------------------------------------
(* Arithmetic of block numbers and offsets. *)

\* Quotient and remainder by the block size are what they should be.
LEMMA DivMod ==
  ASSUME NEW n \in Nat
  PROVE  /\ n = Block * (n \div Block) + (n % Block)
         /\ n % Block \in 0..(Block - 1)
         /\ n \div Block \in Nat
BY BlockAssumption

\* ... and are the only ones.
LEMMA DivModUnique ==
  ASSUME NEW n \in Nat, NEW q \in Nat, NEW r \in 0..(Block - 1), n = Block * q + r
  PROVE  n \div Block = q /\ n % Block = r
BY BlockAssumption

\* Bytes of one block, from the offset the stream is at.
LEMMA WithinBlock ==
  ASSUME NEW n \in Nat, NEW k \in Nat, (n % Block) + k < Block
  PROVE  (n + k) \div Block = n \div Block /\ (n + k) % Block = (n % Block) + k
<1> DEFINE q == n \div Block
           r == (n % Block) + k
<1>1. q \in Nat /\ r \in 0..(Block - 1) /\ n + k = Block * q + r
  BY DivMod, BlockAssumption
<1> HIDE DEF q, r
<1>2. (n + k) \div Block = q /\ (n + k) % Block = r
  BY <1>1, DivModUnique
<1> QED
  BY <1>2 DEF q, r

\* Whole blocks added to a position on a block boundary.
LEMMA AddBlocks ==
  ASSUME NEW n \in Nat, n % Block = 0, NEW m \in Nat
  PROVE  /\ (n + Block * m) \div Block = n \div Block + m
         /\ (n + Block * m) % Block = 0
         /\ n + Block * m \in Nat
<1> DEFINE q == n \div Block + m
<1>1. q \in Nat /\ 0 \in 0..(Block - 1) /\ n + Block * m \in Nat
  BY DivMod, BlockAssumption
<1>2. n = Block * (n \div Block)
  BY DivMod, BlockAssumption
<1>3. n + Block * m = Block * q + 0
  BY <1>2, DivMod, BlockAssumption
<1> HIDE DEF q
<1>4. (n + Block * m) \div Block = q /\ (n + Block * m) % Block = 0
  BY <1>1, <1>3, DivModUnique
<1> QED
  BY <1>1, <1>4 DEF q

\* Filling the current block leads to the boundary of the next.
LEMMA FillBlock ==
  ASSUME NEW n \in Nat, n % Block # 0
  PROVE  /\ n + (Block - (n % Block)) \in Nat
         /\ (n + (Block - (n % Block))) % Block = 0
         /\ (n + (Block - (n % Block))) \div Block = n \div Block + 1
<1> DEFINE q == n \div Block + 1
           t == n + (Block - (n % Block))
<1>1. q \in Nat /\ 0 \in 0..(Block - 1) /\ t \in Nat
  BY DivMod, BlockAssumption
<1>2. t = Block * q + 0
  BY DivMod, BlockAssumption
<1> HIDE DEF q, t
<1>3. t \div Block = q /\ t % Block = 0
  BY <1>1, <1>2, DivModUnique
<1> QED
  BY <1>1, <1>3 DEF q, t

\* The block before a boundary.
LEMMA LastByte ==
  ASSUME NEW n \in Nat, n > 0
  PROVE  /\ n % Block = 0 => (n - 1) \div Block = n \div Block - 1
         /\ n % Block # 0 => (n - 1) \div Block = n \div Block
<1>1. CASE n % Block = 0
  <2> DEFINE q == n \div Block - 1
             r == Block - 1
             m == n - 1
  <2>1. n = Block * (n \div Block) /\ n \div Block \in Nat
    BY <1>1, DivMod, BlockAssumption
  <2>2. n \div Block # 0
    BY <2>1, BlockAssumption
  <2>3. q \in Nat /\ r \in 0..(Block - 1) /\ m \in Nat /\ m = Block * q + r
    BY <2>1, <2>2, BlockAssumption
  <2> HIDE DEF q, r, m
  <2>4. m \div Block = q
    BY <2>3, DivModUnique
  <2> QED
    BY <2>4, <1>1 DEF q, m
<1>2. CASE n % Block # 0
  <2> DEFINE q == n \div Block
             r == (n % Block) - 1
             m == n - 1
  <2>1. q \in Nat /\ r \in 0..(Block - 1) /\ m \in Nat /\ m = Block * q + r
    BY <1>2, DivMod, BlockAssumption
  <2> HIDE DEF q, r, m
  <2>2. m \div Block = q
    BY <2>1, DivModUnique
  <2> QED
    BY <2>2, <1>2 DEF q, m
<1> QED
  BY <1>1, <1>2

\* be64enc writes the number it is given.
LEMMA Encoding ==
  ASSUME NEW n \in Nat
  PROVE  /\ be64enc(n) \in [hi : Nat, lo : 0..(Base - 1)]
         /\ be64enc(n).hi * Base + be64enc(n).lo = n
BY BaseAssumption DEF be64enc

-----------------------------------------------------------------------------
(* The inductive invariant. *)

\* The number a pblk's counter bytes stand for.
CtrOf(b) == b.hi * Base + b.lo

\* The last block whose number went into pblk is that of the last byte passed;
\* before the first block, the last counter byte is about to wrap.
CounterCurrent ==
  /\ pblk.nonce = nonce
  /\ bytectr = 0 => pblk.lo = Base - 1
  /\ bytectr > 0 => CtrOf(pblk) = (bytectr - 1) \div Block

\* Inside a cipherblock, the buffer holds the encryption of that block.
BufferCurrent ==
  bytectr % Block # 0 => buf.nonce = nonce /\ CtrOf(buf) = bytectr \div Block

\* Past the first bytes, the loops work on block boundaries.
AtBoundary ==
  pc \in {"loop", "post", "aesni_load", "arm_load"} \cup Wide
    => bytectr % Block = 0

\* In the whole-blocks loop: how far the pointers are ahead of the stream.
WideLoop ==
  pc \in Wide =>
    LET num_blocks == buflen \div Block
        done == num_blocks - i
    IN  /\ num_blocks > 0
        /\ i <= num_blocks
        /\ block_counter = (bytectr \div Block) + done
        /\ pos = bytectr + (Block * done)
        /\ i < num_blocks => (arr.hi * Base) + arr.lo = block_counter - 1

IInv ==
  /\ TypeOK
  /\ KeystreamInOrder
  /\ pc # "none" => CounterCurrent /\ BufferCurrent
  /\ AtBoundary
  /\ WideLoop
  /\ pc \notin Wide => pos = bytectr
  /\ pc \in {"none", "idle"} => buflen = 0
  /\ pc = "post" => buflen < Block

\* The block generated at a boundary is the one the next byte falls into.
LEMMA NextPblkCorrect ==
  ASSUME TypeOK, CounterCurrent, bytectr % Block = 0
  PROVE  /\ NextPblk \in Pblk
         /\ NextPblk.nonce = nonce
         /\ CtrOf(NextPblk) = bytectr \div Block
<1> DEFINE low == (pblk.lo + 1) % Base
<1>1. /\ bytectr \in Nat /\ bytectr \div Block \in Nat
      /\ pblk \in Pblk /\ pblk.lo \in 0..(Base - 1) /\ pblk.hi \in Nat
      /\ pblk.nonce = nonce /\ nonce \in Nonces
  BY DivMod DEF TypeOK, CounterCurrent, Pblk
<1>2. CASE low = 0
  <2>1. NextPblk = [nonce |-> pblk.nonce, hi |-> be64enc(bytectr \div Block).hi,
                    lo |-> be64enc(bytectr \div Block).lo]
    BY <1>2 DEF NextPblk
  <2> QED
    BY <2>1, <1>1, Encoding DEF Pblk, CtrOf
<1>3. CASE low # 0
  <2>1. low = pblk.lo + 1 /\ pblk.lo # Base - 1
    BY <1>1, <1>3, BaseAssumption
  <2>2. NextPblk = [pblk EXCEPT !.lo = low]
    BY <1>3 DEF NextPblk
  <2>3. bytectr > 0 /\ CtrOf(pblk) = (bytectr \div Block) - 1
    BY <2>1, <1>1, LastByte DEF CounterCurrent
  <2>4. low \in 0..(Base - 1)
    BY <2>1, <1>1, BaseAssumption
  <2>5. /\ NextPblk \in Pblk /\ NextPblk.hi = pblk.hi
        /\ NextPblk.lo = pblk.lo + 1 /\ NextPblk.nonce = nonce
    BY <2>1, <2>2, <2>4, <1>1 DEF Pblk
  <2>6. CtrOf(pblk) = (pblk.hi * Base) + pblk.lo
        /\ CtrOf(NextPblk) = (pblk.hi * Base) + pblk.lo + 1
    BY <2>5, <1>1, BaseAssumption DEF CtrOf
  <2> QED
    BY <2>3, <2>5, <2>6, <1>1, BaseAssumption
<1> QED
  BY <1>2, <1>3

\* XORing n bytes of one block, at the block and offset where the pointers
\* are, extends the keystream in order.
LEMMA XorInOrder ==
  ASSUME TypeOK, KeystreamInOrder,
         NEW n \in Nat, NEW bytemod \in Nat, NEW b \in Pblk,
         XorBytes(n, bytemod, b), nonce' = nonce,
         n > 0 => /\ pos % Block = bytemod /\ bytemod + n <= Block
                  /\ b.nonce = nonce /\ CtrOf(b) = pos \div Block
  PROVE  /\ KeystreamInOrder'
         /\ pos' = pos + n /\ pos' \in Nat
         /\ out' \in [0..(pos' - 1) -> [nonce : Nonces, ctr : Nat, off : Nat]]
<1>1. /\ pos \in Nat /\ pos' = pos + n /\ pos' \in Nat /\ nonce \in Nonces
      /\ CtrOf(b) \in Nat
      /\ out \in [0..(pos - 1) -> [nonce : Nonces, ctr : Nat, off : Nat]]
  BY BaseAssumption DEF TypeOK, XorBytes, Pblk, CtrOf
<1> DEFINE new(k) == [nonce |-> b.nonce, ctr |-> CtrOf(b), off |-> bytemod + (k - pos)]
<1>2. out' = [k \in 0..(pos + n - 1) |-> IF k < pos THEN out[k] ELSE new(k)]
  BY DEF XorBytes, CtrOf
<1>3. ASSUME NEW k \in 0..(pos' - 1), k >= pos
      PROVE  /\ out'[k] = [nonce |-> nonce, ctr |-> k \div Block, off |-> k % Block]
             /\ k \div Block \in Nat /\ k % Block \in Nat
  <2> DEFINE d == k - pos
  <2>1. d \in Nat /\ d < n /\ k = pos + d /\ n > 0
    BY <1>3, <1>1
  <2>2. (pos % Block) + d < Block
    BY <2>1, BlockAssumption
  <2> HIDE DEF d
  <2>3. k \div Block = pos \div Block /\ k % Block = (pos % Block) + d
    BY <2>1, <2>2, <1>1, WithinBlock
  <2>4. out'[k] = new(k)
    BY <1>1, <1>2, <1>3
  <2>5. k - pos = d
    BY <2>1, <1>1
  <2>6. new(k) = [nonce |-> nonce, ctr |-> k \div Block, off |-> k % Block]
    BY <2>1, <2>3, <2>5
  <2>7. k \in Nat
    BY <1>1, <1>3
  <2> QED
    BY <2>4, <2>6, <2>7, DivMod
<1>4. ASSUME NEW k \in 0..(pos' - 1), k < pos
      PROVE  out'[k] = out[k] /\ k \in 0..(pos - 1)
  BY <1>1, <1>2, <1>4
<1>5. KeystreamInOrder'
  <2> SUFFICES ASSUME NEW k \in 0..(pos' - 1)
               PROVE  out'[k] = [nonce |-> nonce, ctr |-> k \div Block,
                                 off |-> k % Block]
    BY DEF KeystreamInOrder
  <2>1. CASE k < pos
    BY <2>1, <1>4 DEF KeystreamInOrder
  <2>2. CASE k >= pos
    BY <2>2, <1>3
  <2> QED
    BY <2>1, <2>2, <1>1
<1>6. out' \in [0..(pos' - 1) -> [nonce : Nonces, ctr : Nat, off : Nat]]
  <2>1. ASSUME NEW k \in 0..(pos' - 1)
        PROVE  out'[k] \in [nonce : Nonces, ctr : Nat, off : Nat]
    <3>1. CASE k < pos
      BY <3>1, <1>1, <1>4
    <3>2. CASE k >= pos
      <4> DEFINE c == k \div Block
                 o == k % Block
      <4>1. out'[k] = [nonce |-> nonce, ctr |-> c, off |-> o] /\ c \in Nat /\ o \in Nat
        BY <3>2, <1>3
      <4> HIDE DEF c, o
      <4> QED
        BY <4>1, <1>1
    <3> QED
      BY <3>1, <3>2, <1>1
  <2> QED
    BY <2>1, <1>1, <1>2
<1> QED
  BY <1>1, <1>5, <1>6

-----------------------------------------------------------------------------
(* What the two ways of moving over bytes do to the stream. *)

OutType(p) == [0..(p - 1) -> [nonce : Nonces, ctr : Nat, off : Nat]]

\* Using bytes of the block in buf, up to its end at most.
LEMMA UseBuffered ==
  ASSUME TypeOK, KeystreamInOrder, CounterCurrent, BufferCurrent,
         pos = bytectr, bytectr % Block # 0,
         NEW n \in Nat, n <= buflen, (bytectr % Block) + n <= Block,
         cipherblock_use(n, bytectr % Block, buf), UNCHANGED <<nonce, pblk, buf>>
  PROVE  /\ bytectr' = bytectr + n /\ bytectr' \in Nat
         /\ buflen' = buflen - n /\ buflen' \in Nat
         /\ pos' = bytectr' /\ pos' \in Nat /\ out' \in OutType(pos')
         /\ KeystreamInOrder' /\ CounterCurrent' /\ BufferCurrent'
<1>1. /\ bytectr' = bytectr + n /\ bytectr' \in Nat
      /\ buflen' = buflen - n /\ buflen' \in Nat
      /\ bytectr \in Nat /\ bytectr % Block \in Nat /\ buf \in Pblk
  BY DivMod DEF cipherblock_use, TypeOK
<1>2. XorBytes(n, bytectr % Block, buf)
  BY DEF cipherblock_use
<1>3. KeystreamInOrder' /\ pos' = bytectr' /\ out' \in OutType(pos')
  BY <1>1, <1>2, XorInOrder DEF BufferCurrent, OutType
<1>4. bytectr > 0 /\ bytectr' > 0
  BY <1>1, BlockAssumption
<1>5. (bytectr' - 1) \div Block = bytectr \div Block
  <2>1. CASE n = 0
    BY <2>1, <1>1, <1>4, LastByte
  <2>2. CASE n > 0
    <3> DEFINE k == n - 1
    <3>1. k \in Nat /\ (bytectr % Block) + k < Block /\ bytectr' - 1 = bytectr + k
      BY <2>2, <1>1, BlockAssumption
    <3> HIDE DEF k
    <3> QED
      BY <3>1, <1>1, WithinBlock
  <2> QED
    BY <2>1, <2>2
<1>6. CounterCurrent'
  BY <1>1, <1>4, <1>5, LastByte DEF CounterCurrent, CtrOf
<1>7. BufferCurrent'
  <2>1. SUFFICES ASSUME bytectr' % Block # 0
                 PROVE  buf.nonce = nonce /\ CtrOf(buf) = bytectr' \div Block
    BY DEF BufferCurrent, CtrOf
  <2>2. (bytectr % Block) + n < Block
    <3>1. SUFFICES ASSUME (bytectr % Block) + n = Block PROVE FALSE
      BY <1>1, BlockAssumption
    <3>2. bytectr' = bytectr + (Block - (bytectr % Block))
      BY <3>1, <1>1, BlockAssumption
    <3> QED
      BY <3>2, <2>1, <1>1, FillBlock
  <2>3. bytectr' \div Block = bytectr \div Block
    BY <2>2, <1>1, WithinBlock
  <2> QED
    BY <2>3 DEF BufferCurrent
<1> QED
  BY <1>1, <1>3, <1>6, <1>7

\* Generating a block at a boundary and using some or all of it.
LEMMA GenerateStep ==
  ASSUME TypeOK, KeystreamInOrder, CounterCurrent,
         pos = bytectr, bytectr % Block = 0,
         NEW n \in 1..Block, n <= buflen,
         GenerateAndUse(n), UNCHANGED nonce
  PROVE  /\ bytectr' = bytectr + n /\ bytectr' \in Nat
         /\ buflen' = buflen - n /\ buflen' \in Nat
         /\ pos' = bytectr' /\ pos' \in Nat /\ out' \in OutType(pos')
         /\ pblk' \in Pblk /\ buf' \in Pblk
         /\ KeystreamInOrder' /\ CounterCurrent' /\ BufferCurrent'
         /\ n = Block => bytectr' % Block = 0
<1> DEFINE b == NextPblk
<1>1. b \in Pblk /\ b.nonce = nonce /\ CtrOf(b) = bytectr \div Block
  BY NextPblkCorrect
<1>2. pblk' = b /\ buf' = b /\ XorBytes(n, 0, b)
      /\ bytectr' = bytectr + n /\ buflen' = buflen - n
  BY DEF GenerateAndUse, cipherblock_use
<1> HIDE DEF b
<1>3. /\ bytectr \in Nat /\ bytectr' \in Nat /\ buflen' \in Nat /\ bytectr' > 0
      /\ n \in Nat /\ 0 \in Nat
  BY <1>2, BlockAssumption DEF TypeOK
<1>4. KeystreamInOrder' /\ pos' = bytectr' /\ out' \in OutType(pos')
  BY <1>1, <1>2, <1>3, XorInOrder DEF OutType
<1>5. (bytectr' - 1) \div Block = bytectr \div Block
  <2> DEFINE k == n - 1
  <2>1. k \in Nat /\ (bytectr % Block) + k < Block /\ bytectr' - 1 = bytectr + k
    BY <1>2, <1>3, BlockAssumption
  <2> HIDE DEF k
  <2> QED
    BY <2>1, <1>3, WithinBlock
<1>6. CounterCurrent'
  BY <1>1, <1>2, <1>3, <1>5 DEF CounterCurrent, CtrOf
<1>7. n = Block => bytectr' % Block = 0
  <2>1. 1 \in Nat /\ (bytectr + (Block * 1)) % Block = 0
    BY <1>3, AddBlocks
  <2>2. n = Block => bytectr' = bytectr + (Block * 1)
    BY <1>2, <1>3, BlockAssumption
  <2> QED
    BY <2>1, <2>2
<1>8. BufferCurrent'
  <2>1. CASE n = Block
    BY <2>1, <1>7 DEF BufferCurrent
  <2>2. CASE n < Block
    <3>1. bytectr' \div Block = bytectr \div Block
      BY <2>2, <1>2, <1>3, WithinBlock
    <3> QED
      BY <3>1, <1>1, <1>2 DEF BufferCurrent, CtrOf
  <2> QED
    BY <2>1, <2>2, BlockAssumption
<1> QED
  BY <1>1, <1>2, <1>3, <1>4, <1>6, <1>7, <1>8

-----------------------------------------------------------------------------
(* Each step of a call keeps the invariant. *)

\* The types after a step that leaves the locals of the wide loop alone.
LEMMA TypeAfter ==
  ASSUME TypeOK, bytectr' \in Nat, buflen' \in Nat, pos' \in Nat,
         pblk' \in Pblk, buf' \in Pblk, out' \in OutType(pos'), pc' \in Labels,
         UNCHANGED <<hwaccel, block_counter, arr, i, nonce>>
  PROVE  TypeOK'
BY DEF TypeOK, OutType

\* The bytes that complete a cipherblock.
LEMMA PrePreserves ==
  ASSUME IInv, pc \in {"pre", "aesni_pre", "arm_pre"},
         NEW next \in {"loop", "aesni_load", "arm_load"}, pre_wholeblock(next)
  PROVE  IInv'
<1> USE DEF IInv
<1> DEFINE bytemod == bytectr % Block
<1>1. /\ pos = bytectr /\ bytectr \in Nat /\ buflen \in Nat
      /\ CounterCurrent /\ BufferCurrent /\ TypeOK /\ KeystreamInOrder
      /\ bytemod \in 0..(Block - 1)
  BY DivMod DEF TypeOK, Wide
<1>2. UNCHANGED <<hwaccel, pblk, buf, block_counter, arr, i, nonce>>
  BY DEF pre_wholeblock, locals
<1>0. pblk' \in Pblk /\ buf' \in Pblk
  BY <1>1, <1>2 DEF TypeOK
<1>3. CASE bytemod = 0
  <2>1. pc' = next /\ UNCHANGED <<bytectr, buflen, pos, out>>
    BY <1>3 DEF pre_wholeblock
  <2> QED
    BY <1>1, <1>2, <1>3, <2>1 DEF TypeOK, KeystreamInOrder, CounterCurrent, CtrOf,
       BufferCurrent, AtBoundary, WideLoop, Labels, Wide
<1>4. CASE bytemod # 0 /\ bytemod + buflen <= Block
  <2>1. pc' = "idle" /\ cipherblock_use(buflen, bytectr % Block, buf)
    BY <1>4 DEF pre_wholeblock
  <2>2. /\ bytectr' \in Nat /\ buflen' = buflen - buflen
        /\ pos' = bytectr' /\ pos' \in Nat /\ out' \in OutType(pos')
        /\ KeystreamInOrder' /\ CounterCurrent' /\ BufferCurrent'
    BY <1>1, <1>2, <1>4, <2>1, UseBuffered
  <2>3. buflen' = 0
    BY <2>2, <1>1
  <2>4. TypeOK'
    BY <1>1, <1>2, <2>1, <2>2, <2>3, <1>0, TypeAfter DEF Labels
  <2> QED
    BY <2>1, <2>2, <2>3, <2>4 DEF AtBoundary, WideLoop, Wide
<1>5. CASE bytemod # 0 /\ ~(bytemod + buflen <= Block)
  <2> DEFINE n == Block - bytemod
  <2>1. pc' = next /\ cipherblock_use(n, bytectr % Block, buf)
    BY <1>5 DEF pre_wholeblock
  <2>2. n \in Nat /\ n <= buflen /\ bytemod + n <= Block
    BY <1>1, <1>5, BlockAssumption
  <2>3. /\ bytectr' = bytectr + n /\ bytectr' \in Nat /\ buflen' \in Nat
        /\ pos' = bytectr' /\ pos' \in Nat /\ out' \in OutType(pos')
        /\ KeystreamInOrder' /\ CounterCurrent' /\ BufferCurrent'
    <3> HIDE DEF n
    <3> QED
      BY <1>1, <1>2, <1>5, <2>1, <2>2, UseBuffered
  <2>4. bytectr' % Block = 0
    BY <1>1, <1>5, <2>3, FillBlock
  <2>5. TypeOK'
    BY <1>1, <1>2, <2>1, <2>3, <1>0, TypeAfter DEF Labels
  <2> QED
    BY <2>1, <2>3, <2>4, <2>5 DEF AtBoundary, WideLoop, Wide
<1> QED
  BY <1>3, <1>4, <1>5

\* A turn of the generic loop, or its exit.
LEMMA LoopPreserves == IInv /\ GenericLoop => IInv'
<1> SUFFICES ASSUME IInv, GenericLoop PROVE IInv'
  OBVIOUS
<1> USE DEF IInv
<1>1. /\ pc = "loop" /\ pos = bytectr /\ bytectr % Block = 0
      /\ CounterCurrent /\ BufferCurrent /\ TypeOK /\ KeystreamInOrder
      /\ buflen \in Nat
      /\ UNCHANGED <<hwaccel, block_counter, arr, i, nonce>>
  BY DEF GenericLoop, AtBoundary, TypeOK, Wide, locals
<1>2. CASE buflen >= Block
  <2>1. GenerateAndUse(Block) /\ pc' = pc /\ Block \in 1..Block /\ Block <= buflen
    BY <1>2, <1>1, BlockAssumption DEF GenericLoop
  <2>2. /\ bytectr' \in Nat /\ buflen' \in Nat
        /\ pos' = bytectr' /\ pos' \in Nat /\ out' \in OutType(pos')
        /\ pblk' \in Pblk /\ buf' \in Pblk
        /\ KeystreamInOrder' /\ CounterCurrent' /\ BufferCurrent'
        /\ bytectr' % Block = 0
    BY <1>1, <2>1, GenerateStep
  <2>3. TypeOK'
    BY <1>1, <2>1, <2>2, TypeAfter DEF Labels
  <2> QED
    BY <1>1, <2>1, <2>2, <2>3 DEF AtBoundary, WideLoop, Wide
<1>3. CASE ~(buflen >= Block)
  <2>1. pc' = "post" /\ UNCHANGED <<bytectr, pblk, buf, buflen, pos, out>>
    BY <1>3 DEF GenericLoop, stream
  <2>2. buflen < Block
    BY <1>1, <1>3, BlockAssumption
  <2> QED
    BY <1>1, <2>1, <2>2 DEF TypeOK, KeystreamInOrder, CounterCurrent, CtrOf,
       BufferCurrent, AtBoundary, WideLoop, Labels, Wide
<1> QED
  BY <1>2, <1>3

\* The bytes after the whole blocks.
LEMMA PostPreserves == IInv /\ post_wholeblock => IInv'
<1> SUFFICES ASSUME IInv, post_wholeblock PROVE IInv'
  OBVIOUS
<1> USE DEF IInv
<1>1. /\ pc = "post" /\ pc' = "idle" /\ pos = bytectr /\ bytectr % Block = 0
      /\ CounterCurrent /\ BufferCurrent /\ TypeOK /\ KeystreamInOrder
      /\ buflen \in Nat /\ buflen < Block
      /\ UNCHANGED <<hwaccel, block_counter, arr, i, nonce>>
  BY DEF post_wholeblock, AtBoundary, TypeOK, Wide, locals
<1>2. CASE buflen > 0
  <2>1. GenerateAndUse(buflen) /\ buflen \in 1..Block /\ buflen <= buflen
    BY <1>2, <1>1, BlockAssumption DEF post_wholeblock
  <2>2. /\ bytectr' \in Nat /\ buflen' = buflen - buflen
        /\ pos' = bytectr' /\ pos' \in Nat /\ out' \in OutType(pos')
        /\ pblk' \in Pblk /\ buf' \in Pblk
        /\ KeystreamInOrder' /\ CounterCurrent' /\ BufferCurrent'
    BY <1>1, <2>1, GenerateStep
  <2>3. buflen' = 0
    BY <1>1, <2>2
  <2>4. TypeOK'
    BY <1>1, <2>2, <2>3, TypeAfter DEF Labels
  <2> QED
    BY <1>1, <2>2, <2>3, <2>4 DEF AtBoundary, WideLoop, Wide
<1>3. CASE ~(buflen > 0)
  <2>1. UNCHANGED <<bytectr, pblk, buf, buflen, pos, out>>
    BY <1>3 DEF post_wholeblock, stream
  <2>2. buflen = 0
    BY <1>1, <1>3
  <2> QED
    BY <1>1, <2>1, <2>2 DEF TypeOK, KeystreamInOrder, CounterCurrent, CtrOf,
       BufferCurrent, AtBoundary, WideLoop, Labels, Wide
<1> QED
  BY <1>2, <1>3

\* Entering the whole-blocks loop, or skipping it.
LEMMA LoadPreserves ==
  ASSUME IInv, pc \in {"aesni_load", "arm_load"}, NEW next \in Wide,
         LoadLocals(next)
  PROVE  IInv'
<1> USE DEF IInv
<1>1. /\ pos = bytectr /\ bytectr % Block = 0 /\ bytectr \in Nat
      /\ CounterCurrent /\ BufferCurrent /\ TypeOK /\ KeystreamInOrder
      /\ buflen \in Nat
      /\ UNCHANGED <<hwaccel, bytectr, pblk, buf, buflen, nonce, pos, out>>
  BY DEF LoadLocals, AtBoundary, TypeOK, Wide, stream
<1>2. /\ KeystreamInOrder' /\ CounterCurrent' /\ BufferCurrent'
      /\ pos' = bytectr' /\ bytectr' % Block = 0
  BY <1>1 DEF KeystreamInOrder, CounterCurrent, BufferCurrent, CtrOf
<1>3. CASE buflen >= Block
  <2> DEFINE num == buflen \div Block
             q == bytectr \div Block
  <2>1. block_counter' = q /\ i' = num /\ pc' = next /\ UNCHANGED arr
    BY <1>3 DEF LoadLocals
  <2>2. num \in Nat /\ q \in Nat /\ num > 0
    BY <1>1, <1>3, BlockAssumption
  <2>3. TypeOK'
    <3> HIDE DEF num, q
    <3> QED
      BY <1>1, <2>1, <2>2 DEF TypeOK, Labels, Wide
  <2>4. WideLoop'
    <3>1. num - num = 0 /\ q + 0 = q /\ bytectr + (Block * 0) = bytectr
      BY <2>2, <1>1, BlockAssumption
    <3> QED
      BY <1>1, <2>1, <2>2, <3>1 DEF WideLoop
  <2> QED
    BY <1>2, <2>1, <2>3, <2>4 DEF AtBoundary, Wide
<1>4. CASE ~(buflen >= Block)
  <2>1. pc' = "post" /\ UNCHANGED <<block_counter, arr, i>>
    BY <1>4 DEF LoadLocals, locals
  <2>2. TypeOK'
    BY <1>1, <2>1 DEF TypeOK, Labels
  <2>3. buflen' < Block
    BY <1>1, <1>4, BlockAssumption
  <2> QED
    BY <1>2, <2>1, <2>2, <2>3 DEF AtBoundary, WideLoop, Wide
<1> QED
  BY <1>3, <1>4

\* A block of the whole-blocks loop.
LEMMA WidePreserves == IInv /\ pc \in Wide /\ WideTurn => IInv'
<1> SUFFICES ASSUME IInv, pc \in Wide, WideTurn PROVE IInv'
  OBVIOUS
<1> USE DEF IInv
<1> DEFINE num == buflen \div Block
           done == num - i
           b == [nonce |-> pblk.nonce, hi |-> arr'.hi, lo |-> arr'.lo]
<1>1. /\ bytectr % Block = 0 /\ bytectr \in Nat /\ buflen \in Nat
      /\ CounterCurrent /\ BufferCurrent /\ TypeOK /\ KeystreamInOrder
      /\ i \in Nat /\ i > 0 /\ i' = i - 1 /\ block_counter \in Nat
      /\ arr' = be64enc(block_counter) /\ block_counter' = block_counter + 1
      /\ XorBytes(Block, 0, b)
      /\ pblk.nonce = nonce /\ nonce \in Nonces
      /\ UNCHANGED <<hwaccel, bytectr, pblk, buf, pc, buflen, nonce>>
  BY DEF WideTurn, AtBoundary, TypeOK, Wide, stream, CounterCurrent
<1>2. /\ num \in Nat /\ done \in Nat /\ i <= num /\ num > 0
      /\ block_counter = (bytectr \div Block) + done
      /\ pos = bytectr + (Block * done)
  BY <1>1, DivMod DEF WideLoop
<1>3. pos \div Block = block_counter /\ pos % Block = 0 /\ pos \in Nat
  <2> HIDE DEF done
  <2> QED
    BY <1>1, <1>2, AddBlocks
<1>4. /\ arr' \in [hi : Nat, lo : 0..(Base - 1)]
      /\ (arr'.hi * Base) + arr'.lo = block_counter
  BY <1>1, Encoding
<1>5. b \in Pblk /\ b.nonce = nonce /\ CtrOf(b) = block_counter
  BY <1>1, <1>4 DEF Pblk, CtrOf
<1>6. KeystreamInOrder' /\ pos' = pos + Block /\ pos' \in Nat /\ out' \in OutType(pos')
  <2> HIDE DEF b
  <2>1. Block \in Nat /\ 0 \in Nat /\ 0 + Block <= Block
    BY BlockAssumption
  <2> QED
    BY <1>1, <1>3, <1>5, <2>1, XorInOrder DEF OutType
<1>7. TypeOK'
  <2>1. i' \in Nat /\ block_counter' \in Nat
    BY <1>1
  <2> QED
    BY <1>1, <1>4, <1>6, <2>1 DEF TypeOK, OutType
<1>8. WideLoop'
  <2> DEFINE done1 == num - i'
  <2>1. done1 = done + 1 /\ i' <= num
    BY <1>1, <1>2
  <2>2. block_counter' = (bytectr \div Block) + done1
    BY <1>1, <1>2, <2>1, DivMod
  <2>3. pos' = bytectr + (Block * done1)
    <3> HIDE DEF done, done1
    <3> QED
      BY <1>1, <1>2, <1>6, <2>1, BlockAssumption
  <2>4. (arr'.hi * Base) + arr'.lo = block_counter' - 1
    BY <1>1, <1>4
  <2> QED
    BY <1>1, <1>2, <2>1, <2>2, <2>3, <2>4 DEF WideLoop
<1>9. CounterCurrent' /\ BufferCurrent'
  BY <1>1 DEF CounterCurrent, BufferCurrent, CtrOf
<1> QED
  BY <1>1, <1>6, <1>7, <1>8, <1>9 DEF AtBoundary, Wide

\* The end of the whole-blocks loop.
LEMMA StorePreserves == IInv /\ pc \in Wide /\ StoreLocals => IInv'
<1> SUFFICES ASSUME IInv, pc \in Wide, StoreLocals PROVE IInv'
  OBVIOUS
<1> USE DEF IInv
<1> DEFINE num == buflen \div Block
<1>1. /\ bytectr % Block = 0 /\ bytectr \in Nat /\ buflen \in Nat
      /\ CounterCurrent /\ BufferCurrent /\ TypeOK /\ KeystreamInOrder
      /\ i = 0 /\ buflen' = buflen - (Block * num) /\ pc' = "post"
      /\ pblk' = [pblk EXCEPT !.hi = arr.hi, !.lo = arr.lo]
      /\ bytectr' = bytectr + (Block * num)
      /\ pblk.nonce = nonce
      /\ arr \in [hi : Nat, lo : 0..(Base - 1)] /\ pblk \in Pblk
      /\ UNCHANGED <<hwaccel, buf, block_counter, arr, i, nonce, pos, out>>
  BY DEF StoreLocals, AtBoundary, TypeOK, Wide, locals, CounterCurrent
<1>2. /\ num \in Nat /\ num > 0 /\ num - i = num
      /\ pos = bytectr + (Block * num)
      /\ (arr.hi * Base) + arr.lo = (bytectr \div Block) + num - 1
  BY <1>1, DivMod DEF WideLoop
<1>3. buflen' \in Nat /\ buflen' < Block
  <2>1. buflen = (Block * num) + (buflen % Block) /\ buflen % Block \in 0..(Block - 1)
    BY <1>1, DivMod
  <2>2. Block * num \in Nat
    BY <1>2, BlockAssumption
  <2> HIDE DEF num
  <2> QED
    BY <1>1, <2>1, <2>2, BlockAssumption
<1>4. /\ bytectr' \in Nat /\ bytectr' > 0 /\ bytectr' % Block = 0
      /\ bytectr' \div Block = (bytectr \div Block) + num
  <2> HIDE DEF num
  <2>1. Block * num > 0 /\ num \in Nat /\ bytectr \in Nat /\ bytectr % Block = 0
    BY <1>1, <1>2, BlockAssumption
  <2>2. /\ (bytectr + Block * num) \div Block = (bytectr \div Block) + num
        /\ (bytectr + Block * num) % Block = 0
        /\ bytectr + Block * num \in Nat
    BY <2>1, AddBlocks
  <2>3. bytectr' = bytectr + Block * num
    BY <1>1
  <2>4. bytectr' > 0 /\ bytectr' \in Nat
    <3> DEFINE m == Block * num
    <3>1. m \in Nat /\ m > 0 /\ bytectr' = bytectr + m
      BY <2>1, <2>3, BlockAssumption
    <3> HIDE DEF m
    <3> QED
      BY <3>1, <2>1
  <2> QED
    BY <2>2, <2>3, <2>4
<1>5. (bytectr' - 1) \div Block = (bytectr \div Block) + num - 1
  <2>1. (bytectr' - 1) \div Block = (bytectr' \div Block) - 1
    BY <1>4, LastByte
  <2>2. num \in Nat /\ bytectr \div Block \in Nat
    BY <1>1, <1>2, DivMod
  <2> HIDE DEF num
  <2> QED
    BY <1>4, <2>1, <2>2
<1>6. pblk' \in Pblk /\ pblk'.nonce = nonce /\ CtrOf(pblk') = (arr.hi * Base) + arr.lo
  BY <1>1 DEF Pblk, CtrOf
<1>7. CounterCurrent' /\ BufferCurrent'
  <2>1. CtrOf(pblk)' = CtrOf(pblk') /\ CtrOf(pblk') = (bytectr' - 1) \div Block
    BY <1>2, <1>5, <1>6 DEF CtrOf
  <2>2. CounterCurrent'
    BY <1>1, <1>4, <1>6, <2>1 DEF CounterCurrent
  <2> QED
    BY <1>4, <2>2 DEF BufferCurrent
<1>8. TypeOK' /\ KeystreamInOrder'
  BY <1>1, <1>3, <1>4, <1>6 DEF TypeOK, KeystreamInOrder, Labels
<1>9. pos' = bytectr'
  BY <1>1, <1>2
<1> HIDE DEF num
<1> QED
  BY <1>1, <1>3, <1>4, <1>7, <1>8, <1>9 DEF AtBoundary, WideLoop, Wide

\* A stream that has just been set up.
LEMMA Init2Preserves ==
  ASSUME IInv, pc \in {"none", "idle"}, NEW n \in Nonces, NEW h \in Nat,
         Init2(n, h), buf' \in Pblk
  PROVE  IInv'
<1> USE DEF IInv
<1>1. /\ TypeOK /\ buflen = 0
      /\ pblk' = [nonce |-> n, hi |-> h, lo |-> Base - 1]
      /\ bytectr' = 0 /\ nonce' = n /\ pos' = 0 /\ pc' = "idle"
      /\ out' = [k \in {} |-> 0]
      /\ UNCHANGED <<buflen, block_counter, arr, i>>
  BY DEF Init2, locals
<1>2. hwaccel' \in {"unset", "software", "aesni", "arm"}
  <2>1. CASE hwaccel # "unset"
    BY <1>1, <2>1 DEF Init2, hwaccel_init, TypeOK
  <2>2. CASE hwaccel = "unset"
    <3>1. PICK d \in Detected :
            hwaccel' = CASE d = 1 -> "aesni" [] d = 2 -> "arm" [] d = 0 -> "software"
      BY <2>2 DEF Init2, hwaccel_init
    <3>2. d \in 0..2
      BY DetectedAssumption
    <3> QED
      BY <3>1, <3>2
  <2> QED
    BY <2>1, <2>2
<1>3. pblk' \in Pblk /\ pblk'.lo = Base - 1 /\ pblk'.nonce = n
  BY <1>1, BaseAssumption DEF Pblk
<1>4. out' \in [0..(pos' - 1) -> [nonce : Nonces, ctr : Nat, off : Nat]]
      /\ KeystreamInOrder'
  <2>1. 0..(pos' - 1) = {}
    BY <1>1
  <2> QED
    BY <1>1, <2>1 DEF KeystreamInOrder
<1>5. TypeOK'
  BY <1>1, <1>2, <1>3, <1>4 DEF TypeOK, Labels
<1>6. bytectr' % Block = 0
  BY <1>1, BlockAssumption
<1>7. CounterCurrent' /\ BufferCurrent'
  BY <1>1, <1>3, <1>6 DEF CounterCurrent, BufferCurrent
<1> QED
  BY <1>1, <1>4, <1>5, <1>6, <1>7 DEF AtBoundary, WideLoop, Wide

\* The calls a caller makes.
LEMMA CallsPreserve == IInv /\ Calls => IInv'
<1> SUFFICES ASSUME IInv, Calls PROVE IInv'
  OBVIOUS
<1>1. CASE crypto_aesctr_init
  <2>1. PICK n \in Nonces, h \in Garbage, g \in Garbage, gn \in Nonces :
          /\ Init2(n, h)
          /\ buf' = [nonce |-> gn, hi |-> g, lo |-> g % Base]
    BY <1>1 DEF crypto_aesctr_init
  <2>2. h \in Nat /\ g \in Nat /\ g % Base \in 0..(Base - 1)
    BY DataAssumption, BaseAssumption
  <2>3. buf' \in Pblk
    BY <2>1, <2>2 DEF Pblk
  <2> QED
    BY <1>1, <2>1, <2>2, <2>3, Init2Preserves DEF crypto_aesctr_init
<1>2. CASE crypto_aesctr_init2
  <2>1. PICK n \in Nonces : Init2(n, pblk.hi)
    BY <1>2 DEF crypto_aesctr_init2
  <2>2. buf' \in Pblk /\ pblk.hi \in Nat
    BY <1>2 DEF crypto_aesctr_init2, IInv, TypeOK, Pblk
  <2> QED
    BY <1>2, <2>1, <2>2, Init2Preserves DEF crypto_aesctr_init2
<1>3. CASE crypto_aesctr_free
  <2>1. /\ pc = "idle" /\ pc' = "none"
        /\ UNCHANGED <<hwaccel, bytectr, pblk, buf, buflen, block_counter, arr, i,
                       nonce, pos, out>>
    BY <1>3 DEF crypto_aesctr_free, stream, locals
  <2> QED
    BY <2>1 DEF IInv, TypeOK, KeystreamInOrder, AtBoundary, WideLoop, Labels, Wide
<1>4. CASE crypto_aesctr_stream
  <2>1. PICK n \in 0..(MaxBytes - bytectr) :
          /\ buflen' = n
          /\ pc' = CASE Path(n) = "generic" -> "pre"
                     [] Path(n) = "aesni" -> "aesni_pre"
                     [] Path(n) = "arm" -> "arm_pre"
    BY <1>4 DEF crypto_aesctr_stream
  <2>2. /\ pc = "idle"
        /\ UNCHANGED <<hwaccel, bytectr, pblk, buf, block_counter, arr, i,
                       nonce, pos, out>>
    BY <1>4 DEF crypto_aesctr_stream, stream, locals
  <2>3. Path(n) \in {"generic", "aesni", "arm"}
    BY DEF Path
  <2>4. pc' \in {"pre", "aesni_pre", "arm_pre"} /\ buflen' \in Nat
    BY <2>1, <2>3
  <2>5. TypeOK'
    BY <2>2, <2>4 DEF IInv, TypeOK, Labels
  <2>6. CounterCurrent' /\ BufferCurrent' /\ KeystreamInOrder'
    BY <2>2 DEF IInv, CounterCurrent, BufferCurrent, KeystreamInOrder, CtrOf
  <2> QED
    BY <2>2, <2>4, <2>5, <2>6 DEF IInv, AtBoundary, WideLoop, Wide
<1> QED
  BY <1>1, <1>2, <1>3, <1>4 DEF Calls

LEMMA StepsPreserve == IInv /\ Steps => IInv'
<1> SUFFICES ASSUME IInv, Steps PROVE IInv'
  OBVIOUS
<1>1. CASE GenericPre
  BY <1>1, PrePreserves DEF GenericPre
<1>2. CASE GenericLoop
  BY <1>2, LoopPreserves
<1>3. CASE AesniPre
  BY <1>3, PrePreserves DEF AesniPre
<1>4. CASE AesniLoad
  BY <1>4, LoadPreserves DEF AesniLoad, Wide
<1>5. CASE AesniWholeblocks
  BY <1>5, WidePreserves, StorePreserves DEF AesniWholeblocks, Wide
<1>6. CASE ArmPre
  BY <1>6, PrePreserves DEF ArmPre
<1>7. CASE ArmLoad
  BY <1>7, LoadPreserves DEF ArmLoad, Wide
<1>8. CASE ArmWholeblocks
  BY <1>8, WidePreserves, StorePreserves DEF ArmWholeblocks, Wide
<1>9. CASE post_wholeblock
  BY <1>9, PostPreserves
<1> QED
  BY <1>1, <1>2, <1>3, <1>4, <1>5, <1>6, <1>7, <1>8, <1>9 DEF Steps

LEMMA InitInvariant == Init => IInv
<1> SUFFICES ASSUME Init PROVE IInv
  OBVIOUS
<1>1. NoPblk \in Pblk /\ NoPblk.nonce \in Nonces
  BY DataAssumption, BaseAssumption DEF NoPblk, Pblk
<1>2. 0..(pos - 1) = {}
  BY DEF Init
<1>3. TypeOK
  BY <1>1, <1>2, Encoding DEF Init, TypeOK, Labels
<1> QED
  BY <1>2, <1>3 DEF Init, IInv, KeystreamInOrder, AtBoundary, WideLoop, Wide

-----------------------------------------------------------------------------
\* The invariant above is inductive.
THEOREM Invariant == Spec => []IInv
<1>1. IInv /\ [Next]_vars => IInv'
  <2> SUFFICES ASSUME IInv, [Next]_vars PROVE IInv'
    OBVIOUS
  <2>1. CASE Next
    BY <2>1, CallsPreserve, StepsPreserve DEF Next
  <2>2. CASE UNCHANGED vars
    BY <2>2 DEF vars, stream, locals, IInv, TypeOK, KeystreamInOrder,
       CounterCurrent, BufferCurrent, CtrOf, AtBoundary, WideLoop
  <2> QED
    BY <2>1, <2>2
<1> QED
  BY <1>1, InitInvariant, PTL DEF Spec

\* Variables keep their types for every value of the constants: no counter of
\* the three loops ever goes below zero.
THEOREM TypeCorrect == Spec => []TypeOK
<1>1. IInv => TypeOK
  BY DEF IInv
<1> QED
  BY <1>1, Invariant, PTL

\* Every byte of every stream is covered by its own byte of the keystream.
THEOREM KeystreamCorrect == Spec => []KeystreamInOrder
<1>1. IInv => KeystreamInOrder
  BY DEF IInv
<1> QED
  BY <1>1, Invariant, PTL

\* Between calls the counters agree with the bytes passed.
THEOREM CallsComplete == Spec => []NothingLeftOver
<1>1. IInv => NothingLeftOver
  BY DEF IInv, NothingLeftOver, Wide
<1> QED
  BY <1>1, Invariant, PTL

-----------------------------------------------------------------------------
(* The stream implements CtrStream. *)

owedBar == buflen - (pos - bytectr)

\* What is still owed to the caller is never negative.
LEMMA OwedNat == IInv => owedBar \in Nat /\ bytectr + buflen = pos + owedBar
<1> SUFFICES ASSUME IInv PROVE owedBar \in Nat /\ bytectr + buflen = pos + owedBar
  OBVIOUS
<1>1. bytectr \in Nat /\ buflen \in Nat /\ pos \in Nat /\ i \in Nat
  BY DEF IInv, TypeOK
<1>2. CASE pc \notin Wide
  BY <1>1, <1>2 DEF IInv, owedBar
<1>3. CASE pc \in Wide
  <2> DEFINE num == buflen \div Block
             done == num - i
  <2>1. /\ pos = bytectr + (Block * done) /\ i <= num /\ num \in Nat
        /\ buflen = (Block * num) + (buflen % Block) /\ buflen % Block \in Nat
    BY <1>1, <1>3, DivMod, BlockAssumption DEF IInv, WideLoop
  <2>2. done \in Nat /\ done <= num
    BY <1>1, <2>1
  <2> HIDE DEF num, done
  <2>3. Block * done \in Nat /\ Block * done <= Block * num /\ Block * num \in Nat
    BY <2>1, <2>2, BlockAssumption
  <2> QED
    BY <1>1, <2>1, <2>3 DEF owedBar
<1> QED
  BY <1>2, <1>3

\* The arithmetic of a delivery: what was owed splits into the n bytes delivered
\* and what is still owed.
LEMMA SplitOwed ==
  ASSUME NEW p \in Nat, NEW o \in Nat, NEW p1 \in Nat, NEW o1 \in Nat,
         p + o = p1 + o1, p1 >= p
  PROVE  \E n \in 0..o : n \in Nat /\ p1 = p + n /\ o1 = o - n
<1>1. p1 - p \in 0..o /\ p1 = p + (p1 - p) /\ o1 = o - (p1 - p)
  OBVIOUS
<1> QED
  BY <1>1

\* A step that moves the pointers and not the total of the call is a delivery.
LEMMA Delivers ==
  ASSUME IInv, IInv'
  PROVE  nonce' = nonce /\ pos' >= pos /\ bytectr' + buflen' = bytectr + buflen
           => Abstract!ADeliver
<1>1. /\ bytectr \in Nat /\ buflen \in Nat /\ pos \in Nat
      /\ bytectr' \in Nat /\ buflen' \in Nat /\ pos' \in Nat
  BY DEF IInv, TypeOK
<1>2. owedBar \in Nat /\ owedBar' \in Nat
      /\ bytectr + buflen = pos + owedBar /\ bytectr' + buflen' = pos' + owedBar'
  <2>1. IInv' => (owedBar \in Nat /\ bytectr + buflen = pos + owedBar)'
    BY OwedNat, PTL
  <2> QED
    BY <2>1, OwedNat
<1> HAVE nonce' = nonce /\ pos' >= pos /\ bytectr' + buflen' = bytectr + buflen
<1>3. PICK n \in 0..owedBar : n \in Nat /\ pos' = pos + n /\ owedBar' = owedBar - n
  <2>1. PICK p1 \in Nat, o1 \in Nat, t \in Nat :
          p1 = pos' /\ o1 = owedBar' /\ t = bytectr + buflen
    BY <1>1, <1>2
  <2>2. p1 + o1 = t
    BY <1>2, <2>1, Zenon
  <2>3. p1 >= pos /\ pos + owedBar = t
    BY <1>2, <2>1
  <2>4. \E n \in 0..owedBar : n \in Nat /\ p1 = pos + n /\ o1 = owedBar - n
    BY <1>1, <1>2, <2>2, <2>3, SplitOwed
  <2> QED
    BY <2>1, <2>4
<1>4. out' = [k \in 0..(pos + n - 1) |->
               [nonce |-> nonce, ctr |-> k \div Block, off |-> k % Block]]
  <2>2. out' = [k \in 0..(pos' - 1) |-> out'[k]]
    BY DEF IInv, TypeOK
  <2>1. 0..(pos' - 1) = 0..(pos + n - 1)
    BY <1>1, <1>3
  <2>3. \A k \in 0..(pos' - 1) :
          out'[k] = [nonce |-> nonce, ctr |-> k \div Block, off |-> k % Block]
    BY DEF IInv, KeystreamInOrder
  <2> QED
    BY <2>1, <2>2, <2>3
<1> QED
  BY <1>3, <1>4 DEF Abstract!ADeliver, Abstract!KeystreamByte, owedBar

\* Every step of a call is a delivery, of no bytes at all for those that only
\* move the locals.
LEMMA StepsDeliver ==
  ASSUME IInv, IInv', Steps
  PROVE  nonce' = nonce /\ pos' >= pos /\ bytectr' + buflen' = bytectr + buflen
<1>1. /\ TypeOK /\ bytectr \in Nat /\ buflen \in Nat /\ pos \in Nat
      /\ bytectr % Block \in 0..(Block - 1) /\ buflen \div Block \in Nat
  BY DivMod DEF IInv, TypeOK
<1>2. ASSUME NEW n \in Nat, NEW m, NEW b, cipherblock_use(n, m, b)
      PROVE  pos' >= pos /\ bytectr' + buflen' = bytectr + buflen
  BY <1>1, <1>2 DEF cipherblock_use, XorBytes
<1>3. ASSUME NEW next, pre_wholeblock(next)
      PROVE  nonce' = nonce /\ pos' >= pos /\ bytectr' + buflen' = bytectr + buflen
  <2>1. nonce' = nonce
    BY <1>3 DEF pre_wholeblock
  <2>2. CASE bytectr % Block = 0
    BY <1>1, <1>3, <2>2 DEF pre_wholeblock
  <2>3. CASE bytectr % Block # 0 /\ (bytectr % Block) + buflen <= Block
    BY <1>1, <1>2, <1>3, <2>3 DEF pre_wholeblock
  <2>4. CASE bytectr % Block # 0 /\ ~((bytectr % Block) + buflen <= Block)
    <3>1. Block - (bytectr % Block) \in Nat
      BY <1>1, BlockAssumption
    <3> QED
      BY <1>2, <1>3, <2>4, <3>1 DEF pre_wholeblock
  <2> QED
    BY <2>1, <2>2, <2>3, <2>4
<1>4. ASSUME NEW next, LoadLocals(next)
      PROVE  nonce' = nonce /\ pos' >= pos /\ bytectr' + buflen' = bytectr + buflen
  BY <1>1, <1>4 DEF LoadLocals, stream
<1>5. ASSUME WideTurn \/ StoreLocals
      PROVE  nonce' = nonce /\ pos' >= pos /\ bytectr' + buflen' = bytectr + buflen
  <2>1. CASE WideTurn
    BY <1>1, <2>1, BlockAssumption DEF WideTurn, XorBytes, stream
  <2>2. CASE StoreLocals
    <3> DEFINE m == Block * (buflen \div Block)
    <3>1. m \in Nat /\ buflen' = buflen - m /\ bytectr' = bytectr + m
          /\ UNCHANGED <<nonce, pos>>
      BY <1>1, <2>2, BlockAssumption DEF StoreLocals
    <3> HIDE DEF m
    <3> QED
      BY <1>1, <3>1
  <2> QED
    BY <1>5, <2>1, <2>2
<1>6. CASE GenericLoop
  <2>1. CASE buflen >= Block
    <3>1. Block \in Nat /\ nonce' = nonce /\ cipherblock_use(Block, 0, NextPblk)
      BY <1>6, <2>1, BlockAssumption DEF GenericLoop, GenerateAndUse
    <3> QED
      BY <1>2, <3>1
  <2>2. CASE ~(buflen >= Block)
    BY <1>1, <1>6, <2>2 DEF GenericLoop, stream
  <2> QED
    BY <2>1, <2>2
<1>7. CASE post_wholeblock
  <2>1. CASE buflen > 0
    <3>1. nonce' = nonce /\ cipherblock_use(buflen, 0, NextPblk)
      BY <1>7, <2>1 DEF post_wholeblock, GenerateAndUse
    <3> QED
      BY <1>1, <1>2, <3>1
  <2>2. CASE ~(buflen > 0)
    BY <1>1, <1>7, <2>2 DEF post_wholeblock, stream
  <2> QED
    BY <2>1, <2>2
<1> QED
  BY <1>3, <1>4, <1>5, <1>6, <1>7 DEF Steps, GenericPre, AesniPre, ArmPre,
     AesniLoad, ArmLoad, AesniWholeblocks, ArmWholeblocks

\* A call of the caller is a restart, a request, or nothing at all.
LEMMA CallsRefine ==
  ASSUME IInv, IInv', Calls
  PROVE  Abstract!ANext \/ UNCHANGED Abstract!avars
<1>1. /\ bytectr \in Nat /\ buflen \in Nat /\ pos \in Nat
      /\ pc = "idle" => buflen = 0 /\ pos = bytectr
      /\ pc = "none" => buflen = 0 /\ pos = bytectr
  BY DEF IInv, TypeOK, Wide
<1>2. ASSUME NEW n \in Nonces, NEW h, Init2(n, h), buflen = 0
      PROVE  Abstract!ARestart
  BY <1>2 DEF Init2, Abstract!ARestart
<1>3. CASE crypto_aesctr_init
  BY <1>1, <1>2, <1>3 DEF crypto_aesctr_init, Abstract!ANext
<1>4. CASE crypto_aesctr_init2
  BY <1>1, <1>2, <1>4 DEF crypto_aesctr_init2, Abstract!ANext
<1>5. CASE crypto_aesctr_free
  BY <1>5 DEF crypto_aesctr_free, stream, Abstract!avars
<1>6. CASE crypto_aesctr_stream
  BY <1>1, <1>6 DEF crypto_aesctr_stream, stream, Abstract!ARequest, Abstract!ANext
<1> QED
  BY <1>3, <1>4, <1>5, <1>6 DEF Calls

\* The stream implements CtrStream, whichever loops run: encryption and
\* decryption may cut the same data differently, and on different machines.
THEOREM StreamRefines == Spec => ImplementsCtrStream
<1>1. Init => Abstract!AInit
  <2>1. Init => NoPblk.nonce \in Nonces
    BY DataAssumption DEF NoPblk
  <2> QED
    BY <2>1 DEF Init, Abstract!AInit
<1>2. IInv /\ IInv' /\ [Next]_vars => [Abstract!ANext]_Abstract!avars
  <2> SUFFICES ASSUME IInv, IInv', [Next]_vars
               PROVE  Abstract!ANext \/ UNCHANGED Abstract!avars
    OBVIOUS
  <2>1. CASE Calls
    BY <2>1, CallsRefine
  <2>2. CASE Steps
    BY <2>2, StepsDeliver, Delivers DEF Abstract!ANext
  <2>3. CASE UNCHANGED vars
    BY <2>3 DEF vars, stream, Abstract!avars
  <2> QED
    BY <2>1, <2>2, <2>3 DEF Next
<1> QED
  BY <1>1, <1>2, Invariant, PTL DEF Spec, ImplementsCtrStream, Abstract!ASpec
=============================================================================
