----------------------------- MODULE Crypto_proofs -----------------------------
(***************************************************************************)
(* For every block length and every set of hardware code: a digest is that *)
(* of the whole message, an authenticator and a derived key are those of   *)
(* the standards, a block is AES under the key the caller meant; and what  *)
(* the random generator puts out is fresh and cannot be computed again.    *)
(***************************************************************************)
EXTENDS Crypto, Drbg, SequenceTheorems, FiniteSetTheorems, WellFoundedInduction, TLAPS

\* Induction, stated of a set: a set that holds 0 and with n also n + 1 holds
\* every number, or there were a least number outside.
Below == {q \in Nat \X Nat : q[1] < q[2]}
LEMMA Induction ==
  ASSUME NEW S, 0 \in S, \A n \in Nat : n \in S => n + 1 \in S
  PROVE  \A n \in Nat : n \in S
<1>1. IsWellFoundedOn(Below, Nat)
  BY NatLessThanWellFounded DEF OpToRel, Below
<1> DEFINE Outside == Nat \ S
<1>2. SUFFICES ASSUME Outside # {} PROVE FALSE
  OBVIOUS
<1>3. PICK x \in Outside : \A y \in Outside : ~(<<y, x>> \in Below)
  BY <1>1, <1>2, WFMin
<1>4. x \in Nat /\ x # 0 /\ x - 1 \in Nat /\ x = (x - 1) + 1
  OBVIOUS
<1>5. x - 1 \in Outside
  BY <1>4
<1>6. <<x - 1, x>> \in Below
  BY <1>4 DEF Below
<1> QED
  BY <1>3, <1>5, <1>6

-----------------------------------------------------------------------------
(***************************************************************************)
(* SHA-256 (Sha256).                                                       *)
(***************************************************************************)
\* The state after the first n bytes of the message.
Message(n) == [k \in 0..(n - 1) |-> Input(k)]
Inputs(n) == [n |-> n, at |-> Message(n)]
Good(f) == f = "software" \/ f \in sha_sound

\* Only what is sound was chosen.
ChosenGood == sha_hw # "unset" => Good(sha_hw)
\* The numbers, and what the buffer is a function of.
Numbers == /\ count \in Nat /\ src \in Nat /\ len \in Nat /\ given \in Nat
           /\ state.n \in Nat /\ state.n % BlockLen = 0
\* The bytes that are compressed, and those in the buffer, are the message's.
Opened == sha_pc = "open" =>
  /\ count = 8 * given /\ src = given
  /\ state = Inputs(state.n)
  /\ state.n <= given /\ given < state.n + BlockLen
  /\ \A k \in 0..(given - state.n - 1) : buf[k] = Input(state.n + k)
\* Inside SHA256_Update, what is left starts where the compressed bytes end.
InBlocks == sha_pc = "blocks" =>
  /\ count = 8 * given /\ src = state.n /\ src + len = given
  /\ state = Inputs(state.n)
\* All but the bit count is in place.
PadParts(n, s, b) ==
  LET t == s.n + BlockLen IN
  /\ IsPaddedLen(n, t)
  /\ \A k \in 0..(s.n - 1) : s.at[k] = Padded(n, t).at[k]
  /\ \A k \in 0..(FinalStart - 1) : b[k] = Padded(n, t).at[s.n + k]
Padding == sha_pc = "pad" => count = 8 * given /\ PadParts(given, state, buf)

ShaInv == ChosenGood /\ Numbers /\ Opened /\ InBlocks /\ Padding /\ DigestIsOfMessage

-----------------------------------------------------------------------------
(* Arithmetic of block boundaries.                                          *)

LEMMA DivMod ==
  ASSUME NEW n \in Nat
  PROVE  /\ n = BlockLen * (n \div BlockLen) + (n % BlockLen)
         /\ n % BlockLen \in 0..(BlockLen - 1)
         /\ n \div BlockLen \in Nat
BY ShaLengths

LEMMA DivModUnique ==
  ASSUME NEW n \in Nat, NEW q \in Nat, NEW r \in 0..(BlockLen - 1), n = BlockLen * q + r
  PROVE  n \div BlockLen = q /\ n % BlockLen = r
BY ShaLengths

LEMMA ModOf ==
  ASSUME NEW n \in Nat, NEW d \in Nat,
         d % BlockLen = 0, d <= n, n < d + BlockLen
  PROVE  n % BlockLen = n - d
<1> DEFINE q == d \div BlockLen
           r == n - d
<1>1. d = BlockLen * q /\ q \in Nat
  BY DivMod, ShaLengths
<1>2. r \in 0..(BlockLen - 1)
  BY ShaLengths
<1>3. n = BlockLen * q + r
  BY <1>1, ShaLengths
<1> HIDE DEF q, r
<1>4. n % BlockLen = r
  BY <1>1, <1>2, <1>3, DivModUnique
<1> QED
  BY <1>4 DEF r

LEMMA NextMultiple ==
  ASSUME NEW d \in Nat, d % BlockLen = 0
  PROVE  (d + BlockLen) % BlockLen = 0 /\ d + BlockLen \in Nat
<1> DEFINE q == d \div BlockLen + 1
           t == d + BlockLen
<1>1. q \in Nat /\ 0 \in 0..(BlockLen - 1) /\ t \in Nat
  BY DivMod, ShaLengths
<1>2. t = BlockLen * q + 0
  BY DivMod, ShaLengths
<1> HIDE DEF q, t
<1>3. t % BlockLen = 0
  BY <1>1, <1>2, DivModUnique
<1> QED
  BY <1>1, <1>3 DEF t

LEMMA BufferedIs ==
  ASSUME Numbers, count = 8 * given, state.n <= given, given < state.n + BlockLen
  PROVE  Buffered = given - state.n
<1>1. count \div 8 = given
  BY SMT DEF Numbers
<1>2. given % BlockLen = given - state.n
  BY ModOf DEF Numbers
<1> QED
  BY <1>1, <1>2 DEF Buffered
-----------------------------------------------------------------------------
(* The transform.                                                           *)

\* What a sound transform computes.
Appended(s, block) ==
  [n |-> s.n + BlockLen,
   at |-> [k \in 0..((s.n + BlockLen) - 1) |->
             IF k < s.n THEN s.at[k] ELSE block[k - s.n]]]

LEMMA TransformIs ==
  ASSUME ChosenGood, NEW s, NEW block
  PROVE  SHA256_Transform(s, block) = Appended(s, block)
<1> DEFINE f == IF sha_hw = "unset" THEN "software" ELSE sha_hw
<1>1. f \in sha_sound \/ f = "software"
  BY DEF ChosenGood, Good
<1> HIDE DEF f
<1>2. Compress(f, s, block) = Appended(s, block)
  BY <1>1, Zenon DEF Compress, Appended
<1> QED
  BY <1>2 DEF SHA256_Transform, f

\* A block of the message after whole blocks of it.
LEMMA AppendInputs ==
  ASSUME NEW n \in Nat, NEW block, \A k \in Offsets : block[k] = Input(n + k)
  PROVE  Appended(Inputs(n), block) = Inputs(n + BlockLen)
<1> DEFINE L == [k \in 0..((n + BlockLen) - 1) |->
                   IF k < n THEN Inputs(n).at[k] ELSE block[k - n]]
<1>1. Inputs(n).n = n
  BY DEF Inputs
<1>2. \A k \in 0..((n + BlockLen) - 1) :
        (IF k < n THEN Inputs(n).at[k] ELSE block[k - n]) = Input(k)
  <2> SUFFICES ASSUME NEW k \in 0..((n + BlockLen) - 1)
               PROVE  (IF k < n THEN Inputs(n).at[k] ELSE block[k - n]) = Input(k)
    OBVIOUS
  <2>1. CASE k < n
    BY <2>1 DEF Inputs, Message
  <2>2. CASE ~(k < n)
    <3>1. k - n \in Offsets /\ n + (k - n) = k
      BY <2>2, ShaLengths DEF Offsets
    <3>2. block[k - n] = Input(n + (k - n))
      BY <3>1
    <3> QED
      BY <2>2, <3>1, <3>2
  <2> QED
    BY <2>1, <2>2
<1>3. L = Message(n + BlockLen)
  BY <1>2, Zenon DEF Message
<1>4. Appended(Inputs(n), block) = [n |-> n + BlockLen, at |-> L]
  BY <1>1, Zenon DEF Appended
<1> HIDE DEF L
<1> QED
  BY <1>3, <1>4 DEF Inputs

\* The self-test lets only a sound transform pass.
LEMMA TestIsSound ==
  ASSUME NEW f, hwtest(f)
  PROVE  Good(f)
<1> SUFFICES ASSUME ~Good(f) PROVE FALSE
  OBVIOUS
<1> DEFINE sw == Compress("software", Nothing, TestBlock)
           hw == Compress(f, Nothing, TestBlock)
<1>1. Nothing.n = 0 /\ 0 \in 0..((0 + BlockLen) - 1) /\ 0 \in Offsets /\ ~(0 < 0) /\ 0 - 0 = 0
  BY ShaLengths DEF Nothing, Offsets
<1>2. sw.at[0] = TestBlock[0]
  BY <1>1, Zenon DEF Compress
<1>3. hw.at[0] = Broken(TestBlock[0])
  BY <1>1, Zenon DEF Compress, Good
<1>4. TestBlock[0] = Input(0)
  BY <1>1 DEF TestBlock
<1>5. Broken(Input(0)) # Input(0)
  BY DEF Broken, Input
<1>6. sw = hw
  BY DEF hwtest
<1> QED
  BY <1>2, <1>3, <1>4, <1>5, <1>6

LEMMA ChoiceIsSound ==
  ASSUME ChosenGood, hwaccel_init, UNCHANGED world
  PROVE  ChosenGood'
<1>1. CASE sha_hw # "unset"
  BY <1>1 DEF hwaccel_init, ChosenGood, Good, world
<1>2. CASE sha_hw = "unset"
  <2>1. \A blk \in DOMAIN Transforms : Validated(blk) => Good(Transforms[blk])
    BY TestIsSound DEF Validated
  <2>2. sha_hw' = "software" \/ Good(sha_hw')
    BY <1>2, <2>1 DEF hwaccel_init
  <2> QED
    BY <2>2 DEF ChosenGood, Good, world
<1> QED
  BY <1>1, <1>2
-----------------------------------------------------------------------------
(* The calls.                                                               *)

LEMMA ZeroMod == 0 % BlockLen = 0
<1>1. 0 = BlockLen * 0 + 0 /\ 0 \in 0..(BlockLen - 1)
  BY ShaLengths
<1> QED
  BY <1>1, DivModUnique

LEMMA ShaInitInvariant == ShaInit => ShaInv
<1> SUFFICES ASSUME ShaInit PROVE ShaInv
  OBVIOUS
<1>1. ChosenGood
  BY DEF ShaInit, ChosenGood
<1>2. Numbers
  BY ZeroMod DEF ShaInit, Numbers, Nothing
<1>3. Opened /\ InBlocks /\ Padding /\ DigestIsOfMessage
  BY DEF ShaInit, Opened, InBlocks, Padding, DigestIsOfMessage
<1> QED
  BY <1>1, <1>2, <1>3 DEF ShaInv

LEMMA NothingIsInputs == Nothing = Inputs(0)
<1>1. 0..(0 - 1) = {}
  OBVIOUS
<1>2. [k \in {} |-> Zero] = [k \in {} |-> Input(k)]
  OBVIOUS
<1>3. Message(0) = [k \in {} |-> Zero]
  BY <1>1, <1>2 DEF Message
<1> QED
  BY <1>3 DEF Nothing, Inputs

LEMMA InitCall == ASSUME ShaInv, SHA256_Init PROVE ShaInv'
<1> USE DEF ShaInv
<1>1. ChosenGood'
  BY ChoiceIsSound DEF SHA256_Init
<1>2. count' = 0 /\ state' = Nothing /\ src' = 0 /\ given' = 0 /\ len' = len /\ sha_pc' = "open"
  BY DEF SHA256_Init
<1>3. Numbers'
  BY <1>2, ZeroMod DEF Numbers, Nothing
<1>4. Opened'
  <2>1. state'.n = 0
    BY <1>2 DEF Nothing
  <2>2. state' = Inputs(state'.n)
    BY <1>2, <2>1, NothingIsInputs
  <2>3. 0..(given' - state'.n - 1) = {}
    BY <1>2, <2>1
  <2> QED
    BY <1>2, <2>1, <2>2, <2>3, ShaLengths DEF Opened
<1>5. (InBlocks /\ Padding /\ DigestIsOfMessage)'
  BY <1>2 DEF InBlocks, Padding, DigestIsOfMessage
<1> QED
  BY <1>1, <1>3, <1>4, <1>5

\* The bytes of a buffer after memcpy of input.
LEMMA CopiedSrc ==
  ASSUME NEW r \in Nat, NEW n \in Nat, NEW k \in Offsets
  PROVE  CopyIn(buf, r, n, Src)[k]
           = IF k >= r /\ k < r + n THEN Input(src + (k - r)) ELSE buf[k]
BY Zenon DEF CopyIn, Src

\* An update that does not fill the block.
LEMMA ShortUpdate ==
  ASSUME ShaInv, sha_pc = "open", NEW n \in Nat, NEW r, r = Buffered, n < BlockLen - r,
         given' = given + n, count' = count + 8 * n, buf' = CopyIn(buf, r, n, Src),
         src' = src + n, UNCHANGED <<sha_hw, world, state, len, sha_pc, digest>>
  PROVE  ShaInv'
<1> USE DEF ShaInv
<1>1. r = given - state.n /\ r \in Nat /\ r + n < BlockLen
  BY BufferedIs, ShaLengths DEF Opened, Numbers
<1>2. ChosenGood'
  BY DEF ChosenGood, Good, world
<1>3. Numbers'
  BY DEF Numbers
<1>4. Opened'
  <2>1. /\ count' = 8 * given' /\ src' = given' /\ state' = Inputs(state'.n)
        /\ state'.n <= given' /\ given' < state'.n + BlockLen
    BY <1>1, ShaLengths DEF Opened, Numbers
  <2>2. ASSUME NEW k \in 0..(given' - state'.n - 1)
        PROVE  buf'[k] = Input(state'.n + k)
    <3> DEFINE d == state.n
    <3>1. /\ state'.n = d /\ k \in 0..((r + n) - 1) /\ k < r + n /\ k \in Offsets
          /\ src = d + r /\ d \in Nat
      BY <1>1, <2>1, ShaLengths DEF Opened, Numbers, Offsets
    <3>2. buf'[k] = IF k >= r /\ k < r + n THEN Input(src + (k - r)) ELSE buf[k]
      BY <1>1, <3>1, CopiedSrc
    <3>3. CASE k >= r
      <4>1. src + (k - r) = d + k
        BY <1>1, <3>1 DEF Numbers
      <4>2. buf'[k] = Input(src + (k - r))
        BY <3>1, <3>2, <3>3
      <4> HIDE DEF d
      <4>3. buf'[k] = Input(d + k)
        BY <4>1, <4>2
      <4> QED
        BY <3>1, <4>3
    <3>4. CASE k < r
      <4>1. k \in 0..(given - d - 1)
        BY <1>1, <3>1, <3>4 DEF Numbers
      <4>2. buf[k] = Input(d + k)
        BY <4>1 DEF Opened
      <4> QED
        BY <1>1, <3>1, <3>2, <3>4, <4>2
    <3> QED
      BY <1>1, <3>1, <3>3, <3>4
  <2> QED
    BY <2>1, <2>2 DEF Opened
<1>5. (InBlocks /\ Padding /\ DigestIsOfMessage)'
  BY DEF InBlocks, Padding, DigestIsOfMessage
<1> QED
  BY <1>2, <1>3, <1>4, <1>5

\* An update that completes the block.
LEMMA LongUpdate ==
  ASSUME ShaInv, sha_pc = "open", NEW n \in Nat, NEW r, r = Buffered, ~(n < BlockLen - r),
         given' = given + n, count' = count + 8 * n,
         state' = SHA256_Transform(state, CopyIn(buf, r, BlockLen - r, Src)),
         src' = src + (BlockLen - r), len' = n - (BlockLen - r), sha_pc' = "blocks",
         UNCHANGED <<sha_hw, world, digest>>
  PROVE  ShaInv'
<1> USE DEF ShaInv
<1> DEFINE d == state.n
           b == CopyIn(buf, r, BlockLen - r, Src)
<1>1. r = given - d /\ r \in Nat /\ r < BlockLen /\ d \in Nat /\ src = d + r
  BY BufferedIs, ShaLengths DEF Opened, Numbers
<1>2. ASSUME NEW k \in Offsets PROVE b[k] = Input(d + k)
  <2>1. b[k] = IF k >= r /\ k < r + (BlockLen - r) THEN Input(src + (k - r)) ELSE buf[k]
    BY <1>1, CopiedSrc, ShaLengths
  <2>2. CASE k >= r
    <3>1. src + (k - r) = d + k /\ k < r + (BlockLen - r)
      BY <1>1, <2>2, ShaLengths DEF Offsets
    <3> QED
      BY <2>1, <2>2, <3>1
  <2>3. CASE k < r
    <3>1. k \in 0..(given - d - 1) /\ ~(k >= r)
      BY <1>1, <2>3, ShaLengths DEF Numbers, Offsets
    <3>2. buf[k] = Input(d + k)
      BY <3>1 DEF Opened
    <3> QED
      BY <2>1, <3>1, <3>2
  <2> QED
    BY <1>1, <2>2, <2>3, ShaLengths DEF Offsets
<1>3. state' = Inputs(d + BlockLen)
  <2>1. state = Inputs(d)
    BY DEF Opened
  <2>2. state' = Appended(Inputs(d), b)
    BY <2>1, TransformIs
  <2> HIDE DEF b
  <2>3. Appended(Inputs(d), b) = Inputs(d + BlockLen)
    BY <1>1, <1>2, AppendInputs
  <2> QED
    BY <2>2, <2>3
<1>4. state'.n = d + BlockLen
  BY <1>3 DEF Inputs
<1>5. ChosenGood'
  BY DEF ChosenGood, Good, world
<1>6. Numbers'
  <2>1. state'.n \in Nat /\ state'.n % BlockLen = 0
    BY <1>1, <1>4, NextMultiple DEF Numbers
  <2> QED
    BY <1>1, <2>1, ShaLengths DEF Numbers
<1>7. InBlocks'
  <2>1. count' = 8 * given'
    BY DEF Opened, Numbers
  <2>2. src' = d + BlockLen /\ src' + len' = given'
    <3>1. src + (BlockLen - r) = d + BlockLen
      BY <1>1, ShaLengths
    <3>2. (d + BlockLen) + (n - (BlockLen - r)) = given + n
      BY <1>1, ShaLengths DEF Numbers
    <3> QED
      BY <3>1, <3>2
  <2>3. state' = Inputs(state'.n)
    BY <1>3, <1>4
  <2> QED
    BY <1>4, <2>1, <2>2, <2>3 DEF InBlocks
<1>8. (Opened /\ Padding /\ DigestIsOfMessage)'
  BY DEF Opened, Padding, DigestIsOfMessage
<1> QED
  BY <1>5, <1>6, <1>7, <1>8

LEMMA UpdateCall == ASSUME ShaInv, SHA256_Update PROVE ShaInv'
<1>1. PICK n \in 0..(MaxBytes - given) :
        LET r == Buffered IN
        /\ given' = given + n
        /\ IF n = 0
             THEN UNCHANGED <<ctx, src, len, sha_pc>>
           ELSE IF n < BlockLen - r
             THEN /\ count' = count + 8 * n
                  /\ buf' = CopyIn(buf, r, n, Src)
                  /\ src' = src + n
                  /\ UNCHANGED <<state, len, sha_pc>>
           ELSE /\ count' = count + 8 * n
                /\ buf' = CopyIn(buf, r, BlockLen - r, Src)
                /\ state' = SHA256_Transform(state, CopyIn(buf, r, BlockLen - r, Src))
                /\ src' = src + (BlockLen - r)
                /\ len' = n - (BlockLen - r)
                /\ sha_pc' = "blocks"
  BY Zenon DEF SHA256_Update
<1>2. sha_pc = "open" /\ UNCHANGED <<sha_hw, world, digest>> /\ n \in Nat
  BY ShaBound DEF SHA256_Update, ShaInv, Numbers
<1>3. CASE n = 0
  <2>1. UNCHANGED <<sha_hw, world, sha_pc, ctx, src, len, given, digest>>
    BY <1>1, <1>2, <1>3 DEF ShaInv, Numbers
  <2> QED
    BY <2>1 DEF ShaInv, ChosenGood, Good, Numbers, Opened, InBlocks, Padding,
       DigestIsOfMessage,
                world, ctx
<1>4. CASE n # 0 /\ n < BlockLen - Buffered
  BY <1>1, <1>2, <1>4, ShortUpdate
<1>5. CASE n # 0 /\ ~(n < BlockLen - Buffered)
  BY <1>1, <1>2, <1>5, LongUpdate
<1> QED
  BY <1>3, <1>4, <1>5

LEMMA BlocksTurn == ASSUME ShaInv, UpdateBlocks PROVE ShaInv'
<1> USE DEF ShaInv
<1> DEFINE d == state.n
           b == [k \in Offsets |-> Src(k)]
<1>1. /\ sha_pc = "blocks" /\ sha_pc' = "blocks" /\ len >= BlockLen
      /\ state' = SHA256_Transform(state, b)
      /\ src' = src + BlockLen /\ len' = len - BlockLen
      /\ UNCHANGED <<sha_hw, world, count, buf, given, digest>>
  BY DEF UpdateBlocks
<1>2. d \in Nat /\ src = d /\ src + len = given /\ state = Inputs(d) /\ count = 8 * given
  BY <1>1 DEF InBlocks, Numbers
<1>3. \A k \in Offsets : b[k] = Input(d + k)
  BY <1>2 DEF Src
<1>4. state' = Inputs(d + BlockLen)
  <2>1. state' = Appended(Inputs(d), b)
    BY <1>1, <1>2, TransformIs
  <2> HIDE DEF b
  <2>2. Appended(Inputs(d), b) = Inputs(d + BlockLen)
    BY <1>2, <1>3, AppendInputs
  <2> QED
    BY <2>1, <2>2
<1>5. state'.n = d + BlockLen
  BY <1>4 DEF Inputs
<1>6. Numbers'
  <2>1. state'.n \in Nat /\ state'.n % BlockLen = 0
    BY <1>2, <1>5, NextMultiple DEF Numbers
  <2> QED
    BY <1>1, <2>1, ShaLengths DEF Numbers
<1>7. InBlocks'
  <2>1. src + BlockLen = d + BlockLen /\ (src + BlockLen) + (len - BlockLen) = given
    BY <1>2, ShaLengths DEF Numbers
  <2>2. src' = state'.n /\ src' + len' = given'
    BY <1>1, <1>5, <2>1
  <2> QED
    BY <1>1, <1>2, <1>4, <1>5, <2>2 DEF InBlocks
<1>8. (ChosenGood /\ Opened /\ Padding /\ DigestIsOfMessage)'
  BY <1>1 DEF ChosenGood, Good, world, Opened, Padding, DigestIsOfMessage
<1> QED
  BY <1>6, <1>7, <1>8

LEMMA RestTurn == ASSUME ShaInv, UpdateRest PROVE ShaInv'
<1> USE DEF ShaInv
<1>1. /\ sha_pc = "blocks" /\ sha_pc' = "open" /\ len < BlockLen
      /\ buf' = CopyIn(buf, 0, len, Src)
      /\ src' = src + len /\ len' = 0
      /\ UNCHANGED <<sha_hw, world, count, state, given, digest>>
  BY DEF UpdateRest
<1>2. /\ src = state.n /\ src + len = given /\ state = Inputs(state.n)
      /\ count = 8 * given
  BY <1>1 DEF InBlocks
<1>3. Numbers'
  BY <1>1 DEF Numbers
<1>4. Opened'
  <2>1. /\ count' = 8 * given' /\ src' = given' /\ state' = Inputs(state'.n)
        /\ state'.n <= given' /\ given' < state'.n + BlockLen
    BY <1>1, <1>2, ShaLengths DEF Numbers
  <2>2. ASSUME NEW k \in 0..(given' - state'.n - 1)
        PROVE  buf'[k] = Input(state'.n + k)
    <3> DEFINE d == state.n
    <3>1. /\ state'.n = d /\ k \in 0..(len - 1) /\ k >= 0 /\ k < 0 + len /\ k \in Offsets
          /\ src = d /\ d \in Nat
      BY <1>1, <1>2, ShaLengths DEF Numbers, Offsets
    <3>2. buf'[k] = IF k >= 0 /\ k < 0 + len THEN Input(src + (k - 0)) ELSE buf[k]
      BY <1>1, <3>1, CopiedSrc DEF Numbers
    <3>3. k - 0 = k
      BY <3>1
    <3> QED
      BY <3>1, <3>2, <3>3
  <2> QED
    BY <2>1, <2>2 DEF Opened
<1>5. (ChosenGood /\ InBlocks /\ Padding /\ DigestIsOfMessage)'
  BY <1>1 DEF ChosenGood, Good, world, InBlocks, Padding, DigestIsOfMessage
<1> QED
  BY <1>3, <1>4, <1>5
-----------------------------------------------------------------------------
(* The padding.                                                             *)

LEMMA PaddedAt ==
  ASSUME NEW n, NEW t, NEW k \in 0..(t - 1)
  PROVE  Padded(n, t).at[k]
           = IF k < n THEN Input(k) ELSE IF k = n THEN Pad1
             ELSE IF k < t - LenBytes THEN Zero ELSE LenByte(k - (t - LenBytes), 8 * n)
BY Zenon DEF Padded

LEMMA CopiedPad ==
  ASSUME NEW b, NEW r \in Nat, NEW n \in Nat, NEW k \in Offsets
  PROVE  CopyIn(b, r, n, PadByte)[k]
           = IF k >= r /\ k < r + n THEN (IF k - r = 0 THEN Pad1 ELSE Zero) ELSE b[k]
BY Zenon DEF CopyIn, PadByte

\* The count fits behind the message.
LEMMA PadShort ==
  ASSUME NEW d \in Nat, d % BlockLen = 0, NEW r \in Nat, r < FinalStart,
         NEW s, s = Inputs(d), NEW b, \A k \in 0..(r - 1) : b[k] = Input(d + k)
  PROVE  PadParts(d + r, s, CopyIn(b, r, FinalStart - r, PadByte))
<1> DEFINE t == d + BlockLen
           n == d + r
           blk == CopyIn(b, r, FinalStart - r, PadByte)
<1>0. /\ t \in Nat /\ t % BlockLen = 0 /\ FinalStart = BlockLen - LenBytes /\ s.n = d
      /\ t - LenBytes = d + FinalStart /\ FinalStart \in Nat /\ FinalStart < BlockLen
  BY NextMultiple, ShaLengths DEF FinalStart, Inputs
<1>1. IsPaddedLen(n, t)
  BY <1>0, ShaLengths DEF IsPaddedLen
<1>2. ASSUME NEW k \in 0..(d - 1) PROVE s.at[k] = Padded(n, t).at[k]
  <2>1. k \in 0..(t - 1) /\ k < n
    BY ShaLengths
  <2>2. s.at[k] = Input(k)
    BY DEF Inputs, Message
  <2> QED
    BY <2>1, <2>2, PaddedAt
<1>3. ASSUME NEW k \in 0..(FinalStart - 1) PROVE blk[k] = Padded(n, t).at[d + k]
  <2>1. /\ k \in Offsets /\ d + k \in 0..(t - 1) /\ d + k < t - LenBytes
        /\ k < r + (FinalStart - r) /\ FinalStart - r \in Nat
    BY <1>0, ShaLengths DEF Offsets
  <2>2. blk[k] = IF k >= r THEN (IF k - r = 0 THEN Pad1 ELSE Zero) ELSE b[k]
    <3> DEFINE m == FinalStart - r
    <3>1. m \in Nat /\ k < r + m /\ blk = CopyIn(b, r, m, PadByte)
      BY <2>1
    <3> HIDE DEF m, blk
    <3>2. CopyIn(b, r, m, PadByte)[k]
            = IF k >= r /\ k < r + m THEN (IF k - r = 0 THEN Pad1 ELSE Zero) ELSE b[k]
      BY <2>1, <3>1, CopiedPad
    <3> QED
      BY <3>1, <3>2
  <2>3. Padded(n, t).at[d + k]
          = IF d + k < n THEN Input(d + k) ELSE IF d + k = n THEN Pad1 ELSE Zero
    BY <2>1, PaddedAt
  <2> HIDE DEF n, t, blk
  <2>4. CASE k < r
    <3>1. d + k < n /\ k \in 0..(r - 1) /\ ~(k >= r)
      BY <2>4, <1>0 DEF n
    <3> QED
      BY <3>1, <2>2, <2>3
  <2>5. CASE k = r
    <3>1. d + k = n /\ ~(d + k < n) /\ k >= r /\ k - r = 0
      BY <2>5, <1>0 DEF n
    <3> QED
      BY <3>1, <2>2, <2>3
  <2>6. CASE k > r
    <3>1. d + k # n /\ ~(d + k < n) /\ k >= r /\ k - r # 0
      BY <2>6, <1>0 DEF n
    <3> QED
      BY <3>1, <2>2, <2>3
  <2> QED
    BY <1>0, <2>4, <2>5, <2>6
<1> HIDE DEF blk, n, t
<1>4. s.n + BlockLen = t
  BY <1>0 DEF t
<1>5. PadParts(n, s, blk)
  BY <1>0, <1>1, <1>2, <1>3, <1>4 DEF PadParts
<1> QED
  BY <1>5 DEF n, blk

\* It does not: the message and the first of the padding fill the block.
LEMMA PadLong ==
  ASSUME NEW d \in Nat, d % BlockLen = 0, NEW r \in Nat, r < BlockLen, ~(r < FinalStart),
         NEW s, s = Inputs(d), NEW b, \A k \in 0..(r - 1) : b[k] = Input(d + k)
  PROVE  LET blk == CopyIn(b, r, BlockLen - r, PadByte)
         IN  PadParts(d + r, Appended(s, blk), CopyIn(blk, 0, FinalStart, ZeroByte))
<1> DEFINE e == d + BlockLen
           t == e + BlockLen
           n == d + r
           blk == CopyIn(b, r, BlockLen - r, PadByte)
           z == CopyIn(blk, 0, FinalStart, ZeroByte)
           s2 == Appended(s, blk)
<1>a. e \in Nat /\ e % BlockLen = 0
  BY NextMultiple, ShaLengths
<1>b. t \in Nat /\ t % BlockLen = 0
  <2> HIDE DEF e
  <2> QED
    BY <1>a, NextMultiple, ShaLengths
<1>0. /\ e \in Nat /\ e % BlockLen = 0 /\ t \in Nat /\ t % BlockLen = 0
      /\ FinalStart = BlockLen - LenBytes /\ s.n = d
      /\ t - LenBytes = e + FinalStart /\ FinalStart \in Nat /\ FinalStart < BlockLen
  BY <1>a, <1>b, ShaLengths DEF FinalStart, Inputs
<1>1. IsPaddedLen(n, t)
  BY <1>0, ShaLengths DEF IsPaddedLen
<1>2. s2.n = e
  BY <1>0 DEF Appended
<1>3. ASSUME NEW k \in 0..(e - 1) PROVE s2.at[k] = Padded(n, t).at[k]
  <2>1. k \in 0..(t - 1) /\ k < t - LenBytes
    BY <1>0, ShaLengths
  <2>2. s2.at[k] = IF k < d THEN s.at[k] ELSE blk[k - d]
    BY <1>0, Zenon DEF Appended
  <2>3. Padded(n, t).at[k]
          = IF k < n THEN Input(k) ELSE IF k = n THEN Pad1 ELSE Zero
    BY <2>1, PaddedAt
  <2>4. CASE k < d
    <3>1. s.at[k] = Input(k)
      BY <2>4 DEF Inputs, Message
    <3>2. k < n
      BY <2>4
    <3> QED
      BY <2>2, <2>3, <2>4, <3>1, <3>2
  <2>5. CASE ~(k < d)
    <3>1. /\ k - d \in Offsets /\ k - d < r + (BlockLen - r) /\ d + (k - d) = k
          /\ BlockLen - r \in Nat
      BY <2>5, <1>0, ShaLengths DEF Offsets
    <3>2. blk[k - d] = IF k - d >= r THEN (IF (k - d) - r = 0 THEN Pad1 ELSE Zero) ELSE b[k - d]
      BY <1>0, <3>1, CopiedPad, ShaLengths
    <3>3. k - d < r => b[k - d] = Input(k)
      <4> SUFFICES ASSUME k - d < r PROVE b[k - d] = Input(k)
        OBVIOUS
      <4>1. k - d \in 0..(r - 1)
        BY <2>5
      <4>2. b[k - d] = Input(d + (k - d))
        BY <4>1
      <4> QED
        BY <4>2, <3>1
    <3> HIDE DEF blk, s2, t
    <3>4. /\ k - d < r <=> k < n
          /\ (k - d) - r = 0 <=> k = n
          /\ k - d >= r <=> ~(k - d < r)
      BY <2>5
    <3> QED
      BY <2>2, <2>3, <2>5, <3>2, <3>3, <3>4
  <2> QED
    BY <2>4, <2>5
<1>4. ASSUME NEW k \in 0..(FinalStart - 1) PROVE z[k] = Padded(n, t).at[e + k]
  <2>1. /\ k \in Offsets /\ e + k \in 0..(t - 1) /\ e + k < t - LenBytes
        /\ ~(e + k < n) /\ e + k # n /\ k >= 0 /\ k < 0 + FinalStart
    BY <1>0, ShaLengths DEF Offsets
  <2>2. z[k] = Zero
    BY <2>1, Zenon DEF CopyIn, ZeroByte
  <2> QED
    BY <2>1, <2>2, PaddedAt
<1> HIDE DEF blk, n, t, s2, z, e
<1>5. s2.n + BlockLen = t
  BY <1>2 DEF t
<1>6. PadParts(n, s2, z)
  BY <1>0, <1>1, <1>2, <1>3, <1>4, <1>5 DEF PadParts
<1> QED
  BY <1>6 DEF n, blk, s2, z

LEMMA PadCall == ASSUME ShaInv, SHA256_Pad PROVE ShaInv'
<1> USE DEF ShaInv
<1> DEFINE d == state.n
           r == given - d
           blk == CopyIn(buf, r, BlockLen - r, PadByte)
<1>1. /\ sha_pc = "open" /\ sha_pc' = "pad"
      /\ UNCHANGED <<sha_hw, world, count, src, len, given, digest>>
  BY DEF SHA256_Pad
<1>2. Buffered = r /\ r \in Nat /\ r < BlockLen /\ d \in Nat /\ d % BlockLen = 0
      /\ state = Inputs(d) /\ d + r = given /\ count = 8 * given
  BY <1>1, BufferedIs, ShaLengths DEF Opened, Numbers
<1>3. \A k \in 0..(r - 1) : buf[k] = Input(d + k)
  BY <1>1 DEF Opened
<1>4. IF r < FinalStart
        THEN buf' = CopyIn(buf, r, FinalStart - r, PadByte) /\ state' = state
        ELSE state' = Appended(state, blk) /\ buf' = CopyIn(blk, 0, FinalStart, ZeroByte)
  <2>1. IF r < FinalStart
          THEN buf' = CopyIn(buf, r, FinalStart - r, PadByte) /\ state' = state
          ELSE state' = SHA256_Transform(state, blk) /\ buf' = CopyIn(blk, 0, FinalStart, ZeroByte)
    BY <1>2 DEF SHA256_Pad, FitsLength
  <2> HIDE DEF blk
  <2>2. SHA256_Transform(state, blk) = Appended(state, blk)
    BY TransformIs
  <2> QED
    BY <2>1, <2>2
<1>5. PadParts(given, state', buf') /\ state'.n \in Nat /\ state'.n % BlockLen = 0
  <2>1. CASE r < FinalStart
    <3>1. PadParts(d + r, state, CopyIn(buf, r, FinalStart - r, PadByte))
      <4> HIDE DEF d, r
      <4> QED
        BY <1>2, <1>3, <2>1, PadShort
    <3> QED
      BY <1>2, <1>4, <2>1, <3>1
  <2>2. CASE ~(r < FinalStart)
    <3>1. PadParts(d + r, Appended(state, blk), CopyIn(blk, 0, FinalStart, ZeroByte))
      <4> HIDE DEF d, r
      <4> QED
        BY <1>2, <1>3, <2>2, PadLong
    <3>2. Appended(state, blk).n = d + BlockLen
      BY DEF Appended
    <3>3. d + BlockLen \in Nat /\ (d + BlockLen) % BlockLen = 0
      <4> HIDE DEF d
      <4> QED
        BY <1>2, NextMultiple
    <3> HIDE DEF blk
    <3> QED
      BY <1>2, <1>4, <2>2, <3>1, <3>2, <3>3
  <2> QED
    BY <2>1, <2>2
<1>6. Numbers'
  BY <1>1, <1>5 DEF Numbers
<1>7. Padding'
  BY <1>1, <1>2, <1>5 DEF Padding
<1>8. (ChosenGood /\ Opened /\ InBlocks /\ DigestIsOfMessage)'
  BY <1>1 DEF ChosenGood, Good, world, Opened, InBlocks, DigestIsOfMessage
<1> QED
  BY <1>6, <1>7, <1>8

\* The block with the count completes the padded message.
LEMMA LastBlock ==
  ASSUME NEW n \in Nat, NEW s, s.n \in Nat, NEW b, NEW blk, PadParts(n, s, b),
         \A k \in Offsets : blk[k] = IF k < FinalStart THEN b[k]
                                   ELSE LenByte(k - FinalStart, 8 * n)
  PROVE  LET h == Appended(s, blk) IN IsPaddedLen(n, h.n) /\ h = Padded(n, h.n)
<1> DEFINE d == s.n
           t == d + BlockLen
           A == [k \in 0..(t - 1) |-> IF k < d THEN s.at[k] ELSE blk[k - d]]
           P == [k \in 0..(t - 1) |->
                   IF k < n THEN Input(k) ELSE IF k = n THEN Pad1
                   ELSE IF k < t - LenBytes THEN Zero ELSE LenByte(k - (t - LenBytes), 8 * n)]
<1>1. /\ IsPaddedLen(n, t)
      /\ \A k \in 0..(d - 1) : s.at[k] = Padded(n, t).at[k]
      /\ \A k \in 0..(FinalStart - 1) : b[k] = Padded(n, t).at[d + k]
  BY DEF PadParts
<1>2. /\ t \in Nat /\ FinalStart \in Nat /\ FinalStart = BlockLen - LenBytes
      /\ n < t - LenBytes
  BY <1>1, ShaLengths DEF FinalStart, IsPaddedLen
<1>3. ASSUME NEW k \in 0..(t - 1) PROVE A[k] = P[k]
  <2>1. A[k] = IF k < d THEN s.at[k] ELSE blk[k - d]
    OBVIOUS
  <2>2. Padded(n, t).at[k] = P[k]
    BY PaddedAt
  <2>3. CASE k < d
    BY <1>1, <2>1, <2>2, <2>3
  <2>4. CASE ~(k < d)
    <3>1. k - d \in Offsets /\ d + (k - d) = k
      BY <2>4, ShaLengths DEF Offsets
    <3>2. CASE k - d < FinalStart
      <4>1. k - d \in 0..(FinalStart - 1)
        BY <2>4, <3>2, <1>2
      <4>2. b[k - d] = Padded(n, t).at[d + (k - d)]
        BY <1>1, <4>1
      <4> QED
        BY <2>1, <2>2, <2>4, <3>1, <3>2, <4>2
    <3>3. CASE ~(k - d < FinalStart)
      <4>1. blk[k - d] = LenByte((k - d) - FinalStart, 8 * n)
        BY <3>1, <3>3
      <4>2. /\ ~(k < n) /\ k # n /\ ~(k < t - LenBytes)
            /\ (k - d) - FinalStart = k - (t - LenBytes)
        BY <1>2, <2>4, <3>3, ShaLengths
      <4>3. P[k] = LenByte(k - (t - LenBytes), 8 * n)
        BY <4>2
      <4> QED
        BY <2>1, <2>4, <4>1, <4>2, <4>3
    <3> QED
      BY <3>2, <3>3
  <2> QED
    BY <2>3, <2>4
<1>4. A = P
  <2>1. A = [k \in 0..(t - 1) |-> A[k]] /\ P = [k \in 0..(t - 1) |-> P[k]]
    OBVIOUS
  <2> HIDE DEF A, P, t, d
  <2> QED
    BY <1>3, <2>1, Zenon
<1>5. Appended(s, blk) = [n |-> t, at |-> A] /\ Padded(n, t) = [n |-> t, at |-> P]
  BY Zenon DEF Appended, Padded
<1> HIDE DEF A, P, t
<1> QED
  BY <1>1, <1>4, <1>5

LEMMA FinalCall == ASSUME ShaInv, SHA256_Final PROVE ShaInv'
<1> USE DEF ShaInv
<1> DEFINE blk == CopyIn(buf, FinalStart, LenBytes, CountByte)
<1>1. /\ sha_pc = "pad" /\ sha_pc' = "hashed" /\ count' = 0 /\ state' = Nothing
      /\ digest' = SHA256_Transform(state, blk)
      /\ UNCHANGED <<sha_hw, world, src, len, given>>
  BY DEF SHA256_Final
<1>2. count = 8 * given /\ PadParts(given, state, buf)
  BY <1>1 DEF Padding
<1>3. ASSUME NEW k \in Offsets
      PROVE  blk[k] = IF k < FinalStart THEN buf[k] ELSE LenByte(k - FinalStart, 8 * given)
  <2>1. blk[k] = IF k >= FinalStart /\ k < FinalStart + LenBytes
                 THEN LenByte(k - FinalStart, count) ELSE buf[k]
    BY Zenon DEF CopyIn, CountByte
  <2>2. k < FinalStart + LenBytes /\ (k >= FinalStart <=> ~(k < FinalStart))
    BY ShaLengths DEF Offsets, FinalStart
  <2> HIDE DEF blk
  <2> QED
    BY <1>2, <2>1, <2>2
<1> HIDE DEF blk
<1>4. digest' = Appended(state, blk)
  BY <1>1, TransformIs
<1>5. DigestIsOfMessage'
  <2>1. LET h == Appended(state, blk) IN IsPaddedLen(given, h.n) /\ h = Padded(given, h.n)
    BY <1>2, <1>3, LastBlock DEF Numbers
  <2>2. IsPaddedLen(given, digest'.n) /\ digest' = Padded(given, digest'.n)
    BY <1>4, <2>1
  <2> QED
    BY <1>1, <2>2 DEF DigestIsOfMessage, IsPaddedLen, Padded
<1>6. Numbers'
  BY <1>1, ZeroMod DEF Numbers, Nothing
<1>7. (ChosenGood /\ Opened /\ InBlocks /\ Padding)'
  BY <1>1 DEF ChosenGood, Good, world, Opened, InBlocks, Padding
<1> QED
  BY <1>5, <1>6, <1>7

LEMMA DoneCall == ASSUME ShaInv, ShaDone PROVE ShaInv'
<1> USE DEF ShaInv
<1>1. /\ sha_pc' = "none" /\ given' = 0 /\ src' = 0
      /\ UNCHANGED <<sha_hw, world, count, state, buf, len>>
  BY DEF ShaDone, ctx
<1>2. Numbers'
  BY <1>1 DEF Numbers
<1> QED
  BY <1>1, <1>2 DEF ChosenGood, Good, world, Opened, InBlocks, Padding, DigestIsOfMessage

LEMMA ShaStutters == ASSUME ShaInv, UNCHANGED shavars PROVE ShaInv'
BY DEF ShaInv, shavars, world, ctx, ChosenGood, Good, Numbers, Opened, InBlocks, Padding,
       DigestIsOfMessage

LEMMA ShaStep == ShaInv /\ [ShaNext]_shavars => ShaInv'
<1> SUFFICES ASSUME ShaInv, [ShaNext]_shavars PROVE ShaInv'
  OBVIOUS
<1>1. CASE SHA256_Init
  BY <1>1, InitCall
<1>2. CASE SHA256_Update
  BY <1>2, UpdateCall
<1>3. CASE UpdateBlocks
  BY <1>3, BlocksTurn
<1>4. CASE UpdateRest
  BY <1>4, RestTurn
<1>5. CASE SHA256_Pad
  BY <1>5, PadCall
<1>6. CASE SHA256_Final
  BY <1>6, FinalCall
<1>7. CASE ShaDone
  BY <1>7, DoneCall
<1>8. CASE UNCHANGED shavars
  BY <1>8, ShaStutters
<1> QED
  BY <1>1, <1>2, <1>3, <1>4, <1>5, <1>6, <1>7, <1>8 DEF ShaNext

-----------------------------------------------------------------------------
\* The digest is the hash of the message, padded as FIPS 180-4 says, for every
\* block length, every sequence of SHA256_Update and every set of transforms.
THEOREM ShaDigestCorrect == ShaSpec => []DigestIsOfMessage
<1>1. ShaInv => DigestIsOfMessage
  BY DEF ShaInv
<1> QED
  BY <1>1, ShaInitInvariant, ShaStep, PTL DEF ShaSpec

\* What is chosen computes SHA-256, whatever is built in and broken.
THEOREM ChoiceCorrect == ShaSpec => []ChosenGood
<1>1. ShaInv => ChosenGood
  BY DEF ShaInv
<1> QED
  BY <1>1, ShaInitInvariant, ShaStep, PTL DEF ShaSpec

-----------------------------------------------------------------------------
(***************************************************************************)
(* HMAC and PBKDF2 (Hmac).                                                 *)
(***************************************************************************)
KeyOf(n) == Bytes("key", n)
SaltOf(n) == Bytes("salt", n)

\* The inner and outer hash have taken the padded key.
LEMMA InitPads ==
  ASSUME NEW K
  PROVE  /\ HmacInit(K) = [i |-> XorPad("0x36", ShortKey(K)), o |-> XorPad("0x5c", ShortKey(K))]
         /\ \A m : HMAC(K, m) = Digest(HmacInit(K).o \o Digest(HmacInit(K).i \o m))
<1>1. \A pad : XorPad(pad, ShortKey(K)) = [k \in 1..HBlock |-> <<pad, Key0(K)[k]>>]
  BY DEF XorPad, ShortKey, Key0
<1>2. HmacInit(K) = [i |-> XorPad("0x36", ShortKey(K)), o |-> XorPad("0x5c", ShortKey(K))]
  BY DEF HmacInit
<1>3. HmacInit(K).i = XorPad("0x36", ShortKey(K)) /\ HmacInit(K).o = XorPad("0x5c", ShortKey(K))
  BY <1>2
<1>4. \A m : HMAC(K, m) = Digest(XorPad("0x5c", ShortKey(K)) \o Digest(XorPad("0x36", ShortKey(K)) \o m))
  BY <1>1, Zenon DEF HMAC
<1> QED
  BY <1>2, <1>3, <1>4, Zenon

\* A function on 1..n is a sequence.
LEMMA FunctionIsSeq ==
  ASSUME NEW n \in Nat, NEW S, NEW f \in [1..n -> S]
  PROVE  f \in Seq(S) /\ Len(f) = n
OBVIOUS

\* A piece of the message goes behind what was fed before.
LEMMA DataJoins ==
  ASSUME NEW n \in Nat, NEW m \in Nat
  PROVE  Bytes("data", n) \o [k \in 1..m |-> <<"data", n + k>>] = Bytes("data", n + m)
<1> DEFINE S == {<<"data", k>> : k \in Nat}
           a == Bytes("data", n)
           b == [k \in 1..m |-> <<"data", n + k>>]
           ab == Bytes("data", n + m)
<1>1. a \in Seq(S) /\ Len(a) = n /\ \A k \in 1..n : a[k] = <<"data", k>>
  <2>1. a \in [1..n -> S]
    BY DEF Bytes
  <2> QED
    BY <2>1, FunctionIsSeq DEF Bytes
<1>2. b \in Seq(S) /\ Len(b) = m /\ \A k \in 1..m : b[k] = <<"data", n + k>>
  <2>1. b \in [1..m -> S]
    OBVIOUS
  <2> QED
    BY <2>1, FunctionIsSeq
<1>3. ab \in Seq(S) /\ Len(ab) = n + m /\ \A k \in 1..(n + m) : ab[k] = <<"data", k>>
  <2>1. ab \in [1..(n + m) -> S] /\ n + m \in Nat
    BY DEF Bytes
  <2> QED
    BY <2>1, FunctionIsSeq DEF Bytes
<1> HIDE DEF S, a, b, ab
<1>4. /\ a \o b \in Seq(S) /\ Len(a \o b) = Len(a) + Len(b)
      /\ \A k \in 1..(Len(a) + Len(b)) : (a \o b)[k] = IF k <= Len(a) THEN a[k] ELSE b[k - Len(a)]
  BY <1>1, <1>2, ConcatProperties
<1>5. ASSUME NEW k \in 1..(n + m) PROVE (a \o b)[k] = ab[k]
  <2>1. (a \o b)[k] = IF k <= n THEN a[k] ELSE b[k - n]
    BY <1>1, <1>2, <1>4
  <2>2. CASE k <= n
    <3>1. k \in 1..n
      BY <2>2
    <3> QED
      BY <1>1, <1>3, <2>1, <2>2, <3>1
  <2>3. CASE ~(k <= n)
    <3>1. k - n \in 1..m /\ n + (k - n) = k
      BY <2>3
    <3> QED
      BY <1>2, <1>3, <2>1, <2>3, <3>1
  <2> QED
    BY <2>2, <2>3
<1>6. Len(a \o b) = Len(ab)
  BY <1>1, <1>2, <1>3, <1>4
<1>7. a \o b = ab
  BY <1>1, <1>2, <1>3, <1>4, <1>5, <1>6, SeqEqual
<1> QED
  BY <1>7 DEF a, b, ab

LEMMA ConcatInMiddle ==
  ASSUME NEW S, NEW x \in Seq(S), NEW y \in Seq(S), NEW z \in Seq(S)
  PROVE  (x \o y) \o z = x \o (y \o z)
BY ConcatAssociative

\* Cells that a context may hold.
Feeds(x, n, m) ==
  (x \o Bytes("data", n)) \o [k \in 1..m |-> <<"data", n + k>>] = x \o Bytes("data", n + m)
LEMMA FeedsData ==
  ASSUME NEW pad, NEW K, NEW n \in Nat, NEW m \in Nat
  PROVE  Feeds(XorPad(pad, K), n, m)
<1> DEFINE x == XorPad(pad, K)
           y == Bytes("data", n)
           z == [k \in 1..m |-> <<"data", n + k>>]
           S == {x[k] : k \in 1..HBlock} \cup {<<"data", k>> : k \in Nat}
<1>1. x \in [1..HBlock -> S] /\ y \in [1..n -> S] /\ z \in [1..m -> S]
  BY DEF XorPad, Bytes
<1>2. x \in Seq(S) /\ y \in Seq(S) /\ z \in Seq(S)
  BY <1>1, FunctionIsSeq, HmacLengths
<1>3. y \o z = Bytes("data", n + m)
  BY DataJoins
<1> HIDE DEF x, y, z, S
<1>4. (x \o y) \o z = x \o (y \o z)
  BY <1>2, ConcatInMiddle
<1>5. (x \o y) \o z = x \o Bytes("data", n + m)
  BY <1>3, <1>4, Zenon
<1> QED
  BY <1>5 DEF x, y, z, Feeds

\* While a message is fed, the inner hash has the padded key and what was fed.
MacSoFar == hmac_pc = "mac" =>
  /\ klen \in Nat /\ fed \in Nat
  /\ ictx = HmacInit(KeyOf(klen)).i \o Bytes("data", fed)
  /\ octx = HmacInit(KeyOf(klen)).o
MacInv == MacSoFar /\ MacIsHmac

LEMMA MacInitInvariant == HInit => MacInv
BY DEF HInit, MacInv, MacSoFar, MacIsHmac

LEMMA NoDataConcat ==
  ASSUME NEW pad, NEW K PROVE XorPad(pad, K) \o Bytes("data", 0) = XorPad(pad, K)
<1> DEFINE x == XorPad(pad, K)
           S == {x[k] : k \in 1..HBlock}
<1>1. x \in [1..HBlock -> S]
  BY DEF XorPad
<1>2. x \in Seq(S)
  BY <1>1, FunctionIsSeq, HmacLengths
<1>3. Bytes("data", 0) = <<>>
  BY DEF Bytes
<1> HIDE DEF x, S
<1>4. x \o <<>> = x
  BY <1>2, ConcatEmptySeq
<1> QED
  BY <1>3, <1>4 DEF x

LEMMA MacStep == MacInv /\ [HNext]_hmacvars => MacInv'
<1> SUFFICES ASSUME MacInv, [HNext]_hmacvars PROVE MacInv'
  OBVIOUS
<1>1. CASE HMAC_SHA256_Init
  <2>1. PICK n \in KeyLens : klen' = n /\ Context(HmacInit(KeyOf(n)))
    BY <1>1 DEF HMAC_SHA256_Init, KeyOf
  <2>2. HmacInit(KeyOf(n)).i \o Bytes("data", 0) = HmacInit(KeyOf(n)).i
    BY InitPads, NoDataConcat
  <2>3. ictx' = HmacInit(KeyOf(n)).i /\ octx' = HmacInit(KeyOf(n)).o
    BY <2>1, Zenon DEF Context
  <2>4. hmac_pc' = "mac" /\ fed' = 0 /\ n \in Nat
    BY <1>1, HmacInputs DEF HMAC_SHA256_Init
  <2> QED
    BY <2>1, <2>2, <2>3, <2>4 DEF MacInv, MacSoFar, MacIsHmac
<1>2. CASE HMAC_SHA256_Update
  <2>1. PICK n \in DataLens :
          /\ Context(HmacUpdate(hctxNow, [k \in 1..n |-> <<"data", fed + k>>]))
          /\ fed' = fed + n
    BY <1>2 DEF HMAC_SHA256_Update
  <2>2. hmac_pc = "mac" /\ hmac_pc' = "mac" /\ klen' = klen /\ n \in Nat
    BY <1>2, HmacInputs DEF HMAC_SHA256_Update, args
  <2>3. ictx' = ictx \o [k \in 1..n |-> <<"data", fed + k>>] /\ octx' = octx
    BY <2>1, Zenon DEF Context, HmacUpdate, hctxNow
  <2>4. ictx' = HmacInit(KeyOf(klen)).i \o Bytes("data", fed + n)
    <3>1. ictx = HmacInit(KeyOf(klen)).i \o Bytes("data", fed) /\ fed \in Nat
      BY <2>2 DEF MacInv, MacSoFar
    <3>2. HmacInit(KeyOf(klen)).i = XorPad("0x36", ShortKey(KeyOf(klen)))
      BY InitPads
    <3>3. Feeds(XorPad("0x36", ShortKey(KeyOf(klen))), fed, n)
      BY <2>2, <3>1, FeedsData
    <3> QED
      BY <2>3, <3>1, <3>2, <3>3, Zenon DEF Feeds
  <2>5. fed + n \in Nat
    BY <2>2 DEF MacInv, MacSoFar
  <2> QED
    BY <2>1, <2>2, <2>3, <2>4, <2>5 DEF MacInv, MacSoFar, MacIsHmac
<1>3. CASE HMAC_SHA256_Final
  <2>1. /\ hmac_pc = "mac" /\ hmac_pc' = "mac_done" /\ klen' = klen /\ fed' = fed
        /\ mac' = HmacFinal(hctxNow)
    BY <1>3 DEF HMAC_SHA256_Final, args
  <2>2. mac' = Digest(octx \o Digest(ictx))
    BY <2>1, Zenon DEF HmacFinal, hctxNow
  <2>3. mac' = HMAC(KeyOf(klen), Bytes("data", fed))
    BY <2>1, <2>2, InitPads DEF MacInv, MacSoFar
  <2> QED
    BY <2>1, <2>3 DEF MacInv, MacSoFar, MacIsHmac, KeyOf
<1>4. CASE PBKDF2_SHA256 \/ FirstU \/ NextU \/ CopyT \/ PBKDF2_Return \/ HDone
  <2>1. hmac_pc' \notin {"mac", "mac_done"}
    BY <1>4 DEF PBKDF2_SHA256, FirstU, NextU, CopyT, PBKDF2_Return, HDone
  <2> QED
    BY <2>1 DEF MacInv, MacSoFar, MacIsHmac
<1>5. CASE UNCHANGED hmacvars
  BY <1>5 DEF hmacvars, args, hctx, MacInv, MacSoFar, MacIsHmac
<1> QED
  BY <1>1, <1>2, <1>3, <1>4, <1>5 DEF HNext

\* An authenticator is RFC 2104's, for every length of key, block and digest and
\* every way to cut the message.
THEOREM HmacMacCorrect == HSpec => []MacIsHmac
<1>1. MacInv => MacIsHmac
  BY DEF MacInv
<1> QED
  BY <1>1, MacInitInvariant, MacStep, PTL DEF HSpec

\* U_1 to U_n of block b: the reference's own function, by its name.
UsOf(P, S, n, b) ==
  LET u[k \in 1..n] == HMAC(P, IF k = 1 THEN S \o << <<"be32", b>> >> ELSE u[k - 1]) IN u

\* It satisfies the equation it is defined by.
LEMMA UsUnfold ==
  ASSUME NEW P, NEW S, NEW n \in Nat, NEW b
  PROVE  UsOf(P, S, n, b) =
           [k \in 1..n |-> HMAC(P, IF k = 1 THEN S \o << <<"be32", b>> >> ELSE UsOf(P, S, n, b)[k - 1])]
<1> DEFINE z == S \o << <<"be32", b>> >>
           Is(g, m) == g = [k \in 1..m |-> HMAC(P, IF k = 1 THEN z ELSE g[k - 1])]
           Exist == {m \in Nat : \E g : Is(g, m)}
<1>1. 0 \in Exist
  <2>1. Is([k \in 1..0 |-> 0], 0)
    OBVIOUS
  <2> QED
    BY <2>1
<1>2. ASSUME NEW m \in Nat, m \in Exist PROVE m + 1 \in Exist
  <2>1. PICK g : Is(g, m)
    BY <1>2
  <2> DEFINE h == [k \in 1..(m + 1) |-> IF k = m + 1 THEN HMAC(P, IF k = 1 THEN z ELSE g[m]) ELSE g[k]]
  <2>2. ASSUME NEW k \in 1..(m + 1) PROVE h[k] = HMAC(P, IF k = 1 THEN z ELSE h[k - 1])
    <3>1. CASE k = m + 1
      <4>1. k # 1 => k - 1 = m /\ m \in 1..(m + 1) /\ m # m + 1
        BY <3>1
      <4>2. k # 1 => h[k - 1] = g[m]
        BY <4>1
      <4> QED
        BY <3>1, <4>2
    <3>2. CASE k # m + 1
      <4>1. k \in 1..m /\ (k # 1 => k - 1 \in 1..m)
        BY <3>2
      <4>2. h[k] = g[k] /\ (k # 1 => h[k - 1] = g[k - 1])
        BY <4>1
      <4>3. g[k] = HMAC(P, IF k = 1 THEN z ELSE g[k - 1])
        BY <2>1, <4>1, Zenon
      <4> QED
        BY <4>2, <4>3
    <3> QED
      BY <3>1, <3>2
  <2>3. h = [k \in 1..(m + 1) |-> h[k]]
    OBVIOUS
  <2> HIDE DEF h
  <2>4. Is(h, m + 1)
    BY <2>2, <2>3, Zenon
  <2> QED
    BY <2>4, SMTT(30)
<1> HIDE DEF Exist
<1>3. n \in Exist
  BY <1>1, <1>2, Induction
<1>4. \E g : Is(g, n)
  BY <1>3 DEF Exist
<1>5. UsOf(P, S, n, b) = CHOOSE g : Is(g, n)
  BY DEF UsOf
<1> HIDE DEF z
<1>6. Is(UsOf(P, S, n, b), n)
  BY <1>4, <1>5, Zenon
<1> QED
  BY <1>6, Zenon DEF z

\* The cells that occur an odd number of times in the first m of them.
Times(u, m, x, y) == {k \in 1..m : u[k][x] = y}
Odd(u, m) ==
  [x \in 1..HDigest |-> {y \in {u[k][x] : k \in 1..m} : Cardinality({k \in 1..m : u[k][x] = y}) % 2 = 1}]

LEMMA ReferenceIsOdd ==
  ASSUME NEW P, NEW S, NEW n, NEW b
  PROVE  F(P, S, n, b) = Odd(UsOf(P, S, n, b), n)
BY Zenon DEF F, Odd, UsOf

LEMMA TimesFinite ==
  ASSUME NEW u, NEW m \in Nat, NEW x, NEW y
  PROVE  IsFiniteSet(Times(u, m, x, y)) /\ Cardinality(Times(u, m, x, y)) \in Nat
<1>1. IsFiniteSet(1..m)
  BY FS_Interval
<1>2. Times(u, m, x, y) \subseteq 1..m
  BY DEF Times
<1> QED
  BY <1>1, <1>2, FS_Subset, FS_CardinalityType

LEMMA OddMember ==
  ASSUME NEW u, NEW m \in Nat, NEW x \in 1..HDigest, NEW y
  PROVE  y \in Odd(u, m)[x] <=> Cardinality(Times(u, m, x, y)) % 2 = 1
<1>1. Odd(u, m)[x] = {w \in {u[k][x] : k \in 1..m} : Cardinality(Times(u, m, x, w)) % 2 = 1}
  BY DEF Odd, Times
<1>2. ASSUME Cardinality(Times(u, m, x, y)) % 2 = 1 PROVE y \in {u[k][x] : k \in 1..m}
  <2>1. CASE Times(u, m, x, y) = {}
    <3>1. Cardinality({}) = 0
      BY FS_EmptySet
    <3> QED
      BY <1>2, <2>1, <3>1
  <2>2. CASE Times(u, m, x, y) # {}
    BY <2>2 DEF Times
  <2> QED
    BY <2>1, <2>2
<1> QED
  BY <1>1, <1>2

\* One more digest counts once, for its own cell.
LEMMA TimesNext ==
  ASSUME NEW u, NEW m \in Nat, NEW x, NEW y
  PROVE  Cardinality(Times(u, m + 1, x, y)) =
           Cardinality(Times(u, m, x, y)) + (IF u[m + 1][x] = y THEN 1 ELSE 0)
<1>1. CASE u[m + 1][x] = y
  <2>1. Times(u, m + 1, x, y) = Times(u, m, x, y) \cup {m + 1} /\ m + 1 \notin Times(u, m, x, y)
    BY <1>1 DEF Times
  <2> QED
    BY <1>1, <2>1, TimesFinite, FS_AddElement
<1>2. CASE u[m + 1][x] # y
  <2>1. Times(u, m + 1, x, y) = Times(u, m, x, y)
    BY <1>2 DEF Times
  <2> QED
    BY <1>2, <2>1, TimesFinite
<1> QED
  BY <1>1, <1>2

LEMMA Parity == ASSUME NEW n \in Nat PROVE (n + 1) % 2 = 1 <=> ~(n % 2 = 1)
OBVIOUS

\* So T is xored with the next U.
LEMMA OddNext ==
  ASSUME NEW u, NEW m \in Nat
  PROVE  Odd(u, m + 1) = Xor(Odd(u, m), Cells(u[m + 1]))
<1>1. ASSUME NEW x \in 1..HDigest
      PROVE  Odd(u, m + 1)[x] = (Odd(u, m)[x] \cup {u[m + 1][x]}) \ (Odd(u, m)[x] \cap {u[m + 1][x]})
  <2>1. ASSUME NEW y
        PROVE  y \in Odd(u, m + 1)[x] <=> (y \in Odd(u, m)[x] <=> ~(u[m + 1][x] = y))
    <3> DEFINE a == Cardinality(Times(u, m, x, y))
    <3>1. a \in Nat
      BY TimesFinite
    <3>2. Cardinality(Times(u, m + 1, x, y)) = a + (IF u[m + 1][x] = y THEN 1 ELSE 0)
      BY TimesNext
    <3>3. y \in Odd(u, m)[x] <=> a % 2 = 1
      BY OddMember
    <3>4. m + 1 \in Nat
      OBVIOUS
    <3>5. y \in Odd(u, m + 1)[x] <=> Cardinality(Times(u, m + 1, x, y)) % 2 = 1
      BY <3>4, OddMember
    <3> HIDE DEF a
    <3>6. CASE u[m + 1][x] = y
      BY <3>1, <3>2, <3>3, <3>5, <3>6, Parity
    <3>7. CASE u[m + 1][x] # y
      BY <3>1, <3>2, <3>3, <3>5, <3>7
    <3> QED
      BY <3>6, <3>7
  <2> QED
    BY <2>1
<1>2. Odd(u, m + 1) = [x \in 1..HDigest |-> Odd(u, m + 1)[x]]
  BY DEF Odd
<1>3. Xor(Odd(u, m), Cells(u[m + 1])) =
        [x \in 1..HDigest |-> (Odd(u, m)[x] \cup {u[m + 1][x]}) \ (Odd(u, m)[x] \cap {u[m + 1][x]})]
  BY DEF Xor, Cells
<1> QED
  BY <1>1, <1>2, <1>3, Zenon

LEMMA OddNone == ASSUME NEW u PROVE Odd(u, 0) = [x \in 1..HDigest |-> {}]
BY DEF Odd

LEMMA OddFirst == ASSUME NEW u PROVE Odd(u, 1) = Cells(u[1])
<1>1. Odd(u, 0 + 1) = Xor(Odd(u, 0), Cells(u[0 + 1]))
  BY OddNext
<1>2. Xor([x \in 1..HDigest |-> {}], Cells(u[1])) = Cells(u[1])
  BY DEF Xor, Cells
<1>3. 0 + 1 = 1
  OBVIOUS
<1> QED
  BY <1>1, <1>2, <1>3, OddNone, Zenon

-----------------------------------------------------------------------------
\* Cell k of the derived key, in its block.
CellOf(k, kl, sl, n) ==
  LET b == (k - 1) \div HDigest + 1
  IN  F(KeyOf(kl), SaltOf(sl), n, b)[k - (b - 1) * HDigest]
Outputs(kl, sl, n) == {F(KeyOf(kl), SaltOf(sl), n, b)[x] : b \in Nat, x \in 1..HDigest}
Us(kl, sl, n, b) == UsOf(KeyOf(kl), SaltOf(sl), n, b)

\* The contexts kept, and the output so far, are those of the arguments.
KeptTrue == hmac_pc \in {"blocks", "iterate"} =>
  /\ klen \in Nat /\ saltlen \in Nat /\ c \in Nat \ {0} /\ dkLen \in Nat /\ i \in Nat
  /\ Phctx = HmacInit(KeyOf(klen))
  /\ PShctx = HmacUpdate(Phctx, SaltOf(saltlen))
  /\ dk \in Seq(Outputs(klen, saltlen, c))
  /\ \A k \in 1..Len(dk) : dk[k] = CellOf(k, klen, saltlen, c)
\* Whole blocks before the last one.
BlocksOut == hmac_pc = "blocks" =>
  Len(dk) = IF i * HDigest < dkLen THEN i * HDigest ELSE dkLen
\* U is U_{j-1}, and T the xor of those before.
Iterated == hmac_pc = "iterate" =>
  /\ i * HDigest < dkLen /\ Len(dk) = i * HDigest
  /\ j \in 2..(c + 1)
  /\ U = Us(klen, saltlen, c, i + 1)[j - 1]
  /\ T = Odd(Us(klen, saltlen, c, i + 1), j - 1)
Pbkdf2Inv == KeptTrue /\ BlocksOut /\ Iterated /\ DkIsPbkdf2

LEMMA Pbkdf2Init == HInit => Pbkdf2Inv
BY DEF HInit, Pbkdf2Inv, KeptTrue, BlocksOut, Iterated, DkIsPbkdf2

LEMMA ArgumentsGiven == ASSUME Pbkdf2Inv, PBKDF2_SHA256 PROVE Pbkdf2Inv'
<1>1. /\ hmac_pc' = "blocks" /\ i' = 0 /\ dk' = <<>>
      /\ klen' \in Nat /\ saltlen' \in Nat /\ c' \in Nat \ {0} /\ dkLen' \in Nat
      /\ Phctx' = HmacInit(KeyOf(klen')) /\ PShctx' = HmacUpdate(Phctx', SaltOf(saltlen'))
  BY HmacInputs DEF PBKDF2_SHA256, KeyOf, SaltOf
<1>2. 0 * HDigest = 0 /\ Len(<<>>) = 0
  BY HmacLengths
<1>3. BlocksOut'
  BY <1>1, <1>2 DEF BlocksOut
<1>4. KeptTrue'
  BY <1>1, <1>2 DEF KeptTrue
<1> QED
  BY <1>1, <1>3, <1>4 DEF Pbkdf2Inv, Iterated, DkIsPbkdf2

LEMMA Same == ASSUME UNCHANGED hmacvars, Pbkdf2Inv PROVE Pbkdf2Inv'
BY DEF hmacvars, args, kept, Pbkdf2Inv, KeptTrue, BlocksOut, Iterated, DkIsPbkdf2

LEMMA OtherCalls ==
  ASSUME HMAC_SHA256_Init \/ HMAC_SHA256_Update \/ HMAC_SHA256_Final \/ HDone PROVE Pbkdf2Inv'
<1>1. hmac_pc' \notin {"blocks", "iterate", "dk_done"}
  BY DEF HMAC_SHA256_Init, HMAC_SHA256_Update, HMAC_SHA256_Final, HDone
<1> QED
  BY <1>1 DEF Pbkdf2Inv, KeptTrue, BlocksOut, Iterated, DkIsPbkdf2

\* The hash that a copy of a kept context ends with.
LEMMA KeptHash ==
  ASSUME NEW K, NEW h, h = HmacInit(K), NEW m
  PROVE  HmacFinal(HmacUpdate(h, m)) = HMAC(K, m)
<1>1. HmacUpdate(h, m).i = h.i \o m /\ HmacUpdate(h, m).o = h.o
  BY InitPads DEF HmacUpdate
<1>2. HMAC(K, m) = Digest(h.o \o Digest(h.i \o m))
  BY InitPads, Zenon
<1> QED
  BY <1>1, <1>2, Zenon DEF HmacFinal

LEMMA SaltedHash ==
  ASSUME NEW K, NEW n \in Nat, NEW b
  PROVE  HmacFinal(HmacUpdate(HmacUpdate(HmacInit(K), SaltOf(n)), INT(b)))
           = HMAC(K, SaltOf(n) \o << <<"be32", b>> >>)
<1> DEFINE x == XorPad("0x36", ShortKey(K))
           y == SaltOf(n)
           z == << <<"be32", b>> >>
           S == {x[k] : k \in 1..HBlock} \cup {<<"salt", k>> : k \in Nat} \cup {<<"be32", b>>}
<1>1. x \in [1..HBlock -> S] /\ y \in [1..n -> S]
  BY DEF XorPad, Bytes, SaltOf
<1>2. x \in Seq(S) /\ y \in Seq(S)
  BY <1>1, FunctionIsSeq, HmacLengths
<1>3. z \in Seq(S)
  OBVIOUS
<1>4. HmacInit(K) = [i |-> x, o |-> XorPad("0x5c", ShortKey(K))]
  BY InitPads
<1>5. INT(b) = z
  BY DEF INT
<1> HIDE DEF x, y, z, S
<1>6. (x \o y) \o z = x \o (y \o z)
  BY <1>2, <1>3, ConcatInMiddle
<1> DEFINE h == HmacInit(K)
           g == HmacUpdate(h, y)
<1>7. h.i = x /\ g.i = x \o y /\ g.o = h.o
  BY <1>4 DEF HmacUpdate
<1>8. HmacUpdate(g, z).i = (x \o y) \o z /\ HmacUpdate(g, z).o = h.o
  BY <1>4, <1>7 DEF HmacUpdate
<1>9. HmacUpdate(h, y \o z).i = x \o (y \o z) /\ HmacUpdate(h, y \o z).o = h.o
  BY <1>4, <1>7 DEF HmacUpdate
<1>10. HmacFinal(HmacUpdate(h, y \o z)) = HMAC(K, y \o z)
  BY KeptHash, Zenon
<1>11. HmacFinal(HmacUpdate(g, z)) = HmacFinal(HmacUpdate(h, y \o z))
  BY <1>6, <1>8, <1>9, Zenon DEF HmacFinal
<1> QED
  BY <1>5, <1>10, <1>11, Zenon DEF y, z

LEMMA UsFirst ==
  ASSUME NEW kl, NEW sl, NEW n \in Nat \ {0}, NEW b
  PROVE  Us(kl, sl, n, b)[1] = HMAC(KeyOf(kl), SaltOf(sl) \o << <<"be32", b>> >>)
<1> DEFINE u == UsOf(KeyOf(kl), SaltOf(sl), n, b)
<1>1. u = [k \in 1..n |-> HMAC(KeyOf(kl), IF k = 1 THEN SaltOf(sl) \o << <<"be32", b>> >> ELSE u[k - 1])]
  BY UsUnfold
<1>2. 1 \in 1..n
  OBVIOUS
<1> HIDE DEF u
<1>3. u[1] = HMAC(KeyOf(kl), SaltOf(sl) \o << <<"be32", b>> >>)
  BY <1>1, <1>2, Zenon
<1> QED
  BY <1>3 DEF u, Us

LEMMA UsNext ==
  ASSUME NEW kl, NEW sl, NEW n \in Nat \ {0}, NEW b, NEW m \in 2..n
  PROVE  Us(kl, sl, n, b)[m] = HMAC(KeyOf(kl), Us(kl, sl, n, b)[m - 1])
<1> DEFINE u == UsOf(KeyOf(kl), SaltOf(sl), n, b)
<1>1. u = [k \in 1..n |-> HMAC(KeyOf(kl), IF k = 1 THEN SaltOf(sl) \o << <<"be32", b>> >> ELSE u[k - 1])]
  BY UsUnfold
<1>2. m \in 1..n /\ m # 1
  OBVIOUS
<1> HIDE DEF u
<1>3. u[m] = HMAC(KeyOf(kl), u[m - 1])
  BY <1>1, <1>2, Zenon
<1> QED
  BY <1>3 DEF u, Us

LEMMA FirstUStep == ASSUME Pbkdf2Inv, FirstU PROVE Pbkdf2Inv'
<1> DEFINE us == Us(klen, saltlen, c, i + 1)
<1>1. /\ hmac_pc = "blocks" /\ hmac_pc' = "iterate" /\ i * HDigest < dkLen /\ j' = 2
      /\ UNCHANGED <<klen, saltlen, c, dkLen, Phctx, PShctx, i, dk>>
      /\ U' = HmacFinal(HmacUpdate(PShctx, INT(i + 1)))
      /\ T' = Cells(HmacFinal(HmacUpdate(PShctx, INT(i + 1))))
  BY DEF FirstU, args, kept
<1>2. KeptTrue'
  BY <1>1 DEF Pbkdf2Inv, KeptTrue
<1>3. klen \in Nat /\ saltlen \in Nat /\ c \in Nat \ {0} /\ Len(dk) = i * HDigest
  BY <1>1 DEF Pbkdf2Inv, KeptTrue, BlocksOut
<1>4. PShctx = HmacUpdate(HmacInit(KeyOf(klen)), SaltOf(saltlen))
  BY <1>1, Zenon DEF Pbkdf2Inv, KeptTrue
<1>5. HmacFinal(HmacUpdate(PShctx, INT(i + 1))) = us[1]
  <2>1. HmacFinal(HmacUpdate(PShctx, INT(i + 1))) = HMAC(KeyOf(klen), SaltOf(saltlen) \o << <<"be32", i + 1>> >>)
    BY <1>4, SaltedHash, <1>3, Zenon
  <2>2. Us(klen, saltlen, c, i + 1)[1] = HMAC(KeyOf(klen), SaltOf(saltlen) \o << <<"be32", i + 1>> >>)
    BY <1>3, UsFirst, Zenon
  <2> QED
    BY <2>1, <2>2, Zenon
<1>6. U' = us[1] /\ T' = Odd(us, 1)
  BY <1>1, <1>5, OddFirst, Zenon
<1>7. 2 \in 2..(c + 1) /\ 2 - 1 = 1
  BY <1>3
<1> HIDE DEF us
<1>8. U' = us[j' - 1] /\ T' = Odd(us, j' - 1)
  BY <1>1, <1>6, <1>7, Zenon
<1>9. Iterated'
  BY <1>1, <1>3, <1>7, <1>8, Zenon DEF Iterated, us
<1> QED
  BY <1>1, <1>2, <1>9 DEF Pbkdf2Inv, BlocksOut, DkIsPbkdf2

LEMMA NextUStep == ASSUME Pbkdf2Inv, NextU PROVE Pbkdf2Inv'
<1> DEFINE us == Us(klen, saltlen, c, i + 1)
<1>1. /\ hmac_pc = "iterate" /\ hmac_pc' = "iterate" /\ j <= c /\ j' = j + 1
      /\ UNCHANGED <<klen, saltlen, c, dkLen, Phctx, PShctx, i, dk>>
      /\ U' = HmacFinal(HmacUpdate(Phctx, U))
      /\ T' = Xor(T, Cells(HmacFinal(HmacUpdate(Phctx, U))))
  BY DEF NextU, IterateCtx, args, kept
<1>2. KeptTrue'
  BY <1>1 DEF Pbkdf2Inv, KeptTrue
<1>3. /\ klen \in Nat /\ saltlen \in Nat /\ c \in Nat \ {0} /\ j \in 2..(c + 1)
      /\ i * HDigest < dkLen /\ Len(dk) = i * HDigest
      /\ U = us[j - 1] /\ T = Odd(us, j - 1)
  BY <1>1, Zenon DEF Pbkdf2Inv, KeptTrue, Iterated
<1>4. j \in 2..c /\ j - 1 \in Nat /\ (j - 1) + 1 = j /\ (j + 1) - 1 = j /\ j + 1 \in 2..(c + 1)
  BY <1>1, <1>3
<1>5. Phctx = HmacInit(KeyOf(klen))
  BY <1>1, Zenon DEF Pbkdf2Inv, KeptTrue
<1>6. HmacFinal(HmacUpdate(Phctx, U)) = us[j]
  <2>1. HmacFinal(HmacUpdate(Phctx, U)) = HMAC(KeyOf(klen), U)
    BY <1>5, KeptHash, <1>3, Zenon
  <2>2. j \in 2..c /\ c \in Nat \ {0}
    BY <1>3, <1>4
  <2>3. us[j] = HMAC(KeyOf(klen), us[j - 1])
    BY <2>2, UsNext
  <2> QED
    BY <1>3, <2>1, <2>3, Zenon
<1>7. U' = us[j] /\ T' = Odd(us, j)
  BY <1>1, <1>3, <1>4, <1>6, OddNext, Zenon
<1> HIDE DEF us
<1>8. U' = us[j' - 1] /\ T' = Odd(us, j' - 1) /\ j' \in 2..(c + 1)
  BY <1>1, <1>4, <1>7, Zenon
<1>9. Iterated'
  BY <1>1, <1>3, <1>8, Zenon DEF Iterated, us
<1> QED
  BY <1>1, <1>2, <1>9 DEF Pbkdf2Inv, BlocksOut, DkIsPbkdf2

\* Cell x of block q + 1 is where CellOf looks for it.
LEMMA CellInBlock ==
  ASSUME NEW q \in Nat, NEW x \in 1..HDigest, NEW kl, NEW sl, NEW n
  PROVE  CellOf(q * HDigest + x, kl, sl, n) = F(KeyOf(kl), SaltOf(sl), n, q + 1)[x]
<1> DEFINE k == q * HDigest + x
<1>1. HDigest \in Nat \ {0}
  BY HmacLengths
<1>2. (k - 1) \div HDigest = q
  <2>1. k - 1 = HDigest * q + (x - 1) /\ x - 1 \in 0..(HDigest - 1)
    BY <1>1
  <2> QED
    BY <1>1, <2>1
<1>3. ((q + 1) - 1) * HDigest = q * HDigest /\ k - q * HDigest = x
  BY <1>1
<1> HIDE DEF k
<1>4. CellOf(k, kl, sl, n) = F(KeyOf(kl), SaltOf(sl), n, q + 1)[k - ((q + 1) - 1) * HDigest]
  BY <1>2, Zenon DEF CellOf
<1>5. CellOf(k, kl, sl, n) = F(KeyOf(kl), SaltOf(sl), n, q + 1)[x]
  BY <1>3, <1>4
<1> QED
  BY <1>5 DEF k

LEMMA CopyTStep == ASSUME Pbkdf2Inv, CopyT PROVE Pbkdf2Inv'
<1> DEFINE out == Outputs(klen, saltlen, c)
           m == clen
           at == i * HDigest
<1>1. /\ hmac_pc = "iterate" /\ hmac_pc' = "blocks" /\ j > c /\ i' = i + 1
      /\ UNCHANGED <<klen, saltlen, c, dkLen, Phctx, PShctx>>
      /\ dk' = dk \o SubSeq(T, 1, m)
  BY DEF CopyT, args, kept
<1>2. /\ klen \in Nat /\ saltlen \in Nat /\ c \in Nat \ {0} /\ dkLen \in Nat /\ i \in Nat
      /\ Phctx = HmacInit(KeyOf(klen)) /\ PShctx = HmacUpdate(Phctx, SaltOf(saltlen))
      /\ dk \in Seq(out) /\ \A k \in 1..Len(dk) : dk[k] = CellOf(k, klen, saltlen, c)
      /\ at < dkLen /\ Len(dk) = at /\ j \in 2..(c + 1)
      /\ T = Odd(Us(klen, saltlen, c, i + 1), j - 1)
  BY <1>1, Zenon DEF Pbkdf2Inv, KeptTrue, Iterated
<1>3. j - 1 = c
  BY <1>1, <1>2
<1>4. T = F(KeyOf(klen), SaltOf(saltlen), c, i + 1)
  BY <1>2, <1>3, ReferenceIsOdd, Zenon DEF Us
<1>5. HDigest \in Nat \ {0} /\ at \in Nat /\ (i + 1) * HDigest = at + HDigest
  BY <1>2, HmacLengths
<1>6. m \in 1..HDigest /\ at + m = IF at + HDigest < dkLen THEN at + HDigest ELSE dkLen
  BY <1>2, <1>5 DEF clen
<1>7. \A x \in 1..HDigest : T[x] \in out
  <2>1. i + 1 \in Nat
    BY <1>2
  <2> QED
    BY <1>4, <2>1 DEF Outputs
<1> DEFINE piece == SubSeq(T, 1, m)
<1>8. /\ piece \in Seq(out) /\ Len(piece) = m
      /\ \A x \in 1..m : piece[x] = T[x]
  <2> HIDE DEF m, out
  <2>1. 1 \in Int /\ m \in Int /\ \A x \in 1..m : T[x] \in out
    BY <1>5, <1>6, <1>7
  <2>2. /\ piece \in Seq(out) /\ Len(piece) = (IF 1 <= m THEN m - 1 + 1 ELSE 0)
        /\ \A x \in 1..(m - 1 + 1) : piece[x] = T[1 + x - 1]
    BY <2>1, SubSeqProperties
  <2> QED
    BY <1>6, <2>2
<1> HIDE DEF piece, out, m, at
<1>9. /\ dk \o piece \in Seq(out) /\ Len(dk \o piece) = Len(dk) + Len(piece)
      /\ \A k \in 1..(Len(dk) + Len(piece)) :
           (dk \o piece)[k] = IF k <= Len(dk) THEN dk[k] ELSE piece[k - Len(dk)]
  BY <1>2, <1>8, ConcatProperties
<1>10. /\ dk' \in Seq(out) /\ Len(dk') = at + m
       /\ \A k \in 1..(at + m) : dk'[k] = IF k <= at THEN dk[k] ELSE piece[k - at]
  BY <1>1, <1>2, <1>8, <1>9 DEF piece
<1>11. ASSUME NEW k \in 1..(at + m) PROVE dk'[k] = CellOf(k, klen, saltlen, c)
  <2>1. CASE k <= at
    <3>1. k \in 1..at
      BY <2>1, <1>5
    <3> QED
      BY <1>2, <1>10, <2>1, <3>1
  <2>2. CASE ~(k <= at)
    <3>1. k - at \in 1..m /\ k - at \in 1..HDigest /\ at + (k - at) = k
      BY <2>2, <1>5, <1>6
    <3>2. CellOf(at + (k - at), klen, saltlen, c) = T[k - at]
      BY <1>2, <1>4, <3>1, CellInBlock DEF at
    <3> QED
      BY <1>8, <1>10, <2>2, <3>1, <3>2
  <2> QED
    BY <2>1, <2>2
<1>12. KeptTrue'
  <2>1. i' \in Nat
    BY <1>1, <1>2
  <2> QED
    BY <1>1, <1>2, <1>10, <1>11, <2>1 DEF KeptTrue, out
<1>13. BlocksOut'
  <2>1. i' * HDigest = at + HDigest
    BY <1>1, <1>5
  <2> QED
    BY <1>1, <1>6, <1>10, <2>1 DEF BlocksOut
<1> QED
  BY <1>1, <1>12, <1>13 DEF Pbkdf2Inv, Iterated, DkIsPbkdf2

LEMMA ReturnStep == ASSUME Pbkdf2Inv, PBKDF2_Return PROVE Pbkdf2Inv'
<1>1. /\ hmac_pc = "blocks" /\ hmac_pc' = "dk_done" /\ i * HDigest >= dkLen
      /\ UNCHANGED <<klen, saltlen, c, dkLen, i, dk>>
  BY DEF PBKDF2_Return, args
<1>2. /\ i * HDigest \in Nat /\ dkLen \in Nat
      /\ \A k \in 1..Len(dk) : dk[k] = CellOf(k, klen, saltlen, c)
  BY <1>1, HmacLengths DEF Pbkdf2Inv, KeptTrue
<1>3. Len(dk) = dkLen
  BY <1>1, <1>2 DEF Pbkdf2Inv, BlocksOut
<1>4. DkIsPbkdf2'
  BY <1>1, <1>2, <1>3, Zenon DEF DkIsPbkdf2, CellOf, KeyOf, SaltOf
<1> QED
  BY <1>1, <1>4 DEF Pbkdf2Inv, KeptTrue, BlocksOut, Iterated

\* A derived key is RFC 8018's, for every length of password, salt and key and
\* every number of iterations.
THEOREM HmacDkCorrect == HSpec => []DkIsPbkdf2
<1>1. Pbkdf2Inv /\ [HNext]_hmacvars => Pbkdf2Inv'
  BY ArgumentsGiven, FirstUStep, NextUStep, CopyTStep, ReturnStep, OtherCalls, Same
     DEF HNext
<1>2. Pbkdf2Inv => DkIsPbkdf2
  BY DEF Pbkdf2Inv
<1> QED
  BY <1>1, <1>2, Pbkdf2Init, PTL DEF HSpec

-----------------------------------------------------------------------------
(***************************************************************************)
(* AES keys (AesKeys).                                                     *)
(***************************************************************************)
Names == {"aesni", "arm", "software"}
\* Expanded keys are what some implementation makes of a key of 16 or 32 bytes.
KeysExpanded == key \in [Keys -> {NoKey} \cup {Expand(h, n) : h \in Names, n \in {16, 32}}]
\* A static is set once, to the hardware code of the build or to OpenSSL, both
\* statics to the same, and what is chosen had passed its test.
Statics ==
  /\ build \in {"aesni", "arm", "none"}
  /\ aes_hw # "unset" => aes_hw \in Names \cap {build, "software"}
  /\ ctr_hw # "unset" => ctr_hw = aes_hw
  /\ build # "none" /\ aes_hw # "unset" => Sound(aes_hw)
\* All keys there are were expanded by the implementation that is chosen.
KeysOfChosen == \A k \in Keys : key[k] # NoKey => aes_hw # "unset" /\ key[k].by = aes_hw
\* A stream's key is not freed before the stream.
StreamsKeyed ==
  \A s \in Streams : stream_key[s] # "none" => stream_key[s] \in Keys /\ key[stream_key[s]] # NoKey
KeysInv == /\ KeysExpanded /\ Statics /\ KeysOfChosen /\ StreamsKeyed /\ BlocksAreAes
           /\ stream_key \in [Streams -> Keys \cup {"none"}]

\* Ranges of round keys put together.
LEMMA UpToIs ==
  ASSUME NEW a \in Nat, NEW b \in Nat, a <= b + 1
  PROVE  /\ UpTo(a, b) \in Seq(Nat) /\ Len(UpTo(a, b)) = b - a + 1
         /\ \A n \in 1..(b - a + 1) : UpTo(a, b)[n] = a + n - 1
<1>1. b - a + 1 \in Nat /\ \A n \in 1..(b - a + 1) : a + n - 1 \in Nat
  OBVIOUS
<1> DEFINE m == b - a + 1
<1>2. m \in Nat /\ UpTo(a, b) \in [1..m -> Nat]
  BY <1>1 DEF UpTo
<1>3. \A n \in 1..m : UpTo(a, b)[n] = a + n - 1
  BY DEF UpTo
<1> HIDE DEF m
<1>4. UpTo(a, b) \in Seq(Nat) /\ Len(UpTo(a, b)) = m
  BY <1>2
<1> QED
  BY <1>3, <1>4 DEF m

Joins(a, b, d, e) == UpTo(a, b) \o UpTo(d, e) = UpTo(a, e)
LEMMA UpToJoin ==
  ASSUME NEW a \in Nat, NEW b \in Nat, NEW d \in Nat, NEW e \in Nat,
         a <= d, d = b + 1, b <= e
  PROVE  Joins(a, b, d, e)
<1> DEFINE s == UpTo(a, b)
           t == UpTo(d, e)
           u == UpTo(a, e)
<1>1. /\ s \in Seq(Nat) /\ Len(s) = b - a + 1
      /\ \A n \in 1..(b - a + 1) : s[n] = a + n - 1
  BY UpToIs
<1>2. d <= e + 1 /\ a <= e + 1
  OBVIOUS
<1>3. /\ t \in Seq(Nat) /\ Len(t) = e - d + 1
      /\ \A n \in 1..(e - d + 1) : t[n] = d + n - 1
  BY <1>2, UpToIs
<1>4. /\ u \in Seq(Nat) /\ Len(u) = e - a + 1
      /\ \A n \in 1..(e - a + 1) : u[n] = a + n - 1
  BY <1>2, UpToIs
<1> HIDE DEF s, t, u
<1>5. /\ s \o t \in Seq(Nat)
      /\ Len(s \o t) = Len(s) + Len(t)
      /\ \A m \in 1..(Len(s) + Len(t)) : (s \o t)[m] = IF m <= Len(s) THEN s[m] ELSE t[m - Len(s)]
  BY <1>1, <1>3, ConcatProperties
<1>6. Len(s \o t) = Len(u) /\ Len(u) = e - a + 1
  BY <1>1, <1>3, <1>4, <1>5
<1>7. ASSUME NEW n \in 1..(e - a + 1) PROVE (s \o t)[n] = u[n]
  <2>1. (s \o t)[n] = IF n <= b - a + 1 THEN s[n] ELSE t[n - (b - a + 1)]
    BY <1>1, <1>3, <1>5
  <2>2. CASE n <= b - a + 1
    BY <2>1, <2>2, <1>1, <1>4
  <2>3. CASE ~(n <= b - a + 1)
    <3>1. n - (b - a + 1) \in 1..(e - d + 1)
      BY <2>3
    <3>2. t[n - (b - a + 1)] = d + (n - (b - a + 1)) - 1
      BY <1>3, <3>1
    <3> QED
      BY <2>1, <2>3, <3>2, <1>4
  <2> QED
    BY <2>2, <2>3
<1>8. s \o t = u
  BY <1>4, <1>5, <1>6, <1>7, SeqEqual
<1> QED
  BY <1>8 DEF s, t, u, Joins

LEMMA UpToSingle == ASSUME NEW n \in Nat PROVE <<n>> = UpTo(n, n)
<1>1. <<n>> \in Seq(Nat) /\ Len(<<n>>) = 1 /\ <<n>>[1] = n
  OBVIOUS
<1>2. /\ UpTo(n, n) \in Seq(Nat) /\ Len(UpTo(n, n)) = n - n + 1
      /\ \A k \in 1..(n - n + 1) : UpTo(n, n)[k] = n + k - 1
  <2>1. n <= n + 1
    OBVIOUS
  <2> QED
    BY <2>1, UpToIs
<1> HIDE DEF UpTo
<1> QED
  BY <1>1, <1>2, SeqEqual

LEMMA UpToPair == ASSUME NEW n \in Nat PROVE <<n, n + 1>> = UpTo(n, n + 1)
<1>1. /\ <<n, n + 1>> \in Seq(Nat) /\ Len(<<n, n + 1>>) = 2
      /\ <<n, n + 1>>[1] = n /\ <<n, n + 1>>[2] = n + 1
  OBVIOUS
<1>0. n + 1 \in Nat /\ n <= (n + 1) + 1
  OBVIOUS
<1>2. /\ UpTo(n, n + 1) \in Seq(Nat) /\ Len(UpTo(n, n + 1)) = (n + 1) - n + 1
      /\ \A k \in 1..((n + 1) - n + 1) : UpTo(n, n + 1)[k] = n + k - 1
  BY <1>0, UpToIs
<1> HIDE DEF UpTo
<1> QED
  BY <1>1, <1>2, SeqEqual

\* Each implementation applies the round keys that it made, all and in order.
LEMMA AppliesAll ==
  ASSUME NEW h \in Names, NEW n \in {16, 32}
  PROVE  /\ Expand(h, n).by = h /\ Expand(h, n).len = n /\ Expand(h, n) # NoKey
         /\ Encrypt(h, Expand(h, n)) = UpTo(0, IF n = 16 THEN 10 ELSE 14)
<1> DEFINE r == IF n = 16 THEN 10 ELSE 14
<1>1. Expand(h, n) = [by |-> h, len |-> n, nr |-> r]
  BY DEF Names, Expand, crypto_aes_key_expand_aesni, crypto_aes_key_expand_arm,
     AES_set_encrypt_key
<1>2. Encrypt("software", [by |-> h, len |-> n, nr |-> r]) = UpTo(0, r)
  BY DEF Encrypt, AES_encrypt
<1>3. Encrypt("aesni", [by |-> h, len |-> n, nr |-> r]) = UpTo(0, r)
  <2>1. Encrypt("aesni", [by |-> h, len |-> n, nr |-> r])
          = UpTo(0, 9) \o (IF r > 10 THEN UpTo(10, 13) ELSE <<>>) \o <<r>>
    BY DEF Encrypt, crypto_aes_encrypt_block_aesni
  <2>2. CASE n = 16
    <3>1. UpTo(0, 9) \o <<>> = UpTo(0, 9)
      <4>1. UpTo(0, 9) \in Seq(Nat)
        BY UpToIs
      <4> QED
        BY <4>1, ConcatEmptySeq
    <3>2. Joins(0, 9, 10, 10)
      BY UpToJoin
    <3>3. <<10>> = UpTo(10, 10)
      BY UpToSingle
    <3>4. r = 10 /\ Encrypt("aesni", [by |-> h, len |-> n, nr |-> r]) = UpTo(0, 9) \o <<>> \o <<10>>
      BY <2>1, <2>2
    <3> QED
      BY <3>1, <3>2, <3>3, <3>4, Zenon DEF Joins
  <2>3. CASE n = 32
    <3>1. Joins(0, 9, 10, 13)
      BY UpToJoin
    <3>2. Joins(0, 13, 14, 14)
      BY UpToJoin
    <3>3. <<14>> = UpTo(14, 14)
      BY UpToSingle
    <3>4. r = 14 /\ Encrypt("aesni", [by |-> h, len |-> n, nr |-> r]) = UpTo(0, 9) \o UpTo(10, 13) \o <<14>>
      BY <2>1, <2>3
    <3> QED
      BY <3>1, <3>2, <3>3, <3>4, Zenon DEF Joins
  <2> QED
    BY <2>2, <2>3
<1>4. Encrypt("arm", [by |-> h, len |-> n, nr |-> r]) = UpTo(0, r)
  <2>1. Encrypt("arm", [by |-> h, len |-> n, nr |-> r])
          = UpTo(0, 8) \o (IF r > 10 THEN UpTo(9, 12) ELSE <<>>) \o <<r - 1, r>>
    BY DEF Encrypt, crypto_aes_encrypt_block_arm
  <2>2. CASE n = 16
    <3>1. UpTo(0, 8) \o <<>> = UpTo(0, 8)
      <4>1. UpTo(0, 8) \in Seq(Nat)
        BY UpToIs
      <4> QED
        BY <4>1, ConcatEmptySeq
    <3>2. Joins(0, 8, 9, 10)
      BY UpToJoin
    <3>3. <<9, 10>> = UpTo(9, 10)
      <4>1. <<9, 9 + 1>> = UpTo(9, 9 + 1)
        BY UpToPair
      <4> QED
        BY <4>1
    <3>4. r = 10 /\ Encrypt("arm", [by |-> h, len |-> n, nr |-> r]) = UpTo(0, 8) \o <<>> \o <<9, 10>>
      BY <2>1, <2>2
    <3> QED
      BY <3>1, <3>2, <3>3, <3>4, Zenon DEF Joins
  <2>3. CASE n = 32
    <3>1. Joins(0, 8, 9, 12)
      BY UpToJoin
    <3>2. Joins(0, 12, 13, 14)
      BY UpToJoin
    <3>3. <<13, 14>> = UpTo(13, 14)
      <4>1. <<13, 13 + 1>> = UpTo(13, 13 + 1)
        BY UpToPair
      <4> QED
        BY <4>1
    <3>4. r = 14 /\ Encrypt("arm", [by |-> h, len |-> n, nr |-> r]) = UpTo(0, 8) \o UpTo(9, 12) \o <<13, 14>>
      <4>1. r = 14 /\ r > 10 /\ r - 1 = 13
        BY <2>3
      <4> HIDE DEF r
      <4> QED
        BY <2>1, <4>1, Zenon
    <3> QED
      BY <3>1, <3>2, <3>3, <3>4, Zenon DEF Joins
  <2> QED
    BY <2>2, <2>3
<1> QED
  BY <1>1, <1>2, <1>3, <1>4 DEF Names, NoKey

LEMMA KeysInitInvariant == KInit => KeysInv
BY DEF KInit, KeysInv, KeysExpanded, Statics, KeysOfChosen, StreamsKeyed, BlocksAreAes,
   Names

\* hwaccel_init keeps what was chosen, and chooses only what passed its test.
LEMMA ChosenIsSound ==
  ASSUME Statics, NEW h \in aes_hwaccel_init, h # "abort"
  PROVE  /\ h \in Names \cap {build, "software"}
         /\ aes_hw # "unset" => h = aes_hw
         /\ build # "none" => Sound(h)
<1>1. CASE build = "none"
  BY <1>1 DEF aes_hwaccel_init, Statics, Names
<1>2. CASE build # "none" /\ aes_hw # "unset"
  BY <1>2 DEF aes_hwaccel_init, Statics
<1>3. CASE build # "none" /\ aes_hw = "unset"
  <2>1. h \in Chosen
    BY <1>3 DEF aes_hwaccel_init
  <2>2. PICK passes \in HardwarePasses :
          h = IF aes_offered /\ passes THEN build ELSE IF OpensslPasses THEN "software" ELSE "abort"
    BY <2>1 DEF Chosen
  <2>3. CASE aes_offered /\ passes
    BY <1>3, <2>2, <2>3 DEF HardwarePasses, Sound, Statics, Names
  <2>4. CASE ~(aes_offered /\ passes)
    BY <1>3, <2>2, <2>4 DEF OpensslPasses, Sound, Statics, Names
  <2> QED
    BY <2>3, <2>4
<1> QED
  BY <1>1, <1>2, <1>3

LEMMA ExpandStep ==
  ASSUME KeysInv, NEW k \in Keys, crypto_aes_key_expand(k)
  PROVE  KeysInv'
<1>1. PICK h \in aes_hwaccel_init :
        IF h = "abort" THEN Abort
        ELSE /\ aes_hw' = h
             /\ \/ \E kl \in {16, 32} : key' = [key EXCEPT ![k] = Expand(h, kl)]
                \/ UNCHANGED key
             /\ UNCHANGED <<machine, ctr_hw, aborted, stream_key, used>>
  BY DEF crypto_aes_key_expand
<1>2. CASE h = "abort"
  BY <1>1, <1>2 DEF Abort, machine, statics, KeysInv, KeysExpanded, Statics, KeysOfChosen,
                    StreamsKeyed, BlocksAreAes, Sound
<1>3. CASE h # "abort"
  <2>1. /\ h \in Names \cap {build, "software"}
        /\ aes_hw # "unset" => h = aes_hw
        /\ build # "none" => Sound(h)
    BY <1>3, ChosenIsSound DEF KeysInv
  <2>2. /\ aes_hw' = h /\ h # "unset"
        /\ UNCHANGED <<build, aes_offered, aes_sound, ctr_hw, stream_key, used>>
        /\ \/ \E kl \in {16, 32} : key' = [key EXCEPT ![k] = Expand(h, kl)]
           \/ UNCHANGED key
    BY <1>1, <1>3, <2>1 DEF machine, Names
  <2>3. Statics' /\ BlocksAreAes' /\ (stream_key \in [Streams -> Keys \cup {"none"}])'
    BY <2>1, <2>2 DEF KeysInv, Statics, BlocksAreAes, Sound
  <2>4. \A q \in Keys : key[q] # NoKey => key[q].by = h
    BY <2>1 DEF KeysInv, KeysOfChosen
  <2>5. CASE UNCHANGED key
    BY <2>2, <2>3, <2>4, <2>5 DEF KeysInv, KeysExpanded, KeysOfChosen, StreamsKeyed
  <2>6. ASSUME NEW kl \in {16, 32}, key' = [key EXCEPT ![k] = Expand(h, kl)]
        PROVE  KeysInv'
    <3>1. Expand(h, kl) # NoKey /\ Expand(h, kl).by = h
      BY <2>1, AppliesAll
    <3>2. KeysExpanded'
      BY <2>1, <2>6 DEF KeysInv, KeysExpanded
    <3>3. key' \in [Keys -> {NoKey} \cup {Expand(g, n) : g \in Names, n \in {16, 32}}]
          /\ \A q \in Keys : key'[q] = IF q = k THEN Expand(h, kl) ELSE key[q]
      BY <3>2, <2>6 DEF KeysExpanded, KeysInv
    <3>4. KeysOfChosen'
      BY <2>2, <2>4, <3>1, <3>3 DEF KeysOfChosen
    <3>5. StreamsKeyed'
      BY <2>2, <3>1, <3>3 DEF KeysInv, StreamsKeyed
    <3> QED
      BY <2>3, <3>2, <3>4, <3>5 DEF KeysInv
  <2> QED
    BY <2>2, <2>5, <2>6
<1> QED
  BY <1>2, <1>3

\* What a use of a key adds is what BlocksAreAes asks.
LEMMA UseIsAes ==
  ASSUME KeysInv, NEW k \in Keys, key[k] # NoKey
  PROVE  /\ Reader = aes_hw /\ key[k].by = aes_hw
         /\ Encrypt(aes_hw, key[k]) = UpTo(0, IF key[k].len = 16 THEN 10 ELSE 14)
         /\ build # "none" => Sound(aes_hw)
<1>1. aes_hw # "unset" /\ key[k].by = aes_hw
  BY DEF KeysInv, KeysOfChosen
<1>2. Reader = aes_hw
  BY <1>1 DEF Reader, KeysInv, Statics, Names
<1>3. PICK h \in Names, n \in {16, 32} : key[k] = Expand(h, n)
  BY DEF KeysInv, KeysExpanded
<1>4. /\ Expand(h, n).by = h /\ Expand(h, n).len = n
      /\ Encrypt(h, Expand(h, n)) = UpTo(0, IF n = 16 THEN 10 ELSE 14)
  BY AppliesAll
<1> QED
  BY <1>1, <1>2, <1>3, <1>4 DEF KeysInv, Statics

LEMMA UseStep ==
  ASSUME KeysInv, NEW k \in Keys, key[k] # NoKey, NEW applied,
         applied \in {<<>>, Encrypt(aes_hw, key[k])}, Use(k, aes_hw, applied),
         UNCHANGED machine
  PROVE  BlocksAreAes'
<1> DEFINE u == [len |-> key[k].len, maker |-> key[k].by, reader |-> aes_hw, applied |-> applied]
<1>1. used' = used \cup {u}
  BY DEF Use
<1>2. /\ u.maker = u.reader
      /\ u.applied = <<>> \/ u.applied = UpTo(0, IF u.len = 16 THEN 10 ELSE 14)
      /\ build # "none" => Sound(u.reader)
  BY UseIsAes
<1> HIDE DEF u
<1> QED
  BY <1>1, <1>2 DEF BlocksAreAes, KeysInv, machine, Sound

LEMMA EncryptStep ==
  ASSUME KeysInv, NEW k \in Keys, crypto_aes_encrypt_block(k)
  PROVE  KeysInv'
<1>1. key[k] # NoKey /\ Use(k, aes_hw, Encrypt(aes_hw, key[k])) /\ UNCHANGED machine
  BY UseIsAes DEF crypto_aes_encrypt_block
<1>2. BlocksAreAes'
  BY <1>1, UseStep
<1> QED
  BY <1>2 DEF crypto_aes_encrypt_block, machine, statics, KeysInv, KeysExpanded, Statics,
              KeysOfChosen, StreamsKeyed, Sound

LEMMA FreeStep ==
  ASSUME KeysInv, NEW k \in Keys, crypto_aes_key_free(k)
  PROVE  KeysInv'
<1>1. /\ key[k] # NoKey /\ Use(k, aes_hw, <<>>)
      /\ \A s \in Streams : stream_key[s] # k
      /\ key' = [key EXCEPT ![k] = NoKey]
      /\ UNCHANGED <<build, aes_offered, aes_sound, aes_hw, ctr_hw, stream_key>>
  BY UseIsAes DEF crypto_aes_key_free, machine, statics
<1>2. BlocksAreAes'
  BY <1>1, UseStep DEF machine
<1>3. KeysExpanded' /\ \A q \in Keys : key'[q] = IF q = k THEN NoKey ELSE key[q]
  BY <1>1 DEF KeysInv, KeysExpanded
<1>4. KeysOfChosen'
  BY <1>1, <1>3 DEF KeysInv, KeysOfChosen
<1>5. StreamsKeyed'
  BY <1>1, <1>3 DEF KeysInv, StreamsKeyed
<1> QED
  BY <1>1, <1>2, <1>3, <1>4, <1>5 DEF KeysInv, Statics, Sound

LEMMA StreamInitStep ==
  ASSUME KeysInv, NEW k \in Keys, NEW s \in Streams, crypto_aesctr_init(s, k)
  PROVE  KeysInv'
<1>1. key[k] # NoKey /\ aes_hw # "unset"
  BY DEF crypto_aesctr_init, KeysInv, KeysOfChosen
<1>2. UNCHANGED <<build, aes_offered, aes_sound, key, used, aes_hw>> /\ ctr_hw' \in {ctr_hw, aes_hw}
  <2>1. ASSUME ctr_hw = "unset", NEW h \in aes_hwaccel_init, h # "abort" PROVE h = aes_hw
    BY <1>1, <2>1, ChosenIsSound DEF KeysInv
  <2> QED
    BY <1>1, <2>1 DEF crypto_aesctr_init, machine, statics
<1>3. stream_key' = stream_key \/ stream_key' = [stream_key EXCEPT ![s] = k]
  BY DEF crypto_aesctr_init
<1>4. /\ stream_key' \in [Streams -> Keys \cup {"none"}]
      /\ \A t \in Streams : stream_key'[t] \in {stream_key[t], k}
  BY <1>3 DEF KeysInv
<1>5. StreamsKeyed'
  BY <1>1, <1>2, <1>4 DEF KeysInv, StreamsKeyed
<1>6. Statics' /\ BlocksAreAes' /\ KeysExpanded' /\ KeysOfChosen'
  BY <1>1, <1>2 DEF KeysInv, Statics, BlocksAreAes, KeysExpanded, KeysOfChosen, Sound
<1> QED
  BY <1>4, <1>5, <1>6 DEF KeysInv

LEMMA StreamStep ==
  ASSUME KeysInv, NEW s \in Streams, crypto_aesctr_stream(s)
  PROVE  KeysInv'
<1>1. PICK k \in Keys : k = stream_key[s] /\ key[k] # NoKey
  BY DEF crypto_aesctr_stream, KeysInv, StreamsKeyed
<1>2. Reader = aes_hw
  BY <1>1, UseIsAes
<1>3. ctr_hw \in {"aesni", "arm"} => ctr_hw = aes_hw
  BY DEF KeysInv, Statics
<1>4. Use(k, aes_hw, Encrypt(aes_hw, key[k]))
      /\ UNCHANGED <<machine, statics, aborted, key, stream_key>>
  BY <1>1, <1>2, <1>3 DEF crypto_aesctr_stream
<1>5. BlocksAreAes'
  BY <1>1, <1>4, UseStep
<1> QED
  BY <1>4, <1>5 DEF machine, statics, KeysInv, KeysExpanded, Statics, KeysOfChosen,
                    StreamsKeyed, Sound

LEMMA StreamFreeStep ==
  ASSUME KeysInv, NEW s \in Streams, crypto_aesctr_free(s)
  PROVE  KeysInv'
<1>1. /\ stream_key' = [stream_key EXCEPT ![s] = "none"]
      /\ UNCHANGED <<build, aes_offered, aes_sound, aes_hw, ctr_hw, key, used>>
  BY DEF crypto_aesctr_free, machine, statics
<1>2. /\ stream_key' \in [Streams -> Keys \cup {"none"}]
      /\ \A t \in Streams : stream_key'[t] \in {stream_key[t], "none"}
  BY <1>1 DEF KeysInv
<1>3. StreamsKeyed'
  BY <1>1, <1>2 DEF KeysInv, StreamsKeyed
<1> QED
  BY <1>1, <1>2, <1>3 DEF KeysInv, KeysExpanded, Statics, KeysOfChosen, BlocksAreAes, Sound

\* Every block that any implementation encrypts goes through all the round keys
\* of a key it expanded itself, for any number of keys and streams.
THEOREM KeysAesCorrect == KSpec => []BlocksAreAes
<1>1. KeysInv /\ [KNext]_keyvars => KeysInv'
  <2> SUFFICES ASSUME KeysInv, [KNext]_keyvars PROVE KeysInv'
    OBVIOUS
  <2>1. CASE KNext
    BY <2>1, ExpandStep, EncryptStep, FreeStep, StreamInitStep, StreamStep, StreamFreeStep
       DEF KNext
  <2>2. CASE UNCHANGED keyvars
    BY <2>2 DEF keyvars, machine, statics, KeysInv, KeysExpanded, Statics, KeysOfChosen,
                StreamsKeyed, BlocksAreAes, Sound
  <2> QED
    BY <2>1, <2>2
<1>2. KeysInv => BlocksAreAes
  BY DEF KeysInv
<1> QED
  BY <1>1, <1>2, KeysInitInvariant, PTL DEF KSpec

-----------------------------------------------------------------------------
(***************************************************************************)
(* The parts of Crypto: each of its steps is a step of one part, and the   *)
(* others stand still.                                                     *)
(***************************************************************************)
LEMMA PartsMove ==
  ASSUME [Next]_vars
  PROVE  [ShaNext]_shavars /\ [HNext]_hmacvars /\ [KNext]_keyvars
<1>1. CASE Next
  BY <1>1, Zenon DEF Next
<1>2. CASE UNCHANGED vars
  BY <1>2 DEF vars
<1> QED
  BY <1>1, <1>2

LEMMA PartsSpec == Spec => ShaSpec /\ HSpec /\ KSpec
<1>1. Init => ShaInit /\ HInit /\ KInit
  BY Zenon DEF Init
<1> QED
  BY <1>1, PartsMove, PTL DEF Spec, ShaSpec, HSpec, KSpec

\* In whatever order the parts run, a digest is the hash of the whole message,
\* padded as FIPS 180-4 says: for every block length, every sequence of
\* SHA256_Update and every set of hardware transforms (SHA256_*, sha256.c).
THEOREM DigestCorrect == Spec => []DigestIsOfMessage
BY PartsSpec, ShaDigestCorrect, PTL

\* HMAC_SHA256_Init, _Update and _Final compute RFC 2104's authenticator,
\* for every key length and every way to cut the message.
THEOREM MacCorrect == Spec => []MacIsHmac
BY PartsSpec, HmacMacCorrect, PTL

\* PBKDF2_SHA256 computes RFC 8018's derived key, for every password, salt,
\* number of iterations and length of output.
THEOREM Pbkdf2Correct == Spec => []DkIsPbkdf2
BY PartsSpec, HmacDkCorrect, PTL

\* Every block is AES under the key the caller expanded, whatever hardware
\* code was built in, is offered and is broken, and streams come and go.
THEOREM AesCorrect == Spec => []BlocksAreAes
BY PartsSpec, KeysAesCorrect, PTL

-----------------------------------------------------------------------------
(***************************************************************************)
(* The random generator (Drbg).                                            *)
(***************************************************************************)
\* The number of blocks of an output is a number.
LEMMA BlocksNat ==
  ASSUME NEW n \in Nat
  PROVE  Blocks(n) \in Nat
BY LengthsAssumption DEF Blocks

\* Where a call can be.
PCs == {"idle", "open", "device", "fill", "done", "failed", "mix", "loop"}

\* The numbers that count, and the part of the seed that is filled.
Counts ==
  /\ pc \in PCs /\ instantiated \in BOOLEAN /\ shortSeed \in BOOLEAN
  /\ buflen \in Nat /\ got \in Nat /\ want \in Nat

\* Only a whole seed leaves entropy_read.
WholeSeed == (pc \in {"done", "mix"} => got = want) /\ ~shortSeed

\* The counter counts the outputs since the last seed, once there was one, and
\* the loop only begins after that.
CounterTrue ==
  /\ reseed_counter \in Nat /\ since \in Nat
  /\ instantiated => reseed_counter = since + 1
  /\ since <= RESEED_INTERVAL
  /\ ~instantiated => spent = {}
  /\ pc = "loop" => instantiated

\* Keys grow, so that the present one is none of those that were used.
KeysGrow ==
  /\ Key \in Nat /\ fresh \in Nat /\ Key <= fresh
  /\ \A k \in spent : k \in Nat /\ k < Key

\* The cookie exists only from NewReader to Close, its descriptor from Open on.
ReaderHeld ==
  /\ pc \in {"idle", "open", "mix", "loop"} => ~er
  /\ pc \in {"idle", "open", "device", "mix", "loop"} => fd \in {"none", "closed"}

DrbgInv == Counts /\ WholeSeed /\ CounterTrue /\ KeysGrow /\ ReaderHeld

-----------------------------------------------------------------------------
\* The invariant holds before the first call.
LEMMA DrbgInitInvariant == DrbgInit => DrbgInv
<1> SUFFICES ASSUME DrbgInit PROVE DrbgInv
  OBVIOUS
<1>1. Counts
  BY DEF DrbgInit, Counts, PCs
<1>2. WholeSeed /\ ReaderHeld
  BY DEF DrbgInit, WholeSeed, ReaderHeld
<1>3. CounterTrue
  BY LengthsAssumption DEF DrbgInit, CounterTrue
<1>4. KeysGrow
  BY DEF DrbgInit, KeysGrow
<1> QED
  BY <1>1, <1>2, <1>3, <1>4 DEF DrbgInv

\* A call begins with the loop or, the first time, with a seed.
LEMMA CallPreserves == DrbgInv /\ Call => DrbgInv'
<1> SUFFICES ASSUME DrbgInv, Call PROVE DrbgInv'
  OBVIOUS
<1>1. Counts'
  BY LengthsAssumption DEF DrbgInv, Counts, PCs, Call, generator
<1>2. WholeSeed'
  BY DEF DrbgInv, WholeSeed, Call
<1>3. CounterTrue'
  BY DEF DrbgInv, Counts, CounterTrue, Call, generator
<1>4. KeysGrow'
  BY DEF DrbgInv, KeysGrow, Call, generator
<1>5. ReaderHeld'
  BY DEF DrbgInv, ReaderHeld, Call
<1> QED
  BY <1>1, <1>2, <1>3, <1>4, <1>5 DEF DrbgInv

\* Opening, reading and closing the device leave the generator alone.
LEMMA ReaderLeavesState ==
  ASSUME DrbgInv, NewReader \/ Open \/ Fill \/ CloseAgain \/ Close
  PROVE  CounterTrue' /\ KeysGrow'
<1>1. UNCHANGED <<generator, history>> /\ pc' # "loop"
  BY DEF NewReader, Open, Fill, CloseAgain, Close, Goto, Return
<1> QED
  BY <1>1 DEF DrbgInv, CounterTrue, KeysGrow, generator, history

\* The steps of entropy_read preserve the invariant.
LEMMA ReaderPreserves ==
  ASSUME DrbgInv, NewReader \/ Open \/ Fill \/ CloseAgain \/ Close
  PROVE  DrbgInv'
<1>1. CounterTrue' /\ KeysGrow'
  BY ReaderLeavesState
<1>2. CASE NewReader \/ Open
  BY <1>1, <1>2
     DEF NewReader, Open, Goto, Return, DrbgInv, Counts, PCs, WholeSeed, ReaderHeld, generator, history
<1>3. CASE Fill
  <2>1. CASE \E n \in 1..(want - got) :
               got' = got + n /\ Goto(IF Filled(got') THEN "done" ELSE "fill")
    <3>1. PICK n \in 1..(want - got) :
            got' = got + n /\ Goto(IF Filled(got') THEN "done" ELSE "fill")
      BY <2>1
    <3>2. got + n \in Nat
      BY <3>1 DEF DrbgInv, Counts
    <3> QED
      BY <1>1, <1>3, <3>1, <3>2
         DEF Fill, Filled, Goto, DrbgInv, Counts, PCs, WholeSeed, ReaderHeld, generator, history
  <2>2. CASE UNCHANGED got /\ Goto("failed")
    BY <1>1, <1>3, <2>2
       DEF Fill, Goto, DrbgInv, Counts, PCs, WholeSeed, ReaderHeld, generator, history
  <2> QED
    BY <1>3, <2>1, <2>2 DEF Fill
<1>4. CASE CloseAgain
  BY <1>1, <1>4
     DEF CloseAgain, DrbgInv, Counts, PCs, WholeSeed, ReaderHeld, generator, history
<1>5. CASE Close
  <2>1. PICK ok \in BOOLEAN :
          fd' = "closed" /\ FreesReader(ok)
          /\ IF ok /\ pc = "done" THEN Goto("mix") ELSE Return("error")
    BY <1>5 DEF Close
  <2> QED
    BY <1>1, <1>5, <2>1
       DEF Close, FreesReader, Goto, Return, DrbgInv, Counts, PCs, WholeSeed, ReaderHeld,
           generator, history
<1> QED
  BY <1>2, <1>3, <1>4, <1>5

\* Mixing in a whole seed resets the counter and makes a new Key.
LEMMA MixPreserves == DrbgInv /\ Mix => DrbgInv'
<1> SUFFICES ASSUME DrbgInv, Mix PROVE DrbgInv'
  OBVIOUS
<1>1. Counts'
  BY DEF DrbgInv, Counts, PCs, Mix, Goto, reader, WholeSeed
<1>2. WholeSeed'
  BY DEF DrbgInv, WholeSeed, Counts, Mix, Goto
<1>3. CounterTrue'
  BY LengthsAssumption DEF DrbgInv, CounterTrue, Mix, Goto
<1>4. KeysGrow'
  <2>1. PICK rdrand \in {FALSE, Rdrand} : Updated(MixRounds(rdrand))
    BY DEF Mix
  <2>2. PICK n \in {2, 4} : n = MixRounds(rdrand)
    BY DEF MixRounds
  <2>3. Key' = fresh + 2 * n - 1 /\ fresh' = fresh + 2 * n /\ spent' = spent
    BY <2>1, <2>2 DEF Updated, Mix
  <2> QED
    BY <2>3 DEF DrbgInv, KeysGrow
<1>5. ReaderHeld'
  BY DEF DrbgInv, ReaderHeld, Mix, Goto, reader
<1> QED
  BY <1>1, <1>2, <1>3, <1>4, <1>5 DEF DrbgInv

\* An output uses a Key up and ends with a later one.
LEMMA GeneratePreserves == DrbgInv /\ Generate => DrbgInv'
<1> SUFFICES ASSUME DrbgInv, Generate PROVE DrbgInv'
  OBVIOUS
<1>1. bytes_to_provide \in Nat /\ bytes_to_provide <= buflen
  BY LengthsAssumption DEF DrbgInv, Counts, bytes_to_provide
<1>2. Counts'
  BY <1>1 DEF DrbgInv, Counts, PCs, Generate, reader
<1>3. WholeSeed'
  BY DEF DrbgInv, WholeSeed, Generate
<1>4. CounterTrue'
  <2>1. instantiated /\ reseed_counter = since + 1 /\ reseed_counter <= RESEED_INTERVAL
    BY LengthsAssumption DEF DrbgInv, CounterTrue, Generate, NeedsReseed
  <2> QED
    BY <2>1, LengthsAssumption DEF DrbgInv, CounterTrue, Generate
<1>5. KeysGrow'
  <2>1. PICK k \in Nat : k = Blocks(bytes_to_provide)
    BY <1>1, BlocksNat
  <2>2. Key' = fresh + k + 1 /\ fresh' = fresh + k + 2 /\ spent' = spent \cup {Key}
    BY <2>1 DEF Generate, EndsWithUpdate
  <2>3. \A q \in spent' : q \in Nat /\ q < fresh + k + 1
    BY <2>2 DEF DrbgInv, KeysGrow
  <2> QED
    BY <2>2, <2>3 DEF DrbgInv, KeysGrow
<1>6. ReaderHeld'
  BY DEF DrbgInv, ReaderHeld, Generate, reader
<1> QED
  BY <1>2, <1>3, <1>4, <1>5, <1>6 DEF DrbgInv

\* Asking for another seed, or returning, changes nothing of the generator.
LEMMA LoopPreserves == DrbgInv /\ (Reseed \/ Finish) => DrbgInv'
<1> SUFFICES ASSUME DrbgInv, Reseed \/ Finish PROVE DrbgInv'
  OBVIOUS
<1>1. Counts'
  BY LengthsAssumption DEF DrbgInv, Counts, PCs, Reseed, Finish, Goto, Return, generator,
     reader, history
<1>2. WholeSeed' /\ CounterTrue' /\ KeysGrow' /\ ReaderHeld'
  BY DEF DrbgInv, WholeSeed, CounterTrue, KeysGrow, ReaderHeld, Reseed, Finish, Goto,
     Return,
         generator, reader, history
<1> QED
  BY <1>1, <1>2 DEF DrbgInv

\* The invariant is inductive.
THEOREM DrbgInvariant == DrbgSpec => []DrbgInv
<1>1. DrbgInv /\ [DrbgNext]_drbgvars => DrbgInv'
  <2> SUFFICES ASSUME DrbgInv, [DrbgNext]_drbgvars PROVE DrbgInv'
    OBVIOUS
  <2>1. CASE DrbgNext
    BY <2>1, CallPreserves, ReaderPreserves, MixPreserves, GeneratePreserves, LoopPreserves
       DEF DrbgNext, Steps
  <2>2. CASE UNCHANGED drbgvars
    BY <2>2 DEF drbgvars, generator, reader, history, DrbgInv, Counts, PCs, WholeSeed,
       CounterTrue,
                KeysGrow, ReaderHeld
  <2> QED
    BY <2>1, <2>2
<1> QED
  BY <1>1, DrbgInitInvariant, PTL DEF DrbgSpec

-----------------------------------------------------------------------------
\* Every output comes from a state that a whole seed was mixed into, at most
\* RESEED_INTERVAL outputs earlier, for every interval and length of a seed.
THEOREM Seeded == DrbgSpec => []OutputIsSeeded
<1>1. DrbgInv => OutputIsSeeded
  BY DEF DrbgInv, WholeSeed, CounterTrue, Counts, OutputIsSeeded
<1> QED
  BY <1>1, DrbgInvariant, PTL

\* The Key left between two calls made none of the outputs before.
THEOREM NotRecoverable == DrbgSpec => []OutputNotRecoverable
<1>1. DrbgInv => OutputNotRecoverable
  BY DEF DrbgInv, KeysGrow, OutputNotRecoverable
<1> QED
  BY <1>1, DrbgInvariant, PTL

\* No call leaves the entropy device open or its cookie allocated.
THEOREM Released == DrbgSpec => []ReaderReleased
<1>1. DrbgInv => ReaderReleased
  BY DEF DrbgInv, ReaderHeld, ReaderReleased
<1> QED
  BY <1>1, DrbgInvariant, PTL
=============================================================================
