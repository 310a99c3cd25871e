------------------------------ MODULE Kdf_proofs ------------------------------
(***************************************************************************)
(* For every request and every chunk function: what crypto_scrypt derives  *)
(* is what the reference implementation derives, although smix takes two   *)
(* turns at once over two buffers and its code is chosen by a test; and    *)
(* what a computation allocates it frees, once, by whichever label it ends. *)
(***************************************************************************)
EXTENDS Kdf, WellFoundedInduction, TLAPS

\* Induction, stated of a set: a set that holds 0 and with n also n + 1 holds
\* every number, or there were a least number outside.
Below == {q \in Nat \X Nat : q[1] < q[2]}
LEMMA Induction ==
  ASSUME NEW S, 0 \in S, \A n \in Nat : n \in S => n + 1 \in S
  PROVE  \A n \in Nat : n \in S
<1>1. IsWellFoundedOn(Below, Nat)
  BY NatLessThanWellFounded DEF OpToRel, Below
<1> DEFINE Outside == Nat \ S
<1>2. SUFFICES ASSUME Outside # {} PROVE FALSE
  OBVIOUS
<1>3. PICK x \in Outside : \A y \in Outside : ~(<<y, x>> \in Below)
  BY <1>1, <1>2, WFMin
<1>4. x \in Nat /\ x # 0 /\ x - 1 \in Nat /\ x = (x - 1) + 1
  OBVIOUS
<1>5. x - 1 \in Outside
  BY <1>4
<1>6. <<x - 1, x>> \in Below
  BY <1>4 DEF Below
<1> QED
  BY <1>3, <1>5, <1>6

-----------------------------------------------------------------------------
(***************************************************************************)
(* The recursive functions of the reference, unfolded.                     *)
(***************************************************************************)
All == Requests \cup {TestCase}
Blocks(r) == [0..(2 * r - 1) -> Chunks]

LEMMA OnceIs == ASSUME NEW x PROVE Once(x) = x
BY DEF Once

\* The blocks of the first loop, S[0..N], and those of the second, T[0..N].
Filled(b, q) == CHOOSE S : S = [k \in 0..q.N |-> IF k = 0 THEN b ELSE RefBlockMix(S[k - 1], q.r)]
Turned(b, q) ==
  LET S == RefFill(b, q)
      T[k \in 0..q.N] ==
        IF k = 0 THEN S[q.N]
        ELSE CHOOSE y \in {RefTurn(x, S, q) : x \in {T[k - 1]}} : TRUE
  IN T

LEMMA RefNames ==
  ASSUME NEW b, NEW q
  PROVE  RefFill(b, q) = Filled(b, q) /\ RefSmix(b, q) = Turned(b, q)[q.N]
<1>1. RefFill(b, q) = Filled(b, q)
  BY OnceIs DEF RefFill, Filled
<1>2. RefSmix(b, q) = Turned(b, q)[q.N]
  BY Zenon DEF RefSmix, Turned
<1> QED
  BY <1>1, <1>2

\* The recursions take one of these turns.
Turn(how, x, k) == CASE how.kind = "salsa" -> Salsa(Xor(x, how.b[k - 1]))
                     [] how.kind = "pair" ->
                          Salsa(Xor(Salsa(Xor(x, how.b[2 * (k - 1)])), how.b[2 * (k - 1) + 1]))
                     [] how.kind = "fill" -> RefBlockMix(x, how.q.r)
                     [] OTHER -> RefTurn(x, how.S, how.q)

Taken(g, how, a, last) == g = [k \in 0..last |-> IF k = 0 THEN a ELSE Turn(how, g[k - 1], k)]

\* A function that is defined by one turn after the other exists.
LEMMA Recursion ==
  ASSUME NEW how, NEW a, NEW last \in Nat
  PROVE  \E g : Taken(g, how, a, last)
<1> DEFINE e(g, k) == IF k = 0 THEN a ELSE Turn(how, g[k - 1], k)
           Is(g, n) == g = [k \in 0..n |-> e(g, k)]
           Done == {n \in Nat : \E g : Is(g, n)}
<1>1. 0 \in Done
  <2> DEFINE g == [k \in 0..0 |-> a]
  <2>1. g = [k \in 0..0 |-> e(g, k)]
    OBVIOUS
  <2> QED
    BY <2>1
<1>2. ASSUME NEW n \in Nat, n \in Done PROVE n + 1 \in Done
  <2>1. PICK g : Is(g, n)
    BY <1>2
  <2> DEFINE h == [k \in 0..(n + 1) |-> IF k = n + 1 THEN e(g, n + 1) ELSE g[k]]
  <2>2. ASSUME NEW k \in 0..(n + 1) PROVE h[k] = e(h, k)
    <3>1. CASE k = n + 1
      <4>1. h[k] = e(g, n + 1) /\ n + 1 # 0 /\ n \in 0..(n + 1) /\ n # n + 1 /\ (n + 1) - 1 = n
        BY <3>1
      <4>2. h[n] = g[n]
        BY <4>1
      <4> HIDE DEF h
      <4> QED
        BY <3>1, <4>1, <4>2
    <3>2. CASE k # n + 1
      <4>1. k \in 0..n /\ h[k] = g[k]
        BY <3>2
      <4>2. g[k] = e(g, k)
        BY <2>1, <4>1, Zenon
      <4>3. CASE k = 0
        BY <4>1, <4>2, <4>3
      <4>4. CASE k # 0
        <5>1. k - 1 \in 0..(n + 1) /\ k - 1 # n + 1
          BY <4>1, <4>4
        <5>2. h[k - 1] = g[k - 1]
          BY <5>1
        <5> HIDE DEF h
        <5> QED
          BY <4>1, <4>2, <4>4, <5>2
      <4> QED
        BY <4>3, <4>4
    <3> QED
      BY <3>1, <3>2
  <2>3. h = [k \in 0..(n + 1) |-> e(h, k)]
    BY <2>2
  <2>4. n + 1 \in Nat
    OBVIOUS
  <2> HIDE DEF h
  <2> QED
    BY <2>3, <2>4
<1>3. \A n \in Nat : n \in Done
  <2> HIDE DEF Done
  <2> QED
    BY <1>1, <1>2, Induction
<1> QED
  BY <1>3 DEF Taken

\* blockmix_salsa8's X.
LEMMA ChainUnfold ==
  ASSUME NEW b, NEW r \in Nat
  PROVE  Chain(b, r) = [k \in 0..(2 * r) |->
           IF k = 0 THEN b[2 * r - 1] ELSE Salsa(Xor(Chain(b, r)[k - 1], b[k - 1]))]
<1> DEFINE how == [kind |-> "salsa", b |-> b]
<1>1. \A x, k : Turn(how, x, k) = Salsa(Xor(x, b[k - 1]))
  BY DEF Turn
<1>2. 2 * r \in Nat
  OBVIOUS
<1> HIDE DEF how
<1>3. PICK g : Taken(g, how, b[2 * r - 1], 2 * r)
  BY <1>2, Recursion
<1>4. g = [k \in 0..(2 * r) |-> IF k = 0 THEN b[2 * r - 1] ELSE Salsa(Xor(g[k - 1], b[k - 1]))]
  BY <1>1, <1>3 DEF Taken
<1> QED
  BY <1>4, Zenon DEF Chain

LEMMA PairsUnfold ==
  ASSUME NEW b, NEW r \in Nat
  PROVE  Pairs(b, r) = [k \in 0..r |->
           IF k = 0 THEN b[2 * r - 1]
           ELSE Salsa(Xor(Salsa(Xor(Pairs(b, r)[k - 1], b[2 * (k - 1)])), b[2 * (k - 1) + 1]))]
<1> DEFINE how == [kind |-> "pair", b |-> b]
<1>1. \A x, k : Turn(how, x, k) = Salsa(Xor(Salsa(Xor(x, b[2 * (k - 1)])), b[2 * (k - 1) + 1]))
  BY DEF Turn
<1> HIDE DEF how
<1>2. PICK g : Taken(g, how, b[2 * r - 1], r)
  BY Recursion
<1>3. g = [k \in 0..r |->
        IF k = 0 THEN b[2 * r - 1]
        ELSE Salsa(Xor(Salsa(Xor(g[k - 1], b[2 * (k - 1)])), b[2 * (k - 1) + 1]))]
  BY <1>1, <1>2 DEF Taken
<1> QED
  BY <1>3, Zenon DEF Pairs

\* A turn of the unrolled loop is two of the reference's.
LEMMA PairsAreChain ==
  ASSUME NEW b, NEW r \in Nat \ {0}
  PROVE  /\ \A k \in 0..r : Pairs(b, r)[k] = Chain(b, r)[2 * k]
         /\ \A k \in 0..(2 * r - 1) : Chain(b, r)[k + 1] = Salsa(Xor(Chain(b, r)[k], b[k]))
<1> DEFINE H == Chain(b, r)
           P == Pairs(b, r)
           Done == {n \in Nat : n <= r => P[n] = H[2 * n]}
<1>1. H = [k \in 0..(2 * r) |-> IF k = 0 THEN b[2 * r - 1] ELSE Salsa(Xor(H[k - 1], b[k - 1]))]
  BY ChainUnfold
<1>2. P = [k \in 0..r |->
        IF k = 0 THEN b[2 * r - 1]
        ELSE Salsa(Xor(Salsa(Xor(P[k - 1], b[2 * (k - 1)])), b[2 * (k - 1) + 1]))]
  BY PairsUnfold
<1> HIDE DEF H, P
<1>3. ASSUME NEW k \in 0..(2 * r - 1) PROVE H[k + 1] = Salsa(Xor(H[k], b[k]))
  <2>1. k + 1 \in 0..(2 * r) /\ k + 1 # 0 /\ (k + 1) - 1 = k
    OBVIOUS
  <2> QED
    BY <1>1, <2>1, Zenon
<1>4. 0 \in Done
  <2>1. 0 \in 0..r /\ 0 \in 0..(2 * r) /\ 2 * 0 = 0
    OBVIOUS
  <2>2. P[0] = b[2 * r - 1]
    BY <1>2, <2>1, Zenon
  <2>3. H[0] = b[2 * r - 1]
    BY <1>1, <2>1, Zenon
  <2> QED
    BY <2>1, <2>2, <2>3
<1>5. ASSUME NEW n \in Nat, n \in Done PROVE n + 1 \in Done
  <2>1. SUFFICES ASSUME n + 1 <= r PROVE P[n + 1] = H[2 * (n + 1)]
    OBVIOUS
  <2>2. /\ n + 1 \in 0..r /\ n + 1 # 0 /\ (n + 1) - 1 = n /\ n <= r
        /\ 2 * n \in 0..(2 * r - 1) /\ 2 * n + 1 \in 0..(2 * r - 1)
        /\ 2 * (n + 1) = (2 * n + 1) + 1
    BY <2>1
  <2>3. P[n + 1] = Salsa(Xor(Salsa(Xor(P[n], b[2 * n])), b[2 * n + 1]))
    BY <1>2, <2>2, Zenon
  <2>4. P[n] = H[2 * n]
    BY <1>5, <2>2
  <2>5. H[2 * n + 1] = Salsa(Xor(H[2 * n], b[2 * n]))
    BY <1>3, <2>2
  <2>6. H[(2 * n + 1) + 1] = Salsa(Xor(H[2 * n + 1], b[2 * n + 1]))
    BY <1>3, <2>2
  <2> QED
    BY <2>2, <2>3, <2>4, <2>5, <2>6, Zenon
<1>6. \A n \in Nat : n \in Done
  <2> HIDE DEF Done
  <2> QED
    BY <1>4, <1>5, Induction
<1>7. \A k \in 0..r : P[k] = H[2 * k]
  BY <1>6
<1> QED
  BY <1>3, <1>7 DEF H, P

\* The generic and the SSE2 blockmix_salsa8 compute what the reference's does.
LEMMA BlockMixIsRef ==
  ASSUME NEW b, NEW r \in Nat \ {0}
  PROVE  BlockMix(b, r) = RefBlockMix(b, r)
<1> DEFINE H == Chain(b, r)
           P == Pairs(b, r)
<1>1. BlockMix(b, r) = [c \in 0..(2 * r - 1) |->
        IF c < r THEN Salsa(Xor(P[c], b[2 * c])) ELSE P[c - r + 1]]
  BY OnceIs, Zenon DEF BlockMix
<1>2. RefBlockMix(b, r) = [c \in 0..(2 * r - 1) |->
        H[IF c < r THEN 2 * c + 1 ELSE 2 * (c - r) + 2]]
  BY OnceIs, Zenon DEF RefBlockMix
<1>3. /\ \A k \in 0..r : P[k] = H[2 * k]
      /\ \A k \in 0..(2 * r - 1) : H[k + 1] = Salsa(Xor(H[k], b[k]))
  BY PairsAreChain
<1> HIDE DEF H, P
<1>4. ASSUME NEW c \in 0..(2 * r - 1)
      PROVE  (IF c < r THEN Salsa(Xor(P[c], b[2 * c])) ELSE P[c - r + 1])
               = H[IF c < r THEN 2 * c + 1 ELSE 2 * (c - r) + 2]
  <2>1. CASE c < r
    <3>1. c \in 0..r /\ 2 * c \in 0..(2 * r - 1)
      BY <2>1
    <3>2. P[c] = H[2 * c] /\ H[2 * c + 1] = Salsa(Xor(H[2 * c], b[2 * c]))
      BY <1>3, <3>1
    <3> QED
      BY <2>1, <3>2, Zenon
  <2>2. CASE ~(c < r)
    <3>1. c - r + 1 \in 0..r /\ 2 * (c - r + 1) = 2 * (c - r) + 2
      BY <2>2
    <3>2. P[c - r + 1] = H[2 * (c - r) + 2]
      BY <1>3, <3>1
    <3> QED
      BY <2>2, <3>2, Zenon
  <2> QED
    BY <2>1, <2>2
<1> QED
  BY <1>1, <1>2, <1>4, Zenon

\* S of the reference.
LEMMA FillUnfold ==
  ASSUME NEW b, NEW q, q.N \in Nat
  PROVE  RefFill(b, q) = [k \in 0..q.N |-> IF k = 0 THEN b ELSE RefBlockMix(RefFill(b, q)[k - 1], q.r)]
<1> DEFINE how == [kind |-> "fill", q |-> q]
<1>1. \A x, k : Turn(how, x, k) = RefBlockMix(x, q.r)
  BY DEF Turn
<1> HIDE DEF how
<1>3. PICK g : Taken(g, how, b, q.N)
  BY Recursion
<1>4. g = [k \in 0..q.N |-> IF k = 0 THEN b ELSE RefBlockMix(g[k - 1], q.r)]
  BY <1>1, <1>3 DEF Taken
<1>5. Filled(b, q) = [k \in 0..q.N |-> IF k = 0 THEN b ELSE RefBlockMix(Filled(b, q)[k - 1], q.r)]
  BY <1>4, Zenon DEF Filled
<1> QED
  BY <1>5, RefNames

\* T of the reference.
LEMMA MixUnfold ==
  ASSUME NEW b, NEW q, q.N \in Nat
  PROVE  Turned(b, q) = [k \in 0..q.N |->
           IF k = 0 THEN RefFill(b, q)[q.N] ELSE RefTurn(Turned(b, q)[k - 1], RefFill(b, q), q)]
<1> DEFINE S == RefFill(b, q)
           how == [kind |-> "mix", S |-> S, q |-> q]
<1>1. \A x, k : Turn(how, x, k) = RefTurn(x, S, q)
  BY DEF Turn
<1>2. \A t : (CHOOSE y \in {RefTurn(x, S, q) : x \in {t}} : TRUE) = RefTurn(t, S, q)
  <2> TAKE t
  <2>1. {RefTurn(x, S, q) : x \in {t}} = {RefTurn(t, S, q)}
    BY Zenon
  <2> QED
    BY <2>1, OnceIs, Zenon DEF Once
<1> HIDE DEF how
<1> DEFINE Turn2(g, k) == CHOOSE y \in {RefTurn(x, S, q) : x \in {g[k - 1]}} : TRUE
<1>3. PICK g : Taken(g, how, S[q.N], q.N)
  BY Recursion
<1>4. g = [k \in 0..q.N |-> IF k = 0 THEN S[q.N] ELSE Turn2(g, k)]
  <2>1. \A k : Turn2(g, k) = Turn(how, g[k - 1], k)
    BY <1>1, <1>2, Zenon
  <2> HIDE DEF Turn2
  <2> QED
    BY <1>3, <2>1 DEF Taken
<1>5. Turned(b, q) = [k \in 0..q.N |->
        IF k = 0 THEN S[q.N] ELSE CHOOSE y \in {RefTurn(x, S, q) : x \in {Turned(b, q)[k - 1]}} : TRUE]
  BY <1>4, Zenon DEF Turned
<1> HIDE DEF S
<1>6. Turned(b, q) = [k \in 0..q.N |-> IF k = 0 THEN S[q.N] ELSE RefTurn(Turned(b, q)[k - 1], S, q)]
  BY <1>2, <1>5, Zenon
<1> QED
  BY <1>6, Zenon DEF S

\* A block of chunks stays one.
LEMMA Lengths ==
  ASSUME NEW q \in All
  PROVE  q.N \in Nat /\ q.N >= 2 /\ q.N % 2 = 0 /\ q.r \in Nat \ {0} /\ q.p \in Nat \ {0}
BY RequestsAssumption DEF All

LEMMA ChainTyped ==
  ASSUME NEW r \in Nat \ {0}, NEW b \in Blocks(r)
  PROVE  \A k \in 0..(2 * r) : Chain(b, r)[k] \in Chunks
<1> DEFINE H == Chain(b, r)
           last == 2 * r
           Done == {n \in Nat : n <= last => H[n] \in Chunks}
<1>1. H = [k \in 0..last |-> IF k = 0 THEN b[last - 1] ELSE Salsa(Xor(H[k - 1], b[k - 1]))]
  BY ChainUnfold
<1>2. last \in Nat /\ last - 1 \in 0..(last - 1)
  OBVIOUS
<1>3. \A k \in 0..(last - 1) : b[k] \in Chunks
  BY DEF Blocks
<1> HIDE DEF H, last
<1>4. 0 \in Done
  <2>1. H[0] = b[last - 1]
    BY <1>1, <1>2
  <2> QED
    BY <1>2, <1>3, <2>1
<1>5. ASSUME NEW n \in Nat, n \in Done PROVE n + 1 \in Done
  <2>1. SUFFICES ASSUME n + 1 <= last PROVE H[n + 1] \in Chunks
    OBVIOUS
  <2>2. n + 1 \in 0..last /\ n + 1 # 0 /\ (n + 1) - 1 = n /\ n <= last /\ n \in 0..(last - 1)
    BY <1>2, <2>1
  <2>3. H[n + 1] = Salsa(Xor(H[n], b[n]))
    BY <1>1, <2>2, Zenon
  <2>4. H[n] \in Chunks /\ b[n] \in Chunks
    BY <1>3, <1>5, <2>2
  <2> QED
    BY <2>3, <2>4, ChunksAssumption, Zenon
<1>6. \A n \in Nat : n \in Done
  <2> HIDE DEF Done
  <2> QED
    BY <1>4, <1>5, Induction
<1>7. \A k \in 0..last : H[k] \in Chunks
  BY <1>2, <1>6
<1> QED
  BY <1>7 DEF H, last

LEMMA RefBlockMixTyped ==
  ASSUME NEW r \in Nat \ {0}, NEW b \in Blocks(r)
  PROVE  RefBlockMix(b, r) \in Blocks(r)
<1>1. RefBlockMix(b, r) = [c \in 0..(2 * r - 1) |-> Chain(b, r)[IF c < r THEN 2 * c + 1 ELSE 2 * (c - r) + 2]]
  BY OnceIs, Zenon DEF RefBlockMix
<1>2. ASSUME NEW c \in 0..(2 * r - 1)
      PROVE  Chain(b, r)[IF c < r THEN 2 * c + 1 ELSE 2 * (c - r) + 2] \in Chunks
  <2>1. (IF c < r THEN 2 * c + 1 ELSE 2 * (c - r) + 2) \in 0..(2 * r)
    OBVIOUS
  <2> QED
    BY <2>1, ChainTyped
<1> QED
  BY <1>1, <1>2 DEF Blocks

LEMMA BlkXorTyped ==
  ASSUME NEW r \in Nat \ {0}, NEW x \in Blocks(r), NEW y \in Blocks(r)
  PROVE  BlkXor(x, y) \in Blocks(r)
<1>1. BlkXor(x, y) = [c \in DOMAIN x |-> Xor(x[c], y[c])]
  BY OnceIs, Zenon DEF BlkXor
<1>2. \A c \in 0..(2 * r - 1) : Xor(x[c], y[c]) \in Chunks
  BY ChunksAssumption DEF Blocks
<1> QED
  BY <1>1, <1>2 DEF Blocks

LEMMA ExpandedTyped ==
  ASSUME NEW q \in All, NEW k \in 0..(q.p - 1)
  PROVE  Expanded(q)[k] \in Blocks(q.r)
BY ChunksAssumption DEF Expanded, Blocks, All

\* j is one of the blocks of V.
LEMMA IndexTyped ==
  ASSUME NEW q \in All, NEW x \in Blocks(q.r)
  PROVE  Integerify(x, q) % q.N \in 0..(q.N - 1)
<1>1. 2 * q.r - 1 \in 0..(2 * q.r - 1)
  BY Lengths
<1>2. x[2 * q.r - 1] \in Chunks
  BY <1>1 DEF Blocks
<1>3. x[2 * q.r - 1] \in Int
  <2>1. M \in Nat
    BY ChunksAssumption
  <2> QED
    BY <1>2, <2>1 DEF Chunks
<1> QED
  BY <1>3, Lengths DEF Integerify

LEMMA FillTurns ==
  ASSUME NEW q \in All, NEW b \in Blocks(q.r)
  PROVE  /\ RefFill(b, q)[0] = b
         /\ \A k \in 1..q.N : RefFill(b, q)[k] = RefBlockMix(RefFill(b, q)[k - 1], q.r)
         /\ \A k \in 0..q.N : RefFill(b, q)[k] \in Blocks(q.r)
<1> DEFINE S == RefFill(b, q)
           last == q.N
           D == Blocks(q.r)
           Done == {n \in Nat : n <= last => S[n] \in D}
<1>1. last \in Nat /\ q.r \in Nat \ {0}
  BY Lengths
<1>2. S = [k \in 0..last |-> IF k = 0 THEN b ELSE RefBlockMix(S[k - 1], q.r)]
  BY <1>1, FillUnfold
<1>3. \A x \in D : RefBlockMix(x, q.r) \in D
  BY <1>1, RefBlockMixTyped
<1> HIDE DEF S, last, D
<1>4. S[0] = b
  BY <1>1, <1>2
<1>5. ASSUME NEW k \in 1..last PROVE S[k] = RefBlockMix(S[k - 1], q.r)
  <2>1. k \in 0..last /\ k # 0
    BY <1>1
  <2> QED
    BY <1>2, <2>1, Zenon
<1>6. 0 \in Done
  BY <1>4 DEF D
<1>7. ASSUME NEW n \in Nat, n \in Done PROVE n + 1 \in Done
  <2>1. SUFFICES ASSUME n + 1 <= last PROVE S[n + 1] \in D
    OBVIOUS
  <2>2. n + 1 \in 1..last /\ (n + 1) - 1 = n /\ n <= last
    BY <1>1, <2>1
  <2>3. S[n + 1] = RefBlockMix(S[n], q.r)
    BY <1>5, <2>2, Zenon
  <2> QED
    BY <1>3, <1>7, <2>2, <2>3
<1>8. \A n \in Nat : n \in Done
  <2> HIDE DEF Done
  <2> QED
    BY <1>6, <1>7, Induction
<1>9. \A k \in 0..last : S[k] \in D
  BY <1>1, <1>8
<1> QED
  BY <1>4, <1>5, <1>9 DEF S, last, D

LEMMA MixTurns ==
  ASSUME NEW q \in All, NEW b \in Blocks(q.r)
  PROVE  /\ Turned(b, q)[0] = RefFill(b, q)[q.N]
         /\ \A k \in 1..q.N : Turned(b, q)[k] = RefTurn(Turned(b, q)[k - 1], RefFill(b, q), q)
         /\ \A k \in 0..q.N : Turned(b, q)[k] \in Blocks(q.r)
<1> DEFINE S == RefFill(b, q)
           T == Turned(b, q)
           last == q.N
           D == Blocks(q.r)
           Done == {n \in Nat : n <= last => T[n] \in D}
<1>1. last \in Nat /\ q.r \in Nat \ {0}
  BY Lengths
<1>2. T = [k \in 0..last |-> IF k = 0 THEN S[last] ELSE RefTurn(T[k - 1], S, q)]
  BY <1>1, MixUnfold
<1>3. \A k \in 0..last : S[k] \in D
  BY FillTurns
<1>4. ASSUME NEW x \in D PROVE RefTurn(x, S, q) \in D
  <2>1. Integerify(x, q) % q.N \in 0..last
    BY <1>1, IndexTyped
  <2>2. BlkXor(x, S[Integerify(x, q) % q.N]) \in D
    BY <1>1, <1>3, <2>1, BlkXorTyped
  <2> QED
    BY <1>1, <2>2, RefBlockMixTyped DEF RefTurn
<1> HIDE DEF S, T, last, D
<1>5. T[0] = S[last]
  BY <1>1, <1>2
<1>6. ASSUME NEW k \in 1..last PROVE T[k] = RefTurn(T[k - 1], S, q)
  <2>1. k \in 0..last /\ k # 0
    BY <1>1
  <2> QED
    BY <1>2, <2>1, Zenon
<1>7. 0 \in Done
  BY <1>1, <1>3, <1>5
<1>8. ASSUME NEW n \in Nat, n \in Done PROVE n + 1 \in Done
  <2>1. SUFFICES ASSUME n + 1 <= last PROVE T[n + 1] \in D
    OBVIOUS
  <2>2. n + 1 \in 1..last /\ (n + 1) - 1 = n /\ n <= last
    BY <1>1, <2>1
  <2>3. T[n + 1] = RefTurn(T[n], S, q)
    BY <1>6, <2>2, Zenon
  <2> QED
    BY <1>4, <1>8, <2>2, <2>3
<1>9. \A n \in Nat : n \in Done
  <2> HIDE DEF Done
  <2> QED
    BY <1>7, <1>8, Induction
<1>10. \A k \in 0..last : T[k] \in D
  BY <1>1, <1>9
<1> QED
  BY <1>5, <1>6, <1>10 DEF S, T, last, D

-----------------------------------------------------------------------------
(***************************************************************************)
(* What is true of every state.                                            *)
(***************************************************************************)
\* The implementation that was chosen computes what it should; a test is of
\* the test case, and a request is of what was asked for.
Chosen ==
  /\ par \in All /\ request \in All
  /\ job \in {"none", "test_sse2", "test_generic", "sse2", "generic"}
  /\ smix_func # "unset" => smix_func \in works \cap {"sse2", "generic"}
  /\ job \in {"sse2", "generic"} => smix_func = job /\ par = request
  /\ testing => smix_func = "unset" /\ par = TestCase /\ pc # "idle"

\* The first n blocks are mixed.
Partly(q, n) ==
  [k \in 0..(q.p - 1) |-> IF k < n THEN RefSmix(Expanded(q)[k], q) ELSE Expanded(q)[k]]
Loaded == pc \in {"load", "fill", "mix", "store"} =>
  /\ blk \in 0..(par.p - 1) /\ B = Partly(par, blk)
  /\ DOMAIN V = 0..(par.N - 1)

Block == Expanded(par)[blk]
\* Two turns of the unrolled loops are two turns of the reference's.
TwoTurns == i \in 0..par.N /\ i % 2 = 0
Filling == pc = "fill" =>
  /\ TwoTurns /\ X = RefFill(Block, par)[i]
  /\ \A k \in 0..(i - 1) : V[k] = RefFill(Block, par)[k]
Mixing == pc = "mix" =>
  /\ TwoTurns /\ X = Turned(Block, par)[i]
  /\ \A k \in 0..(par.N - 1) : V[k] = RefFill(Block, par)[k]
Mixed == pc = "store" => X = RefSmix(Block, par)
AllMixed == pc = "derive" => B = RefScrypt(par)
Ended == pc \in {"free", "end"} /\ rc = "OK" =>
  dk = IF impl \in works THEN RefScrypt(par) ELSE <<"wrong">>

\* What is held at each place.
Holds(b, xy, v) == mem.B \in b /\ mem.XY \in xy /\ mem.V \in v
Memory ==
  /\ mem \in [{"B", "XY", "V"} -> {"none", "held", "freed"}]
  /\ pc = "alloc_B" => Holds({"none"}, {"none"}, {"none"})
  /\ pc = "alloc_XY" => Holds({"held"}, {"none"}, {"none"})
  /\ pc = "alloc_V" => Holds({"held"}, {"held"}, {"none"})
  /\ pc \in {"expand", "load", "fill", "mix", "store", "derive"} =>
       Holds({"held"}, {"held"}, {"held"})
  /\ pc = "free" => Holds({"held"}, {"held"}, {"freed"})
  /\ pc = "err2" => Holds({"held"}, {"held"}, {"none", "held"})
  /\ pc = "err1" => Holds({"held"}, {"none", "freed"}, {"none", "held"})
  /\ pc = "err0" => Holds({"none", "freed"}, {"none", "freed"}, {"none", "held"})
  /\ MemoryReleased

KdfInv == /\ Chosen /\ Loaded /\ Filling /\ Mixing /\ Mixed /\ AllMixed /\ Ended
          /\ DerivesScrypt

LEMMA KdfInitInvariant == Init => KdfInv
BY DEF Init, KdfInv, Chosen, All, testing, Loaded, Filling, Mixing, Mixed, AllMixed, Ended,
       DerivesScrypt

LEMMA CallStep == ASSUME KdfInv, Call PROVE KdfInv'
<1>1. pc' = "alloc_B"
  BY DEF Call
<1>2. Chosen'
  BY DEF Call, KdfInv, Chosen, All, testing, machine
<1> QED
  BY <1>1, <1>2 DEF KdfInv, Loaded, Filling, Mixing, Mixed, AllMixed, Ended, DerivesScrypt

\* Steps that only move, allocate and free.
LEMMA PlainStep ==
  ASSUME KdfInv, UNCHANGED <<smix_func, works, job, request, par>>,
         pc' \in {"alloc_XY", "alloc_V", "expand", "err2", "err1", "err0"}
  PROVE  KdfInv'
<1>1. Chosen'
  BY DEF KdfInv, Chosen, testing
<1> QED
  BY <1>1 DEF KdfInv, Loaded, Filling, Mixing, Mixed, AllMixed, Ended, DerivesScrypt

LEMMA AllocStep ==
  ASSUME NEW what, NEW from, NEW to \in {"alloc_XY", "alloc_V", "expand"},
         NEW label \in {"err2", "err1", "err0"}, KdfInv, Alloc(what, from, to, label)
  PROVE  KdfInv'
BY PlainStep DEF Alloc, Goto, machine

LEMMA LabelStep ==
  ASSUME NEW what, NEW from, NEW to \in {"err1", "err0"}, KdfInv, Label(from, what, to)
  PROVE  KdfInv'
BY PlainStep DEF Label, Goto, machine

LEMMA Err0Step == ASSUME KdfInv, Err0 PROVE KdfInv'
<1>1. pc' = "end" /\ rc' = "error" /\ UNCHANGED <<smix_func, works, job, request, par>>
  BY DEF Err0, machine
<1>2. Chosen'
  BY <1>1 DEF KdfInv, Chosen, testing
<1> QED
  BY <1>1, <1>2 DEF KdfInv, Loaded, Filling, Mixing, Mixed, AllMixed, Ended, DerivesScrypt

LEMMA ExpandStep == ASSUME KdfInv, ExpandB PROVE KdfInv'
<1>1. /\ pc' = "load" /\ B' = Expanded(par) /\ blk' = 0 /\ DOMAIN V' = 0..(par.N - 1)
      /\ UNCHANGED <<smix_func, works, job, request, par>>
  BY DEF ExpandB, Goto, machine
<1>2. Chosen'
  BY <1>1 DEF KdfInv, Chosen, testing
<1>3. par \in All
  BY DEF KdfInv, Chosen
<1>4. Partly(par, 0) = Expanded(par) /\ 0 \in 0..(par.p - 1)
  <2>1. \A k \in 0..(par.p - 1) : ~(k < 0)
    OBVIOUS
  <2>2. Expanded(par) = [k \in 0..(par.p - 1) |-> Expanded(par)[k]]
    BY DEF Expanded
  <2> QED
    BY <1>3, <2>1, <2>2, Lengths DEF Partly
<1>5. Loaded'
  BY <1>1, <1>4, Zenon DEF Loaded
<1> QED
  BY <1>1, <1>2, <1>5 DEF KdfInv, Filling, Mixing, Mixed, AllMixed, Ended, DerivesScrypt

\* What smix works on.
LEMMA BlockTyped ==
  ASSUME KdfInv, pc \in {"load", "fill", "mix", "store"}
  PROVE  /\ par \in All /\ blk \in 0..(par.p - 1)
         /\ Block \in Blocks(par.r)
         /\ B[blk] = Block
<1>1. par \in All /\ blk \in 0..(par.p - 1) /\ B = Partly(par, blk)
  BY DEF KdfInv, Chosen, Loaded
<1>2. Block \in Blocks(par.r)
  BY <1>1, ExpandedTyped DEF Block
<1>3. ~(blk < blk)
  BY <1>1, Lengths
<1>4. B[blk] = Expanded(par)[blk]
  BY <1>1, <1>3, Zenon DEF Partly
<1> QED
  BY <1>1, <1>2, <1>4 DEF Block

LEMMA LoadStep == ASSUME KdfInv, Load PROVE KdfInv'
<1>1. /\ pc = "load" /\ pc' = "fill" /\ X' = B[blk] /\ i' = 0
      /\ UNCHANGED <<smix_func, works, job, request, par, B, V, blk>>
  BY DEF Load, Goto, machine
<1>2. Chosen' /\ Loaded'
  BY <1>1 DEF KdfInv, Chosen, testing, Loaded
<1>3. Block' = Block
  BY <1>1, Zenon DEF Block
<1>4. X' = RefFill(Block, par)[0]
  BY <1>1, BlockTyped, FillTurns
<1>5. 0 \in 0..par.N /\ 0 % 2 = 0 /\ \A k \in 0..(0 - 1) : FALSE
  BY <1>1, BlockTyped, Lengths
<1>6. TwoTurns'
  BY <1>1, <1>5, Zenon DEF TwoTurns
<1>7. Filling'
  BY <1>1, <1>3, <1>4, <1>5, <1>6, Zenon DEF Filling
<1> QED
  BY <1>1, <1>2, <1>7 DEF KdfInv, Mixing, Mixed, AllMixed, Ended, DerivesScrypt

\* The bounds of a turn of two.
LEMMA TurnBounds ==
  ASSUME KdfInv, pc \in {"fill", "mix"}, i < par.N
  PROVE  /\ i \in Nat /\ i + 1 \in 1..par.N /\ i + 2 \in 1..par.N /\ (i + 2) % 2 = 0
         /\ (i + 1) - 1 = i /\ (i + 2) - 1 = i + 1
<1>1. par \in All /\ i \in 0..par.N /\ i % 2 = 0
  BY DEF KdfInv, Chosen, Filling, Mixing, TwoTurns
<1>2. par.N \in Nat /\ par.N % 2 = 0
  BY <1>1, Lengths
<1> QED
  BY <1>1, <1>2

LEMMA FillStep == ASSUME KdfInv, Fill PROVE KdfInv'
<1> DEFINE S == RefFill(Block, par)
<1>1. pc = "fill" /\ UNCHANGED <<smix_func, works, job, request, par, B, blk>>
  BY DEF Fill, machine
<1>2. Block' = Block
  BY <1>1, Zenon DEF Block
<1>3. par \in All /\ Block \in Blocks(par.r) /\ par.N \in Nat
  BY <1>1, BlockTyped, Lengths
<1>4. TwoTurns /\ X = S[i] /\ (\A k \in 0..(i - 1) : V[k] = S[k]) /\ DOMAIN V = 0..(par.N - 1)
  BY <1>1 DEF KdfInv, Filling, Loaded
<1>5. CASE i < par.N
  <2>1. /\ pc' = "fill" /\ Y' = BlockMix(X, par.r) /\ V' = [V EXCEPT ![i] = X, ![i + 1] = Y']
        /\ X' = BlockMix(Y', par.r) /\ i' = i + 2
    BY <1>1, <1>5 DEF Fill
  <2>2. Chosen' /\ Loaded'
    BY <1>1, <2>1 DEF KdfInv, Chosen, testing, Loaded
  <2>3. /\ i \in Nat /\ i + 1 \in 1..par.N /\ i + 2 \in 1..par.N /\ (i + 2) % 2 = 0
        /\ (i + 1) - 1 = i /\ (i + 2) - 1 = i + 1
    BY <1>1, <1>5, TurnBounds
  <2>4. \A k \in 1..par.N : S[k] = BlockMix(S[k - 1], par.r)
    BY <1>3, FillTurns, Lengths, BlockMixIsRef
  <2> HIDE DEF S
  <2>5. Y' = S[i + 1]
    BY <1>4, <2>1, <2>3, <2>4, Zenon
  <2>6. X' = S[i + 2]
    BY <2>1, <2>3, <2>4, <2>5, Zenon
  <2>7. TwoTurns'
    BY <1>1, <1>3, <2>1, <2>3 DEF TwoTurns
  <2>8. ASSUME NEW k \in 0..((i + 2) - 1) PROVE V'[k] = S[k]
    <3>1. i \in 0..(par.N - 1) /\ i + 1 \in 0..(par.N - 1) /\ k \in 0..(par.N - 1)
      BY <1>3, <2>3
    <3>2. V'[k] = IF k = i + 1 THEN Y' ELSE IF k = i THEN X ELSE V[k]
      BY <1>4, <2>1, <2>3, <3>1
    <3>3. CASE k \in 0..(i - 1)
      <4>1. k # i + 1 /\ k # i
        BY <2>3, <3>3
      <4> QED
        BY <1>4, <3>2, <3>3, <4>1
    <3>4. CASE k = i
      <4>1. i # i + 1
        BY <2>3
      <4> QED
        BY <1>4, <3>2, <3>4, <4>1
    <3>5. CASE k = i + 1
      BY <2>5, <3>2, <3>5
    <3> QED
      BY <2>3, <3>3, <3>4, <3>5
  <2>9. Filling'
    <3>1. X' = RefFill(Block', par')[i']
      BY <1>1, <1>2, <2>1, <2>6, Zenon DEF S
    <3>2. \A k \in 0..(i' - 1) : V'[k] = RefFill(Block', par')[k]
      BY <1>1, <1>2, <2>1, <2>8, Zenon DEF S
    <3> QED
      BY <2>7, <3>1, <3>2, Zenon DEF Filling
  <2> QED
    BY <2>1, <2>2, <2>9 DEF KdfInv, Mixing, Mixed, AllMixed, Ended, DerivesScrypt
<1>6. CASE ~(i < par.N)
  <2>1. pc' = "mix" /\ i' = 0 /\ UNCHANGED <<X, V>>
    BY <1>1, <1>6 DEF Fill, Goto
  <2>2. Chosen' /\ Loaded'
    BY <1>1, <2>1 DEF KdfInv, Chosen, testing, Loaded
  <2>3. i = par.N
    BY <1>3, <1>4, <1>6 DEF TwoTurns
  <2>4. X' = Turned(Block, par)[0]
    BY <1>3, <1>4, <2>1, <2>3, MixTurns
  <2>5. TwoTurns'
    BY <1>1, <1>3, <2>1 DEF TwoTurns
  <2>6. Mixing'
    <3>1. X' = Turned(Block', par')[i']
      BY <1>1, <1>2, <2>1, <2>4, Zenon
    <3>2. \A k \in 0..(par'.N - 1) : V'[k] = RefFill(Block', par')[k]
      BY <1>1, <1>2, <1>4, <2>1, <2>3, Zenon
    <3> QED
      BY <2>5, <3>1, <3>2, Zenon DEF Mixing
  <2> QED
    BY <2>1, <2>2, <2>6 DEF KdfInv, Filling, Mixed, AllMixed, Ended, DerivesScrypt
<1> QED
  BY <1>5, <1>6

LEMMA MixStep == ASSUME KdfInv, Mix PROVE KdfInv'
<1> DEFINE S == RefFill(Block, par)
           T == Turned(Block, par)
<1>1. pc = "mix" /\ UNCHANGED <<smix_func, works, job, request, par, B, V, blk>>
  BY DEF Mix, machine
<1>2. Block' = Block
  BY <1>1, Zenon DEF Block
<1>3. par \in All /\ Block \in Blocks(par.r) /\ par.N \in Nat
  BY <1>1, BlockTyped, Lengths
<1>4. TwoTurns /\ X = T[i] /\ (\A k \in 0..(par.N - 1) : V[k] = S[k])
  BY <1>1 DEF KdfInv, Mixing
<1>5. CASE i < par.N
  <2>1. /\ pc' = "mix" /\ i' = i + 2
        /\ Y' = BlockMix(BlkXor(X, V[Integerify(X, par) % par.N]), par.r)
        /\ X' = BlockMix(BlkXor(Y', V[Integerify(Y', par) % par.N]), par.r)
    BY <1>1, <1>5 DEF Mix
  <2>2. Chosen' /\ Loaded'
    BY <1>1, <2>1 DEF KdfInv, Chosen, testing, Loaded
  <2>3. /\ i \in Nat /\ i + 1 \in 1..par.N /\ i + 2 \in 1..par.N /\ (i + 2) % 2 = 0
        /\ (i + 1) - 1 = i /\ (i + 2) - 1 = i + 1
    BY <1>1, <1>5, TurnBounds
  <2>4. /\ \A k \in 1..par.N : T[k] = RefTurn(T[k - 1], S, par)
        /\ \A k \in 0..par.N : T[k] \in Blocks(par.r)
    BY <1>3, MixTurns
  <2>5. ASSUME NEW x \in Blocks(par.r)
        PROVE  BlockMix(BlkXor(x, V[Integerify(x, par) % par.N]), par.r) = RefTurn(x, S, par)
    <3>1. V[Integerify(x, par) % par.N] = S[Integerify(x, par) % par.N]
      BY <1>3, <1>4, IndexTyped
    <3>2. par.r \in Nat \ {0}
      BY <1>3, Lengths
    <3> HIDE DEF S
    <3>3. BlockMix(BlkXor(x, S[Integerify(x, par) % par.N]), par.r)
            = RefBlockMix(BlkXor(x, S[Integerify(x, par) % par.N]), par.r)
      BY <3>2, BlockMixIsRef
    <3> QED
      BY <3>1, <3>3, Zenon DEF RefTurn
  <2>6. T[i] \in Blocks(par.r) /\ T[i + 1] \in Blocks(par.r)
    <3>1. i \in 0..par.N /\ i + 1 \in 0..par.N
      BY <1>3, <2>3
    <3> QED
      BY <2>4, <3>1
  <2> HIDE DEF S, T
  <2>7. Y' = T[i + 1]
    <3>1. Y' = RefTurn(T[i], S, par)
      BY <1>4, <2>1, <2>5, <2>6, Zenon
    <3> QED
      BY <2>3, <2>4, <3>1, Zenon
  <2>8. X' = T[i + 2]
    <3>1. X' = RefTurn(T[i + 1], S, par)
      BY <2>1, <2>5, <2>6, <2>7, Zenon
    <3> QED
      BY <2>3, <2>4, <3>1, Zenon
  <2>9. TwoTurns'
    BY <1>1, <1>3, <2>1, <2>3 DEF TwoTurns
  <2>10. Mixing'
    <3>1. X' = Turned(Block', par')[i']
      BY <1>1, <1>2, <2>1, <2>8, Zenon DEF T
    <3>2. \A k \in 0..(par'.N - 1) : V'[k] = RefFill(Block', par')[k]
      BY <1>1, <1>2, <1>4, Zenon DEF S
    <3> QED
      BY <2>9, <3>1, <3>2, Zenon DEF Mixing
  <2> QED
    BY <2>1, <2>2, <2>10 DEF KdfInv, Filling, Mixed, AllMixed, Ended, DerivesScrypt
<1>6. CASE ~(i < par.N)
  <2>1. pc' = "store" /\ UNCHANGED X
    BY <1>1, <1>6 DEF Mix, Goto
  <2>2. Chosen' /\ Loaded'
    BY <1>1, <2>1 DEF KdfInv, Chosen, testing, Loaded
  <2>3. i = par.N
    BY <1>3, <1>4, <1>6 DEF TwoTurns
  <2>4. X = RefSmix(Block, par)
    BY <1>4, <2>3, RefNames
  <2>5. Mixed'
    BY <1>1, <1>2, <2>1, <2>4, Zenon DEF Mixed
  <2> QED
    BY <2>1, <2>2, <2>5 DEF KdfInv, Filling, Mixing, AllMixed, Ended, DerivesScrypt
<1> QED
  BY <1>5, <1>6

LEMMA StoreStep == ASSUME KdfInv, Store PROVE KdfInv'
<1>1. /\ pc = "store" /\ B' = [B EXCEPT ![blk] = X] /\ blk' = blk + 1
      /\ pc' = (IF blk + 1 < par.p THEN "load" ELSE "derive")
      /\ UNCHANGED <<smix_func, works, job, request, par, V>>
  BY DEF Store, Goto, machine
<1>2. Chosen'
  BY <1>1 DEF KdfInv, Chosen, testing
<1>3. par \in All /\ blk \in 0..(par.p - 1) /\ par.p \in Nat \ {0}
  BY <1>1, BlockTyped, Lengths
<1>4. X = RefSmix(Expanded(par)[blk], par) /\ B = Partly(par, blk) /\ DOMAIN V = 0..(par.N - 1)
  BY <1>1 DEF KdfInv, Mixed, Loaded, Block
<1>5. B' = Partly(par, blk + 1)
  <2>1. ASSUME NEW k \in 0..(par.p - 1)
        PROVE  B'[k] = IF k < blk + 1 THEN RefSmix(Expanded(par)[k], par) ELSE Expanded(par)[k]
    <3>1. B[k] = IF k < blk THEN RefSmix(Expanded(par)[k], par) ELSE Expanded(par)[k]
      BY <1>4, Zenon DEF Partly
    <3>2. DOMAIN B = 0..(par.p - 1)
      BY <1>4 DEF Partly
    <3>3. CASE k = blk
      <4>1. k < blk + 1
        BY <1>3, <3>3
      <4> QED
        BY <1>1, <1>4, <3>2, <3>3, <4>1
    <3>4. CASE k # blk
      <4>1. (k < blk + 1) <=> (k < blk)
        BY <1>3, <3>4
      <4>2. B'[k] = B[k]
        BY <1>1, <3>2, <3>4
      <4> QED
        BY <3>1, <4>1, <4>2, Zenon
    <3> QED
      BY <3>3, <3>4
  <2>2. B' = [k \in 0..(par.p - 1) |-> B'[k]]
    BY <1>1, <1>4 DEF Partly
  <2> QED
    BY <2>1, <2>2, Zenon DEF Partly
<1>6. CASE blk + 1 < par.p
  <2>1. blk + 1 \in 0..(par.p - 1) /\ pc' = "load"
    BY <1>1, <1>3, <1>6
  <2>2. Loaded'
    BY <1>1, <1>4, <1>5, <2>1, Zenon DEF Loaded
  <2> QED
    BY <1>2, <2>1, <2>2 DEF KdfInv, Filling, Mixing, Mixed, AllMixed, Ended, DerivesScrypt
<1>7. CASE ~(blk + 1 < par.p)
  <2>1. pc' = "derive" /\ \A k \in 0..(par.p - 1) : k < blk + 1
    BY <1>1, <1>3, <1>7
  <2>2. Partly(par, blk + 1) = RefScrypt(par)
    BY <2>1 DEF Partly, RefScrypt
  <2>3. AllMixed'
    BY <1>1, <1>5, <2>2, Zenon DEF AllMixed
  <2> QED
    BY <1>2, <2>1, <2>3 DEF KdfInv, Loaded, Filling, Mixing, Mixed, Ended, DerivesScrypt
<1> QED
  BY <1>6, <1>7

LEMMA DeriveStep == ASSUME KdfInv, Derive PROVE KdfInv'
<1>1. /\ pc = "derive" /\ pc' \in {"free", "err2"} /\ dk' = Computed
      /\ UNCHANGED <<smix_func, works, job, request, par>>
  BY DEF Derive, Goto, machine
<1>2. Chosen'
  BY <1>1 DEF KdfInv, Chosen, testing
<1>3. B = RefScrypt(par) /\ impl' = impl
  BY <1>1 DEF KdfInv, AllMixed, impl
<1>4. Ended'
  BY <1>1, <1>3, Zenon DEF Ended, Computed
<1> QED
  BY <1>1, <1>2, <1>4 DEF KdfInv, Loaded, Filling, Mixing, Mixed, AllMixed, DerivesScrypt

LEMMA FreeRestStep == ASSUME KdfInv, FreeRest PROVE KdfInv'
<1>1. /\ pc = "free" /\ pc' = "end" /\ UNCHANGED <<smix_func, works, job, request, par, dk, rc>>
  BY DEF FreeRest, Goto, machine
<1>2. Chosen'
  BY <1>1 DEF KdfInv, Chosen, testing
<1>3. impl' = impl
  BY <1>1 DEF impl
<1>4. Ended'
  BY <1>1, <1>3, Zenon DEF KdfInv, Ended
<1> QED
  BY <1>1, <1>2, <1>4 DEF KdfInv, Loaded, Filling, Mixing, Mixed, AllMixed, DerivesScrypt

\* What passes the self-test computes what it should.
LEMMA TestIsTrue ==
  ASSUME KdfInv, pc = "end", testing, Matches
  PROVE  impl \in works
<1>1. SUFFICES ASSUME impl \notin works PROVE FALSE
  OBVIOUS
<1>2. RefScrypt(TestCase) = <<"wrong">>
  BY <1>1 DEF KdfInv, Ended, Matches, Chosen
<1>3. DOMAIN RefScrypt(TestCase) = 0..(TestCase.p - 1) /\ TestCase.p \in Nat \ {0}
  BY Lengths DEF RefScrypt, All
<1>4. 0 \in DOMAIN RefScrypt(TestCase) /\ DOMAIN <<"wrong">> = 1..1
  BY <1>3
<1> QED
  BY <1>2, <1>4

LEMMA SelectStep == ASSUME KdfInv, Select PROVE KdfInv'
<1>1. pc = "end" /\ testing /\ pc' \in {"alloc_B", "aborted"} /\ UNCHANGED <<works, request>>
  BY DEF Select, machine
<1>2. Chosen'
  <2>1. CASE Matches
    <3>1. impl \in works /\ impl \in {"sse2", "generic"}
      BY <1>1, <2>1, TestIsTrue DEF impl
    <3>2. smix_func' = impl /\ job' = impl /\ par' = request
      BY <2>1 DEF Select
    <3> QED
      BY <1>1, <3>1, <3>2 DEF KdfInv, Chosen, testing
  <2>2. CASE ~Matches
    <3>1. job' = "test_generic" /\ UNCHANGED <<smix_func, par>>
      BY <2>2 DEF Select
    <3> QED
      BY <1>1, <3>1 DEF KdfInv, Chosen, testing
  <2> QED
    BY <2>1, <2>2
<1> QED
  BY <1>1, <1>2 DEF KdfInv, Loaded, Filling, Mixing, Mixed, AllMixed, Ended, DerivesScrypt

LEMMA ReturnStep == ASSUME KdfInv, Return PROVE KdfInv'
<1>1. /\ pc = "end" /\ pc' = "idle" /\ ~testing
      /\ UNCHANGED <<smix_func, works, job, request, par, dk, rc>>
  BY DEF Return, Goto, machine
<1>2. Chosen'
  BY <1>1 DEF KdfInv, Chosen, testing
<1>3. ASSUME job # "none", rc = "OK" PROVE dk = RefScrypt(request)
  <2>1. job \in {"sse2", "generic"} /\ impl = job /\ impl \in works /\ par = request
    BY <1>1, <1>3 DEF KdfInv, Chosen, testing, impl
  <2>2. dk = RefScrypt(par)
    BY <1>1, <1>3, <2>1 DEF KdfInv, Ended
  <2> QED
    BY <2>1, <2>2
<1>4. DerivesScrypt'
  BY <1>1, <1>3, Zenon DEF DerivesScrypt
<1> QED
  BY <1>1, <1>2, <1>4 DEF KdfInv, Loaded, Filling, Mixing, Mixed, AllMixed, Ended

THEOREM KdfInvariant == Spec => []KdfInv
<1>1. ASSUME KdfInv, [Next]_vars PROVE KdfInv'
  <2>1. CASE AllocB \/ AllocXY \/ AllocV
    BY <1>1, <2>1, AllocStep DEF AllocB, AllocXY, AllocV
  <2>2. CASE Err2 \/ Err1
    BY <1>1, <2>2, LabelStep DEF Err2, Err1
  <2>3. CASE UNCHANGED vars
    BY <1>1, <2>3 DEF vars, machine, work, KdfInv, Chosen, testing, impl, Loaded, Filling,
       Mixing, Mixed, AllMixed, Ended, TwoTurns, Block, DerivesScrypt
  <2> QED
    BY <1>1, <2>1, <2>2, <2>3, CallStep, ExpandStep, LoadStep, FillStep, MixStep, StoreStep,
       DeriveStep, FreeRestStep, Err0Step, SelectStep, ReturnStep DEF Next, Steps
<1> QED
  BY <1>1, KdfInitInvariant, PTL DEF Spec

\* What is held is what the place says: at a label, what was allocated before
\* the jump to it or is left by the label above.
LEMMA MemoryStep == ASSUME Memory, [Next]_vars PROVE Memory'
<1>1. CASE AllocB \/ AllocXY \/ AllocV
  BY <1>1 DEF Memory, MemoryReleased, Holds, AllocB, AllocXY, AllocV, Alloc, Goto
<1>2. CASE Err2 \/ Err1
  BY <1>2 DEF Memory, MemoryReleased, Holds, Err2, Err1, Label, Free, Goto
<1>3. CASE Err0
  BY <1>3 DEF Memory, MemoryReleased, Holds, Err0
<1>4. CASE Derive
  BY <1>4 DEF Memory, MemoryReleased, Holds, Derive, Free, Goto
<1>5. CASE FreeRest
  <2>1. mem' = [B |-> "freed", XY |-> "freed", V |-> "freed"] /\ pc' = "end"
    BY <1>5 DEF Memory, Holds, FreeRest, Free, Goto
  <2> QED
    BY <2>1 DEF Memory, MemoryReleased, Holds
<1>6. CASE Call \/ Select
  BY <1>6 DEF Memory, MemoryReleased, Holds, Call, Select, NoMemory
<1>7. CASE ExpandB \/ Load \/ Fill \/ Mix \/ Store \/ Return
  <2>1. UNCHANGED mem /\ \/ pc' = "idle"
                         \/ /\ pc \in {"expand", "load", "fill", "mix", "store"}
                            /\ pc' \in {"load", "fill", "mix", "store", "derive"}
    BY <1>7 DEF ExpandB, Load, Fill, Mix, Store, Return, Goto
  <2> QED
    BY <2>1 DEF Memory, MemoryReleased, Holds
<1>8. CASE UNCHANGED vars
  BY <1>8 DEF vars, Memory, MemoryReleased, Holds
<1> QED
  BY <1>1, <1>2, <1>3, <1>4, <1>5, <1>6, <1>7, <1>8 DEF Next, Steps

THEOREM MemoryInvariant == Spec => []Memory
<1>1. Init => Memory
  BY DEF Init, Memory, MemoryReleased, NoMemory
<1> QED
  BY <1>1, MemoryStep, PTL DEF Spec

-----------------------------------------------------------------------------
\* A call that succeeds has derived what crypto_scrypt-ref.c derives, for every
\* N, r, p and chunk function, and whatever the SSE2 code computes
\* (crypto_scrypt, crypto_scrypt_smix).
THEOREM Derives == Spec => []DerivesScrypt
<1>1. KdfInv => DerivesScrypt
  BY DEF KdfInv
<1> QED
  BY <1>1, KdfInvariant, PTL

\* However crypto_scrypt_internal ends, by whichever of its labels, every region
\* it allocated was freed once and nothing else; only a V that munmap would not
\* give back stays, and the call fails.
THEOREM Frees == Spec => []MemoryReleased
<1>1. Memory => MemoryReleased
  BY DEF Memory
<1> QED
  BY <1>1, MemoryInvariant, PTL
=============================================================================
