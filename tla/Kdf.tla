---------------------------------- MODULE Kdf ----------------------------------
(***************************************************************************)
(* crypto_scrypt: the choice of an smix implementation by self-test, the   *)
(* memory, and smix, whose loops are unrolled over two buffers, compared   *)
(* with the reference implementation of the repository                     *)
(* (crypto_scrypt-ref.c).  The parameters are checked in Params.           *)
(*                                                                         *)
(* A chunk of 64 bytes is a number below M.  PBKDF2, salsa20/8 and xor are *)
(* constants of the module: only how chunks are moved matters here, and a  *)
(* derived key is the blocks that it is derived from.  The generic and the *)
(* SSE2 code move chunks alike (they differ in the order of the words of   *)
(* one), the reference does so in another way: see BlockMix.               *)
(***************************************************************************)
EXTENDS Integers

CONSTANTS
  M,
  Expand(_, _, _),    \* the chunks that PBKDF2 makes of a passphrase
  Salsa(_), Xor(_, _),
  TestCase,           \* the request of the self-test
  Requests            \* bound: what is asked for: records pw, N, r, p

\* crypto_scrypt_internal refuses an N that is not a power of 2, hence an odd one.
ASSUME RequestsAssumption ==
  \A q \in Requests \cup {TestCase} :
    q.N \in Nat /\ q.N >= 2 /\ q.N % 2 = 0 /\ q.r \in Nat \ {0} /\ q.p \in Nat \ {0}

Chunks == 0..(M - 1)
ASSUME ChunksAssumption ==
  /\ M \in Nat \ {0}
  /\ \A x \in Chunks : Salsa(x) \in Chunks
  /\ \A x, y \in Chunks : Xor(x, y) \in Chunks
  /\ \A q \in Requests \cup {TestCase} : \A k \in 0..(q.p - 1), c \in 0..(2 * q.r - 1) :
       Expand(q, k, c) \in Chunks

VARIABLES
  pc,
  smix_func,   \* "unset", "sse2", "generic"
  sse2, works, \* the CPU has SSE2; the implementations that compute what they should
  job,         \* whose code runs, and whether it is a test of it
  request,     \* what the caller asked for
  par,         \* what is being computed
  mem,         \* the life of B, XY and V
  B, X, Y, V,  \* what they hold
  blk, i,      \* the loop variables of crypto_scrypt_internal and smix
  dk, rc

machine == <<sse2, works>>
work == <<B, X, Y, V, blk, i>>
vars == <<pc, smix_func, machine, job, request, par, mem, work, dk, rc>>

-----------------------------------------------------------------------------
\* x itself: TLC computes it here, once, and not at each use.
Once(x) == CHOOSE y \in {x} : TRUE

(* One block is a function from 0..2r-1 to chunks.                          *)
Block0 == [c \in 0..(2 * par.r - 1) |-> 0]
Integerify(x, q) == x[2 * q.r - 1]
BlkXor(x, y) == Once([c \in DOMAIN x |-> Xor(x[c], y[c])])

\* X of the reference's blockmix_salsa8 after its k-th salsa20/8, on the block b.
Chain(b, r) ==
  LET H[k \in 0..(2 * r)] == IF k = 0 THEN b[2 * r - 1] ELSE Salsa(Xor(H[k - 1], b[k - 1]))
  IN H

\* ... which keeps all of them, and then moves the even ones to the first half
\* and the odd ones to the second.
RefBlockMix(b, r) ==
  Once([c \in 0..(2 * r - 1) |-> Chain(b, r)[IF c < r THEN 2 * c + 1 ELSE 2 * (c - r) + 2]])

\* X of the generic and of the SSE2 blockmix_salsa8 after its k-th turn, of two
\* salsa20/8 each.
Pairs(b, r) ==
  LET P[k \in 0..r] ==
        IF k = 0 THEN b[2 * r - 1]
        ELSE Salsa(Xor(Salsa(Xor(P[k - 1], b[2 * (k - 1)])), b[2 * (k - 1) + 1]))
  IN P

\* A turn writes its two chunks to their halves at once.
BlockMix(b, r) ==
  Once([c \in 0..(2 * r - 1) |->
          IF c < r THEN Salsa(Xor(Pairs(b, r)[c], b[2 * c])) ELSE Pairs(b, r)[c - r + 1]])

(* The reference: smix and crypto_scrypt of crypto_scrypt-ref.c.            *)
RefFill(b, q) ==
  LET S[k \in 0..q.N] == IF k = 0 THEN b ELSE RefBlockMix(S[k - 1], q.r) IN Once(S)
RefTurn(x, S, q) == RefBlockMix(BlkXor(x, S[Integerify(x, q) % q.N]), q.r)
RefSmix(b, q) ==
  LET S == RefFill(b, q)
      T[k \in 0..q.N] ==
        IF k = 0 THEN S[q.N]
        ELSE CHOOSE y \in {RefTurn(x, S, q) : x \in {T[k - 1]}} : TRUE
  IN T[q.N]
Expanded(q) == [k \in 0..(q.p - 1) |-> [c \in 0..(2 * q.r - 1) |-> Expand(q, k, c)]]
RefScrypt(q) == [k \in 0..(q.p - 1) |-> RefSmix(Expanded(q)[k], q)]

-----------------------------------------------------------------------------
NoMemory == [B |-> "none", XY |-> "none", V |-> "none"]
NoKey == <<>>
Goto(where) == pc' = where /\ UNCHANGED rc

Init ==
  /\ pc = "idle" /\ smix_func = "unset" /\ sse2 \in BOOLEAN
  /\ works \in SUBSET {"sse2", "generic"}
  /\ job = "none" /\ request = TestCase /\ par = TestCase /\ mem = NoMemory
  /\ B = <<>> /\ X = <<>> /\ Y = <<>> /\ V = <<>> /\ blk = 0 /\ i = 0
  /\ dk = NoKey /\ rc = "OK"

impl == IF job \in {"test_sse2", "sse2"} THEN "sse2" ELSE "generic"
testing == job \in {"test_sse2", "test_generic"}

\* crypto_scrypt; the first call selects smix_func.
Call ==
  /\ pc = "idle"
  /\ request' \in Requests
  /\ job' = IF smix_func # "unset" THEN smix_func ELSE IF sse2 THEN "test_sse2" ELSE "test_generic"
  /\ par' = IF smix_func # "unset" THEN request' ELSE TestCase
  /\ pc' = "alloc_B" /\ rc' = "OK" /\ dk' = NoKey /\ mem' = NoMemory
  /\ UNCHANGED <<smix_func, machine, work>>

\* free: of what is not held, or no longer, it is undefined.
Free(x) == IF x = "held" THEN "freed" ELSE "undefined"

\* An allocation, and the label its failure goes to.
Alloc(what, from, to, label) ==
  /\ pc = from
  /\ \/ mem' = [mem EXCEPT ![what] = "held"] /\ Goto(to)
     \/ UNCHANGED mem /\ Goto(label)
  /\ UNCHANGED <<smix_func, machine, job, request, par, work, dk>>
AllocB == Alloc("B", "alloc_B", "alloc_XY", "err0")
AllocXY == Alloc("XY", "alloc_XY", "alloc_V", "err1")
AllocV_Err1 == Alloc("V", "alloc_V", "expand", "err1")   \* mutant: the label before
AllocV == Alloc("V", "alloc_V", "expand", "err2")

\* err2, err1 and err0, each of which falls through to the next.
Label(from, what, to) ==
  /\ pc = from
  /\ mem' = [mem EXCEPT ![what] = Free(@)]
  /\ Goto(to)
  /\ UNCHANGED <<smix_func, machine, job, request, par, work, dk>>
Err2 == Label("err2", "XY", "err1")
Err1 == Label("err1", "B", "err0")
Err0 ==
  /\ pc = "err0"
  /\ pc' = "end" /\ rc' = "error"
  /\ UNCHANGED <<smix_func, machine, job, request, par, mem, work, dk>>

\* 1: (B_0 ... B_{p-1}) <-- PBKDF2(P, S, 1, p * MFLen); memory holds anything.
ExpandB ==
  /\ pc = "expand"
  /\ B' = Expanded(par)
  /\ V' = [k \in 0..(par.N - 1) |-> Block0] /\ Y' = Block0
  /\ blk' = 0
  /\ Goto("load")
  /\ UNCHANGED <<smix_func, machine, job, request, par, mem, X, i, dk>>

\* smix, 1: X <-- B.
Load ==
  /\ pc = "load"
  /\ X' = B[blk] /\ i' = 0
  /\ Goto("fill")
  /\ UNCHANGED <<smix_func, machine, job, request, par, mem, B, Y, V, blk, dk>>

\* 2 to 4, two turns at once: V_i <-- X; Y <-- H(X); V_{i+1} <-- Y; X <-- H(Y).
Fill ==
  /\ pc = "fill"
  /\ IF i < par.N
       THEN /\ Y' = BlockMix(X, par.r)
            /\ V' = [V EXCEPT ![i] = X, ![i + 1] = Y']
            /\ X' = BlockMix(Y', par.r)
            /\ i' = i + 2
            /\ UNCHANGED <<pc, rc>>
       ELSE /\ i' = 0
            /\ Goto("mix")
            /\ UNCHANGED <<X, Y, V>>
  /\ UNCHANGED <<smix_func, machine, job, request, par, mem, B, blk, dk>>

\* 6 to 8, two turns at once: j is taken of X, then of Y.
Mix ==
  /\ pc = "mix"
  /\ IF i < par.N
       THEN /\ Y' = BlockMix(BlkXor(X, V[Integerify(X, par) % par.N]), par.r)
            /\ X' = BlockMix(BlkXor(Y', V[Integerify(Y', par) % par.N]), par.r)
            /\ i' = i + 2
            /\ UNCHANGED <<pc, rc>>
       ELSE /\ i' = 0
            /\ Goto("store")
            /\ UNCHANGED <<X, Y>>
  /\ UNCHANGED <<smix_func, machine, job, request, par, mem, B, V, blk, dk>>

\* 10: B' <-- X, and the next B_i.
Store ==
  /\ pc = "store"
  /\ B' = [B EXCEPT ![blk] = X]
  /\ blk' = blk + 1
  /\ Goto(IF blk' < par.p THEN "load" ELSE "derive")
  /\ UNCHANGED <<smix_func, machine, job, request, par, mem, X, Y, V, i, dk>>

Computed == IF impl \in works THEN B ELSE <<"wrong">>
\* 5: DK <-- PBKDF2(P, B, 1, dkLen), and munmap, which may fail.
Derive ==
  /\ pc = "derive"
  /\ dk' = Computed
  /\ B' = <<>> /\ X' = <<>> /\ Y' = <<>> /\ V' = <<>> /\ blk' = 0 /\ i' = 0
  /\ \/ mem' = [mem EXCEPT !.V = Free(@)] /\ Goto("free")
     \/ UNCHANGED mem /\ Goto("err2")
  /\ UNCHANGED <<smix_func, machine, job, request, par>>

\* What is left to free on success.
FreeRest ==
  /\ pc = "free"
  /\ mem' = [mem EXCEPT !.XY = Free(@), !.B = Free(@)]
  /\ Goto("end")
  /\ UNCHANGED <<smix_func, machine, job, request, par, work, dk>>

-----------------------------------------------------------------------------
Matches_NoCompare == rc = "OK"                  \* mutant: does not compare
Matches == rc = "OK" /\ dk = RefScrypt(TestCase)

\* selectsmix: what passes its test is used, by the request that waits for it;
\* if nothing does, the process aborts.
Select ==
  /\ pc = "end" /\ testing
  /\ IF Matches
       THEN /\ smix_func' = impl
            /\ job' = impl /\ par' = request
            /\ pc' = "alloc_B"
       ELSE /\ UNCHANGED <<smix_func, par>>
            /\ job' = "test_generic"
            /\ pc' = IF job = "test_sse2" THEN "alloc_B" ELSE "aborted"
  /\ rc' = "OK" /\ dk' = NoKey /\ mem' = NoMemory
  /\ UNCHANGED <<machine, request, work>>

Return ==
  /\ pc = "end" /\ ~testing
  /\ Goto("idle")
  /\ UNCHANGED <<smix_func, machine, job, request, par, mem, work, dk>>

Steps == AllocB \/ AllocXY \/ AllocV \/ ExpandB \/ Load \/ Fill \/ Mix \/ Store
         \/ Derive \/ FreeRest \/ Err2 \/ Err1 \/ Err0 \/ Select \/ Return
Next == Call \/ Steps

Spec == Init /\ [][Next]_vars
-----------------------------------------------------------------------------
\* A call that succeeds has derived what the reference implementation derives,
\* also on a CPU whose SSE2 code does not compute what it should.
DerivesScrypt == pc = "idle" /\ job # "none" /\ rc = "OK" => dk = RefScrypt(request)

\* However a computation ends, of a self-test or not, each region that was
\* allocated has been freed exactly once and no other: the label that a failure
\* goes to is the right one for what is held there.  Only a V that munmap would
\* not give back stays, and that is reported.
MemoryReleased ==
  pc = "end" =>
    /\ {mem.B, mem.XY} \subseteq {"none", "freed"} /\ mem.V \in {"none", "freed", "held"}
    /\ mem.V = "held" => rc = "error"
    /\ rc = "OK" => mem = [B |-> "freed", XY |-> "freed", V |-> "freed"]
=============================================================================
