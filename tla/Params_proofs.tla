----------------------------- MODULE Params_proofs -----------------------------
(***************************************************************************)
(* For every machine, every limit and every header: shifts are defined,    *)
(* picked parameters are within the limits and as strong as they allow,    *)
(* every machine that is allowed as much decrypts them, and scrypt info    *)
(* says what memory is needed.                                             *)
(***************************************************************************)
EXTENDS Params, TLAPS

-----------------------------------------------------------------------------
\* A quotient is the largest number whose product is not larger.
LEMMA QuotientNat ==
  ASSUME NEW a \in Nat, NEW b \in Nat \ {0}
  PROVE  a \div b \in Nat
OBVIOUS

LEMMA Quotient ==
  ASSUME NEW a \in Nat, NEW b \in Nat \ {0}, NEW q \in Nat
  PROVE  q <= a \div b <=> b * q <= a
<1>1. b * (a \div b) <= a /\ a < b * (a \div b) + b /\ a \div b \in Nat
  OBVIOUS
<1>2. CASE q <= a \div b
  <2>1. b * q <= b * (a \div b)
    BY <1>1, <1>2
  <2> QED
    BY <1>1, <1>2, <2>1
<1>3. CASE q > a \div b
  <2>1. b * q >= b * ((a \div b) + 1)
    BY <1>1, <1>3
  <2>2. b * ((a \div b) + 1) = b * (a \div b) + b
    BY <1>1
  <2> QED
    BY <1>1, <1>3, <2>1, <2>2
<1> QED
  BY <1>1, <1>2, <1>3

\* Each shift gives twice what the one before gave.
LEMMA Powers ==
  ASSUME NEW n \in 1..MaxLogN
  PROVE  /\ Pow2[n] \in Nat \ {0} /\ n - 1 \in 0..MaxLogN /\ Pow2[n - 1] \in Nat \ {0}
         /\ Pow2[n] = 2 * Pow2[n - 1]
         /\ n = 1 => Pow2[n] = 2
<1>1. n \in 0..MaxLogN /\ n - 1 \in 0..MaxLogN
  BY Pow2Assumption
<1>2. Pow2[n] = 2 * Pow2[n - 1]
  BY Pow2Assumption
<1>3. n = 1 => n - 1 = 0
  OBVIOUS
<1> QED
  BY <1>1, <1>2, <1>3, Pow2Assumption

-----------------------------------------------------------------------------
\* The parameters that a file says.
FileSane ==
  file.made /\ file.picked =>
    /\ file.logN \in 1..MaxLogN /\ file.r = 8 /\ file.p >= 1
    /\ file.r * file.p < RPLimit
    /\ 1024 * Pow2[file.logN] <= file.mem
    /\ 1024 * Pow2[file.logN] * file.p <= file.ops

\* The parameters that are decided on are those of the file.
FromFile ==
  op \in {"dec", "info"} /\ file.made => logN = file.logN /\ r = file.r /\ p = file.p

\* Where each operation is, and what was checked before.
Places ==
  /\ pc = "start" => op = "enc" /\ ~file.made
  /\ op = "info" => pc \in {"sanity", "display", "returned"}
  /\ pc \in {"pick", "loop", "choose_p"} => picked
  /\ pc = "sanity" => ~picked
  /\ pc \in {"display", "limits"} => ~picked /\ ~Insane
  /\ pc \in {"memory", "speed", "derive", "allocate"} /\ ~picked => ~Insane

\* The limits allow the least parameters, and the loops stop at the first N
\* that is too large for twice as much.
Limited ==
  /\ pc \in {"speed", "pick", "loop", "choose_p", "derive", "allocate"} /\ picked => memlimit >= MiB
  /\ pc \in {"pick", "loop", "choose_p", "derive", "allocate"} /\ picked => opslimit >= OpsFloor
Looping ==
  /\ pc \in {"loop", "choose_p"} =>
       logN \in 1..MaxLogN /\ r = 8 /\ p = 1 /\ (logN = 1 \/ ~Above(Pow2[logN - 1]))
  /\ pc = "choose_p" => logN = MaxLogN \/ Above(Pow2[logN])
Picked ==
  pc \in {"derive", "allocate"} /\ picked =>
    /\ logN \in 1..MaxLogN /\ r = 8 /\ p >= 1 /\ r * p < RPLimit
    /\ 1024 * Pow2[logN] <= memlimit
    /\ 1024 * Pow2[logN] * p <= opslimit
    /\ 2048 * Pow2[logN] > memlimit \/ 2048 * Pow2[logN] > opslimit

IInv == /\ TypeOK /\ FileSane /\ FromFile /\ Places /\ Limited /\ Looping /\ Picked
        /\ DecryptsUnderSameLimits /\ ShownIsTrue

-----------------------------------------------------------------------------
\* What PickP finds: p = 1 under the limit of time, and otherwise as large a p
\* as fits.
LEMMA PickedFits ==
  ASSUME TypeOK, memlimit >= MiB, opslimit >= OpsFloor, r = 8,
         logN \in 1..MaxLogN, logN = 1 \/ ~Above(Pow2[logN - 1]),
         logN = MaxLogN \/ Above(Pow2[logN])
  PROVE  /\ PickedP(Pow2[logN]) \in Nat \ {0}
         /\ 8 * PickedP(Pow2[logN]) < RPLimit
         /\ 1024 * Pow2[logN] <= memlimit
         /\ 1024 * Pow2[logN] * PickedP(Pow2[logN]) <= opslimit
         /\ 2048 * Pow2[logN] > memlimit \/ 2048 * Pow2[logN] > opslimit
<1> DEFINE c == Pow2[logN]
<1> DEFINE b == Pow2[logN - 1]
<1>1. c \in Nat \ {0} /\ b \in Nat \ {0} /\ c = 2 * b /\ (logN = 1 => c = 2)
  BY Powers
<1>2. memlimit \in Nat /\ opslimit \in Nat /\ memlimit <= SizeMax
  BY DEF TypeOK
<1>3. memlimit >= 2048 /\ opslimit >= 2048
  BY <1>2, LimitsAssumption
<1>4. CASE CpuBound
  <2>1. PickedP(c) = 1
    BY <1>4 DEF PickedP
  <2>2. 1024 * c <= opslimit
    BY <1>1, <1>2, <1>3, <1>4 DEF Above
  <2>3. 2048 * c > memlimit \/ 2048 * c > opslimit
    <3>1. CASE logN = MaxLogN
      BY <3>1, <1>1, <1>2, LimitsAssumption
    <3>2. CASE Above(c)
      BY <3>2, <1>4 DEF Above
    <3> QED
      BY <3>1, <3>2
  <2> QED
    BY <2>1, <2>2, <2>3, <1>1, <1>2, <1>4, LimitsAssumption DEF CpuBound
<1>5. CASE ~CpuBound
  <2> DEFINE fit == (opslimit \div 128) \div c
  <2>1. memlimit \div 1024 \in Nat /\ opslimit \div 128 \in Nat /\ fit \in Nat
    BY <1>1, <1>2, QuotientNat
  <2>2. c <= memlimit \div 1024
    <3>1. CASE logN = 1
      BY <3>1, <1>1, <1>2, <1>3, Quotient
    <3>2. CASE ~Above(b)
      BY <3>2, <1>1, <1>5, <2>1 DEF Above
    <3> QED
      BY <3>1, <3>2
  <2>3. 1024 * c <= memlimit
    BY <2>2, <1>1, <1>2, Quotient
  <2>4. 8 <= fit
    <3>1. 128 * (c * 8) <= opslimit
      BY <2>3, <1>1, <1>2, <1>5 DEF CpuBound
    <3>2. c * 8 <= opslimit \div 128
      BY <3>1, <1>1, <1>2, Quotient
    <3> QED
      BY <3>2, <2>1, <1>1, Quotient
  <2> DEFINE least == Least(fit, RPLimit - 1)
  <2>5. least \in Nat /\ least >= 8 /\ least <= fit /\ least < RPLimit
    BY <2>1, <2>4, LimitsAssumption DEF Least
  <2> DEFINE q == least \div 8
  <2>6. PickedP(c) = q
    BY <1>5 DEF PickedP
  <2> HIDE DEF c, b, fit, least
  <2>7. q \in Nat /\ q >= 1 /\ 8 * q <= least
    BY <2>5
  <2>8. 1024 * c * q <= opslimit
    <3>1. c * (8 * q) <= opslimit \div 128
      <4>1. 8 * q <= fit
        BY <2>1, <2>5, <2>7
      <4> QED
        BY <4>1, <2>1, <2>7, <1>1 DEF fit
    <3>2. 128 * (c * (8 * q)) <= opslimit
      <4>1. c * (8 * q) \in Nat
        BY <1>1, <2>7
      <4> QED
        BY <4>1, <3>1, <1>2, Quotient
    <3>3. 128 * (c * (8 * q)) = 1024 * c * q
      BY <1>1, <2>7
    <3> QED
      BY <3>2, <3>3
  <2>9. 2048 * c > memlimit \/ 2048 * c > opslimit
    <3>1. CASE logN = MaxLogN
      BY <3>1, <1>1, <1>2, LimitsAssumption DEF c
    <3>2. CASE Above(c)
      <4>1. 2 * c > memlimit \div 1024
        BY <3>2, <1>5 DEF Above
      <4>2. 1024 * (2 * c) > memlimit
        BY <4>1, <2>1, <1>1, <1>2, Quotient
      <4> QED
        BY <4>2, <1>1
    <3> QED
      BY <3>1, <3>2 DEF c
  <2>10. 8 * q < RPLimit
    BY <2>5, <2>7, LimitsAssumption
  <2> HIDE DEF q
  <2>11. PickedP(c) \in Nat \ {0} /\ 8 * PickedP(c) < RPLimit /\ 1024 * c * PickedP(c) <= opslimit
    BY <2>6, <2>7, <2>8, <2>10
  <2> QED
    BY <2>3, <2>9, <2>11 DEF c
<1> QED
  BY <1>4, <1>5

\* What checkparams found in a file with picked parameters is that they fit.
LEMMA FileFits ==
  ASSUME TypeOK, FileSane, FromFile, op = "dec", file.made, file.picked
  PROVE  /\ ~Insane
         /\ memlimit >= file.mem => ~TooBig
         /\ opslimit >= file.ops => ~TooSlow
<1> DEFINE c == Pow2[logN]
<1>1. /\ logN \in 1..MaxLogN /\ r = 8 /\ p \in Nat /\ p >= 1 /\ r * p < RPLimit
      /\ 1024 * c <= file.mem /\ 1024 * c * p <= file.ops
  BY DEF FileSane, FromFile, TypeOK
<1>2. c \in Nat \ {0} /\ memlimit \in Nat /\ opslimit \in Nat /\ file.mem \in Nat /\ file.ops \in Nat
  BY <1>1, Powers DEF TypeOK, Files
<1>3. ~Insane
  <2>1. r * p \in Nat /\ r * p < RPLimit
    BY <1>1
  <2> QED
    BY <1>1, Pow2Assumption, LimitsAssumption DEF Insane
<1> HIDE DEF c
<1>4. ASSUME memlimit >= file.mem PROVE ~TooBig
  <2>1. c * (8 * 128) <= memlimit
    BY <1>1, <1>2, <1>4
  <2>2. 8 * 128 <= memlimit \div c
    BY <2>1, <1>2, Quotient
  <2>3. 128 <= (memlimit \div c) \div 8
    BY <2>2, <1>2, QuotientNat, Quotient
  <2>4. (memlimit \div c) \div 8 \in Nat
    BY <1>2, QuotientNat
  <2> QED
    BY <2>3, <2>4, <1>1 DEF TooBig, c
<1>5. ASSUME opslimit >= file.ops PROVE ~TooSlow
  <2>1. 8 * (p * 128) \in Nat /\ p * 128 \in Nat
    BY <1>1
  <2>2. c * (8 * (p * 128)) <= opslimit
    <3>1. c * (8 * (p * 128)) = 1024 * c * p
      BY <1>1, <1>2
    <3>2. 1024 * c * p \in Nat
      BY <1>1, <1>2
    <3> QED
      BY <1>1, <1>2, <1>5
  <2>3. opslimit \div c \in Nat /\ (opslimit \div c) \div 8 \in Nat
        /\ ((opslimit \div c) \div 8) \div p \in Nat
    BY <1>1, <1>2, QuotientNat
  <2>4. 8 * (p * 128) <= opslimit \div c
    BY <2>1, <2>2, <1>2, Quotient
  <2>5. p * 128 <= (opslimit \div c) \div 8
    BY <2>1, <2>3, <2>4, Quotient
  <2>6. 128 <= ((opslimit \div c) \div 8) \div p
    BY <2>3, <2>5, <1>1, Quotient
  <2> QED
    BY <2>3, <2>6, <1>1 DEF TooSlow, c
<1> QED
  BY <1>3, <1>4, <1>5

\* display_params: the saturated product is the product where it fits.
LEMMA MinimumTrue ==
  ASSUME TypeOK, ~Insane
  PROVE  MemMinimum \in Nat /\ MemMinimum = Least(128 * r * Pow2[logN], U64)
<1> DEFINE c == Pow2[logN]
<1>1. c \in Nat \ {0} /\ r \in Nat /\ U64 \in Nat
  <2>1. logN \in 1..MaxLogN
    BY Pow2Assumption DEF TypeOK, Insane
  <2> QED
    BY <2>1, Powers, LimitsAssumption DEF TypeOK
<1> HIDE DEF c
<1>2. r <= (U64 \div 128) \div c <=> 128 * (c * r) <= U64
  <2>1. U64 \div 128 \in Nat /\ c * r \in Nat
    BY <1>1, QuotientNat
  <2>2. r <= (U64 \div 128) \div c <=> c * r <= U64 \div 128
    BY <2>1, <1>1, Quotient
  <2>3. c * r <= U64 \div 128 <=> 128 * (c * r) <= U64
    BY <2>1, <1>1, Quotient
  <2> QED
    BY <2>2, <2>3
<1>3. 128 * (c * r) = 128 * r * c /\ 128 * r * c \in Nat /\ (U64 \div 128) \div c \in Nat
  BY <1>1, QuotientNat
<1> QED
  BY <1>1 DEF MemMinimum, Least, c

-----------------------------------------------------------------------------
\* The invariant holds before the first operation.
LEMMA InitInvariant == Init => IInv
<1> SUFFICES ASSUME Init PROVE IInv
  OBVIOUS
<1>1. TypeOK
  <2>1. Flags /\ file \in Files
    BY DEF Init, Flags, NoFile, Files
  <2> QED
    BY <2>1, LimitsAssumption DEF Init, TypeOK, PCs, Codes
<1>2. FileSane /\ FromFile /\ Places /\ Limited /\ Looping /\ Picked
  BY DEF Init, NoFile, FileSane, FromFile, Places, Limited, Looping, Picked
<1>3. DecryptsUnderSameLimits /\ ShownIsTrue
  BY DEF Init, DecryptsUnderSameLimits, ShownIsTrue
<1> QED
  BY <1>1, <1>2, <1>3 DEF IInv

\* Starting an encryption preserves the invariant.
LEMMA EncryptPreserves == IInv /\ Encrypt => IInv'
<1> SUFFICES ASSUME IInv, Encrypt PROVE IInv'
  OBVIOUS
<1>1. TypeOK'
  <2>1. Flags'
    BY DEF Encrypt, Flags
  <2>2. file' \in Files
    BY DEF IInv, TypeOK, Encrypt
  <2>3. logN' \in Nat /\ r' \in Nat /\ p' \in Nat /\ shown' \in Nat
    BY InputsAssumption DEF IInv, Encrypt, params, TypeOK
  <2>4. maxmem' \in Nat /\ memlimit' \in 0..SizeMax /\ opslimit' \in Nat
    BY InputsAssumption DEF IInv, Encrypt, limits, TypeOK
  <2>5. pc' \in PCs /\ op' \in {"enc", "dec", "info"} /\ rc' \in Codes
    BY DEF IInv, Encrypt, Goto, TypeOK, PCs
  <2> QED
    BY <2>1, <2>2, <2>3, <2>4, <2>5 DEF TypeOK
<1>2. FileSane' /\ FromFile'
  BY DEF IInv, Encrypt, FileSane, FromFile
<1>3. Places'
  BY DEF Encrypt, Goto, Places, picked
<1>4. Limited'
  BY DEF Encrypt, Goto, Limited
<1>5. Looping'
  BY DEF Encrypt, Goto, Looping
<1>6. Picked'
  BY DEF Encrypt, Goto, Picked
<1>7. DecryptsUnderSameLimits'
  BY DEF Encrypt, DecryptsUnderSameLimits
<1>8. ShownIsTrue'
  BY DEF Encrypt, ShownIsTrue
<1> QED
  BY <1>1, <1>2, <1>3, <1>4, <1>5, <1>6, <1>7, <1>8 DEF IInv

\* Starting a decryption preserves the invariant.
LEMMA DecryptPreserves == IInv /\ Decrypt => IInv'
<1> SUFFICES ASSUME IInv, Decrypt PROVE IInv'
  OBVIOUS
<1>1. TypeOK'
  <2>1. Flags'
    BY DEF Decrypt, Flags
  <2>2. file' \in Files
    BY DEF IInv, TypeOK, Decrypt
  <2>3. logN' \in Nat /\ r' \in Nat /\ p' \in Nat /\ shown' \in Nat
    BY InputsAssumption DEF IInv, Decrypt, TypeOK, Files
  <2>4. maxmem' \in Nat /\ memlimit' \in 0..SizeMax /\ opslimit' \in Nat
    BY InputsAssumption, LimitsAssumption DEF Decrypt
  <2>5. pc' \in PCs /\ op' \in {"enc", "dec", "info"} /\ rc' \in Codes
    BY DEF Decrypt, PCs, Codes
  <2> QED
    BY <2>1, <2>2, <2>3, <2>4, <2>5 DEF TypeOK
<1>2. FileSane' /\ FromFile'
  BY DEF IInv, Decrypt, FileSane, FromFile
<1>3. Places'
  BY DEF Decrypt, Places, picked
<1>4. Limited'
  BY DEF Decrypt, Limited
<1>5. Looping'
  BY DEF Decrypt, Looping
<1>6. Picked'
  BY DEF Decrypt, Picked
<1>7. DecryptsUnderSameLimits'
  BY DEF Decrypt, DecryptsUnderSameLimits
<1>8. ShownIsTrue'
  BY DEF Decrypt, ShownIsTrue
<1> QED
  BY <1>1, <1>2, <1>3, <1>4, <1>5, <1>6, <1>7, <1>8 DEF IInv

\* Measuring the memory preserves the invariant.
LEMMA MemToUsePreserves == IInv /\ MemToUse => IInv'
<1> SUFFICES ASSUME IInv, MemToUse PROVE IInv'
  OBVIOUS
<1>1. TypeOK'
  <2>1. Flags'
    BY DEF IInv, TypeOK, MemToUse, args, Flags
  <2>2. file' \in Files
    BY DEF IInv, TypeOK, MemToUse
  <2>3. logN' \in Nat /\ r' \in Nat /\ p' \in Nat /\ shown' \in Nat
    BY DEF IInv, MemToUse, params, TypeOK
  <2>4. maxmem' \in Nat /\ memlimit' \in 0..SizeMax /\ opslimit' \in Nat
    BY InputsAssumption, LimitsAssumption DEF IInv, MemToUse, MemAvail, Least, Greatest,
       args, TypeOK
  <2>5. pc' \in PCs /\ op' \in {"enc", "dec", "info"} /\ rc' \in Codes
    BY DEF IInv, MemToUse, Return, Goto, args, TypeOK, PCs, Codes
  <2> QED
    BY <2>1, <2>2, <2>3, <2>4, <2>5 DEF TypeOK
<1>2. FileSane' /\ FromFile'
  BY DEF IInv, MemToUse, args, params, FileSane, FromFile
<1>3. Places'
  BY DEF IInv, MemToUse, Return, Goto, args, params, Places, Insane, picked
<1>4. Limited'
  BY LimitsAssumption, InputsAssumption DEF IInv, MemToUse, Return, Goto, MemAvail, Least,
     Greatest, TypeOK, Limited
<1>5. Looping'
  BY DEF MemToUse, Return, Goto, Looping
<1>6. Picked'
  BY DEF MemToUse, Return, Goto, Picked
<1>7. DecryptsUnderSameLimits'
  BY DEF MemToUse, Return, Goto, DecryptsUnderSameLimits
<1>8. ShownIsTrue'
  BY DEF MemToUse, Return, Goto, ShownIsTrue
<1> QED
  BY <1>1, <1>2, <1>3, <1>4, <1>5, <1>6, <1>7, <1>8 DEF IInv

\* Measuring the speed preserves the invariant.
LEMMA CpuPerfPreserves == IInv /\ CpuPerf => IInv'
<1> SUFFICES ASSUME IInv, CpuPerf PROVE IInv'
  OBVIOUS
<1>1. TypeOK'
  <2>1. Flags'
    BY DEF IInv, TypeOK, CpuPerf, args, Flags
  <2>2. file' \in Files
    BY DEF IInv, TypeOK, CpuPerf
  <2>3. logN' \in Nat /\ r' \in Nat /\ p' \in Nat /\ shown' \in Nat
    BY DEF IInv, CpuPerf, params, TypeOK
  <2>4. maxmem' \in Nat /\ memlimit' \in 0..SizeMax /\ opslimit' \in Nat
    BY InputsAssumption, LimitsAssumption DEF IInv, CpuPerf, AllowedOps, Greatest, args,
       TypeOK
  <2>5. pc' \in PCs /\ op' \in {"enc", "dec", "info"} /\ rc' \in Codes
    BY DEF IInv, CpuPerf, Return, Goto, args, TypeOK, PCs, Codes
  <2> QED
    BY <2>1, <2>2, <2>3, <2>4, <2>5 DEF TypeOK
<1>2. FileSane' /\ FromFile'
  BY DEF IInv, CpuPerf, args, params, FileSane, FromFile
<1>3. Places'
  BY DEF IInv, CpuPerf, Return, Goto, args, params, Places, Insane, picked
<1>4. Limited'
  BY LimitsAssumption, InputsAssumption DEF IInv, CpuPerf, Return, AllowedOps, Greatest,
     args, Limited, picked
<1>5. Looping'
  BY DEF CpuPerf, Return, Goto, Looping
<1>6. Picked'
  BY DEF CpuPerf, Return, Goto, Picked
<1>7. DecryptsUnderSameLimits'
  BY DEF CpuPerf, Return, Goto, DecryptsUnderSameLimits
<1>8. ShownIsTrue'
  BY DEF CpuPerf, Return, Goto, ShownIsTrue
<1> QED
  BY <1>1, <1>2, <1>3, <1>4, <1>5, <1>6, <1>7, <1>8 DEF IInv

\* Starting the loops preserves the invariant.
LEMMA PickStartPreserves == IInv /\ PickStart => IInv'
<1> SUFFICES ASSUME IInv, PickStart PROVE IInv'
  OBVIOUS
<1>1. TypeOK'
  <2>1. Flags'
    BY DEF IInv, TypeOK, PickStart, args, Flags
  <2>2. file' \in Files
    BY DEF IInv, TypeOK, PickStart
  <2>3. logN' \in Nat /\ r' \in Nat /\ p' \in Nat /\ shown' \in Nat
    BY DEF IInv, PickStart, TypeOK
  <2>4. maxmem' \in Nat /\ memlimit' \in 0..SizeMax /\ opslimit' \in Nat
    BY DEF IInv, PickStart, args, limits, TypeOK
  <2>5. pc' \in PCs /\ op' \in {"enc", "dec", "info"} /\ rc' \in Codes
    BY DEF IInv, PickStart, Goto, args, TypeOK, PCs
  <2> QED
    BY <2>1, <2>2, <2>3, <2>4, <2>5 DEF TypeOK
<1>2. FileSane' /\ FromFile'
  BY DEF IInv, PickStart, args, FileSane, FromFile, Places, picked
<1>3. Places'
  BY DEF IInv, PickStart, Goto, args, Places, picked
<1>4. Limited'
  BY DEF IInv, PickStart, limits, Places, Limited
<1>5. Looping'
  BY Pow2Assumption DEF PickStart, Goto, Looping
<1>6. Picked'
  BY DEF PickStart, Goto, Picked
<1>7. DecryptsUnderSameLimits'
  BY DEF PickStart, Goto, DecryptsUnderSameLimits
<1>8. ShownIsTrue'
  BY DEF PickStart, Goto, ShownIsTrue
<1> QED
  BY <1>1, <1>2, <1>3, <1>4, <1>5, <1>6, <1>7, <1>8 DEF IInv

\* A step of the loops preserves the invariant.
LEMMA PickLoopPreserves == IInv /\ PickLoop => IInv'
<1> SUFFICES ASSUME IInv, PickLoop PROVE IInv'
  OBVIOUS
<1>1. TypeOK'
  <2>1. Flags'
    BY DEF IInv, TypeOK, PickLoop, args, Flags
  <2>2. file' \in Files
    BY DEF IInv, TypeOK, PickLoop
  <2>3. logN' \in Nat /\ r' \in Nat /\ p' \in Nat /\ shown' \in Nat
    BY DEF IInv, PickLoop, TypeOK
  <2>4. maxmem' \in Nat /\ memlimit' \in 0..SizeMax /\ opslimit' \in Nat
    BY DEF IInv, PickLoop, args, limits, TypeOK
  <2>5. pc' \in PCs /\ op' \in {"enc", "dec", "info"} /\ rc' \in Codes
    BY DEF IInv, PickLoop, Goto, args, TypeOK, PCs
  <2> QED
    BY <2>1, <2>2, <2>3, <2>4, <2>5 DEF TypeOK
<1>2. FileSane' /\ FromFile'
  BY DEF IInv, PickLoop, args, FileSane, FromFile, Places, picked
<1>3. Places'
  BY DEF IInv, PickLoop, Goto, args, Places, picked
<1>4. Limited'
  BY DEF IInv, PickLoop, limits, Places, Limited
<1>5. Looping'
  <2>1. \A x : Above(x)' <=> Above(x)
    BY DEF PickLoop, limits, Above, CpuBound
  <2>2. logN \in 1..MaxLogN /\ MaxLogN \in Nat
    BY Pow2Assumption DEF IInv, PickLoop, Looping
  <2>3. CASE logN < MaxLogN /\ ~Above(Pow2[logN]) /\ logN' = logN + 1 /\ UNCHANGED <<pc, rc>>
    <3>1. logN' \in 1..MaxLogN /\ logN' - 1 = logN /\ pc' = "loop"
      BY <2>2, <2>3 DEF PickLoop
    <3>2. r' = 8 /\ p' = 1
      BY DEF IInv, PickLoop, Looping
    <3> QED
      BY <2>1, <2>3, <3>1, <3>2 DEF Looping
  <2>4. CASE ~(logN < MaxLogN /\ ~Above(Pow2[logN])) /\ UNCHANGED logN /\ Goto("choose_p")
    BY <2>1, <2>2 DEF IInv, PickLoop, Looping
  <2> QED
    BY <2>3, <2>4 DEF PickLoop
<1>6. Picked'
  BY DEF PickLoop, Goto, Picked
<1>7. DecryptsUnderSameLimits'
  BY DEF PickLoop, Goto, DecryptsUnderSameLimits
<1>8. ShownIsTrue'
  BY DEF PickLoop, Goto, ShownIsTrue
<1> QED
  BY <1>1, <1>2, <1>3, <1>4, <1>5, <1>6, <1>7, <1>8 DEF IInv

\* Picking p preserves the invariant.
LEMMA PickPPreserves == IInv /\ PickP => IInv'
<1> SUFFICES ASSUME IInv, PickP PROVE IInv'
  OBVIOUS
<1>1. TypeOK'
  <2>1. Flags'
    BY DEF IInv, TypeOK, PickP, args, Flags
  <2>2. file' \in Files
    BY DEF IInv, TypeOK, PickP
  <2>3. logN' \in Nat /\ r' \in Nat /\ p' \in Nat /\ shown' \in Nat
    BY PickedFits DEF IInv, PickP, TypeOK, Limited, Looping, Places
  <2>4. maxmem' \in Nat /\ memlimit' \in 0..SizeMax /\ opslimit' \in Nat
    BY DEF IInv, PickP, args, limits, TypeOK
  <2>5. pc' \in PCs /\ op' \in {"enc", "dec", "info"} /\ rc' \in Codes
    BY DEF IInv, PickP, NoMemoryToShow, Return, Goto, args, TypeOK, PCs, Codes
  <2> QED
    BY <2>1, <2>2, <2>3, <2>4, <2>5 DEF TypeOK
<1>2. FileSane' /\ FromFile'
  BY DEF IInv, PickP, args, FileSane, FromFile, Places, picked
<1>3. Places'
  BY DEF IInv, PickP, NoMemoryToShow, Return, Goto, args, Places, picked
<1>4. Limited'
  BY DEF IInv, PickP, limits, Places, Limited
<1>5. Looping'
  BY DEF PickP, NoMemoryToShow, Return, Goto, Looping
<1>6. Picked'
  <2>1. PickedP(Pow2[logN]) = p' /\ logN' = logN /\ r' = r /\ r = 8 /\ UNCHANGED limits /\ logN \in 1..MaxLogN
    BY DEF IInv, Looping, PickP
  <2> QED
    BY PickedFits DEF IInv, PickP, Places, Looping, Limited, Picked, limits
<1>7. DecryptsUnderSameLimits'
  BY DEF PickP, NoMemoryToShow, Return, Goto, DecryptsUnderSameLimits
<1>8. ShownIsTrue'
  BY DEF PickP, NoMemoryToShow, Return, Goto, ShownIsTrue
<1> QED
  BY <1>1, <1>2, <1>3, <1>4, <1>5, <1>6, <1>7, <1>8 DEF IInv

\* The first checks preserves the invariant.
LEMMA SanityPreserves == IInv /\ Sanity => IInv'
<1> SUFFICES ASSUME IInv, Sanity PROVE IInv'
  OBVIOUS
<1>1. TypeOK'
  <2>1. Flags'
    BY DEF IInv, TypeOK, Sanity, args, Flags
  <2>2. file' \in Files
    BY DEF IInv, TypeOK, Sanity
  <2>3. logN' \in Nat /\ r' \in Nat /\ p' \in Nat /\ shown' \in Nat
    BY DEF IInv, Sanity, params, TypeOK
  <2>4. maxmem' \in Nat /\ memlimit' \in 0..SizeMax /\ opslimit' \in Nat
    BY DEF IInv, Sanity, args, limits, TypeOK
  <2>5. pc' \in PCs /\ op' \in {"enc", "dec", "info"} /\ rc' \in Codes
    BY DEF IInv, Sanity, NoMemoryToShow, Return, Goto, args, TypeOK, PCs, Codes
  <2> QED
    BY <2>1, <2>2, <2>3, <2>4, <2>5 DEF TypeOK
<1>2. FileSane' /\ FromFile'
  BY DEF IInv, Sanity, args, params, FileSane, FromFile
<1>3. Places'
  BY DEF Sanity, NoMemoryToShow, Return, Goto, args, params, Places, Insane, picked
<1>4. Limited'
  BY DEF IInv, Sanity, args, Places, Limited, picked
<1>5. Looping'
  BY DEF Sanity, NoMemoryToShow, Return, Goto, Looping
<1>6. Picked'
  BY DEF IInv, Sanity, args, Places, Picked, picked
<1>7. DecryptsUnderSameLimits'
  BY FileFits DEF IInv, Sanity, NoMemoryToShow, Return, Goto, args, DecryptsUnderSameLimits
<1>8. ShownIsTrue'
  BY DEF Sanity, NoMemoryToShow, Return, Goto, ShownIsTrue
<1> QED
  BY <1>1, <1>2, <1>3, <1>4, <1>5, <1>6, <1>7, <1>8 DEF IInv

\* Displaying the parameters preserves the invariant.
LEMMA DisplayPreserves == IInv /\ Display => IInv'
<1> SUFFICES ASSUME IInv, Display PROVE IInv'
  OBVIOUS
<1>1. TypeOK'
  <2>1. Flags'
    BY DEF IInv, TypeOK, Display, args, Flags
  <2>2. file' \in Files
    BY DEF IInv, TypeOK, Display
  <2>3. logN' \in Nat /\ r' \in Nat /\ p' \in Nat /\ shown' \in Nat
    BY MinimumTrue DEF IInv, Display, params, TypeOK, Places
  <2>4. maxmem' \in Nat /\ memlimit' \in 0..SizeMax /\ opslimit' \in Nat
    BY DEF IInv, Display, args, limits, TypeOK
  <2>5. pc' \in PCs /\ op' \in {"enc", "dec", "info"} /\ rc' \in Codes
    BY DEF IInv, Display, NoMemoryToShow, Return, args, TypeOK, PCs, Codes
  <2> QED
    BY <2>1, <2>2, <2>3, <2>4, <2>5 DEF TypeOK
<1>2. FileSane' /\ FromFile'
  BY DEF IInv, Display, args, params, FileSane, FromFile
<1>3. Places'
  BY DEF Display, NoMemoryToShow, Return, Places
<1>4. Limited'
  BY DEF Display, NoMemoryToShow, Return, Limited
<1>5. Looping'
  BY DEF Display, NoMemoryToShow, Return, Looping
<1>6. Picked'
  BY DEF Display, NoMemoryToShow, Return, Picked
<1>7. DecryptsUnderSameLimits'
  BY DEF Display, NoMemoryToShow, Return, DecryptsUnderSameLimits
<1>8. ShownIsTrue'
  BY MinimumTrue DEF IInv, Display, NoMemoryToShow, Return, params, Places, ShownIsTrue
<1> QED
  BY <1>1, <1>2, <1>3, <1>4, <1>5, <1>6, <1>7, <1>8 DEF IInv

\* The limits preserves the invariant.
LEMMA LimitsPreserves == IInv /\ Limits => IInv'
<1> SUFFICES ASSUME IInv, Limits PROVE IInv'
  OBVIOUS
<1>1. TypeOK'
  <2>1. Flags'
    BY DEF IInv, TypeOK, Limits, args, Flags
  <2>2. file' \in Files
    BY DEF IInv, TypeOK, Limits
  <2>3. logN' \in Nat /\ r' \in Nat /\ p' \in Nat /\ shown' \in Nat
    BY DEF IInv, Limits, params, TypeOK
  <2>4. maxmem' \in Nat /\ memlimit' \in 0..SizeMax /\ opslimit' \in Nat
    BY DEF IInv, Limits, args, limits, TypeOK
  <2>5. pc' \in PCs /\ op' \in {"enc", "dec", "info"} /\ rc' \in Codes
    BY DEF IInv, Limits, NoMemoryToShow, Return, Goto, args, TypeOK, PCs, Codes, Verdict
  <2> QED
    BY <2>1, <2>2, <2>3, <2>4, <2>5 DEF TypeOK
<1>2. FileSane' /\ FromFile'
  BY DEF IInv, Limits, args, params, FileSane, FromFile
<1>3. Places'
  BY DEF IInv, Limits, NoMemoryToShow, Return, Goto, args, params, Places, Insane
<1>4. Limited'
  BY DEF IInv, Limits, args, Places, Limited, picked
<1>5. Looping'
  BY DEF Limits, NoMemoryToShow, Return, Goto, Looping
<1>6. Picked'
  BY DEF IInv, Limits, args, Places, Picked, picked
<1>7. DecryptsUnderSameLimits'
  BY FileFits DEF IInv, Limits, NoMemoryToShow, Return, Goto, limits, TypeOK, Places,
     DecryptsUnderSameLimits, Verdict
<1>8. ShownIsTrue'
  BY DEF Limits, NoMemoryToShow, Return, Goto, ShownIsTrue
<1> QED
  BY <1>1, <1>2, <1>3, <1>4, <1>5, <1>6, <1>7, <1>8 DEF IInv

\* The checks of crypto_scrypt preserves the invariant.
LEMMA DerivePreserves == IInv /\ Derive => IInv'
<1> SUFFICES ASSUME IInv, Derive PROVE IInv'
  OBVIOUS
<1>1. TypeOK'
  <2>1. Flags'
    BY DEF IInv, TypeOK, Derive, args, Flags
  <2>2. file' \in Files
    BY DEF IInv, TypeOK, Derive
  <2>3. logN' \in Nat /\ r' \in Nat /\ p' \in Nat /\ shown' \in Nat
    BY DEF IInv, Derive, params, TypeOK
  <2>4. maxmem' \in Nat /\ memlimit' \in 0..SizeMax /\ opslimit' \in Nat
    BY DEF IInv, Derive, args, limits, TypeOK
  <2>5. pc' \in PCs /\ op' \in {"enc", "dec", "info"} /\ rc' \in Codes
    BY DEF IInv, Derive, Return, Goto, args, TypeOK, PCs, Codes
  <2> QED
    BY <2>1, <2>2, <2>3, <2>4, <2>5 DEF TypeOK
<1>2. FileSane' /\ FromFile'
  BY DEF IInv, Derive, args, params, FileSane, FromFile
<1>3. Places'
  BY DEF IInv, Derive, Return, Goto, args, params, Places, Insane, picked
<1>4. Limited'
  BY DEF IInv, Derive, args, limits, Limited, picked
<1>5. Looping'
  BY DEF Derive, Return, Goto, Looping
<1>6. Picked'
  BY DEF IInv, Derive, args, limits, params, Picked, picked
<1>7. DecryptsUnderSameLimits'
  BY DEF Derive, Return, Goto, DecryptsUnderSameLimits
<1>8. ShownIsTrue'
  BY DEF Derive, Return, Goto, ShownIsTrue
<1> QED
  BY <1>1, <1>2, <1>3, <1>4, <1>5, <1>6, <1>7, <1>8 DEF IInv

\* The end of the derivation preserves the invariant.
LEMMA AllocatePreserves == IInv /\ Allocate => IInv'
<1> SUFFICES ASSUME IInv, Allocate PROVE IInv'
  OBVIOUS
<1>1. TypeOK'
  <2>1. Flags'
    BY DEF IInv, TypeOK, Allocate, args, Flags
  <2>2. file' \in Files
    <3>1. /\ logN \in Nat /\ r \in Nat /\ p \in Nat /\ opslimit \in Nat /\ memlimit \in Nat
          /\ (~explicit) \in BOOLEAN /\ file \in Files
      BY DEF IInv, TypeOK
    <3>2. TRUE \in BOOLEAN
      OBVIOUS
    <3> DEFINE new(b) == [made |-> TRUE, picked |-> b, mem |-> memlimit, ops |-> opslimit,
                          logN |-> logN, r |-> r, p |-> p]
    <3>3. \A b \in BOOLEAN : new(b) \in Files
      BY <3>1 DEF Files
    <3>4. new(~explicit) \in Files
      <4> HIDE DEF new
      <4> QED
        BY <3>1, <3>3
    <3> QED
      BY <3>1, <3>4 DEF Allocate
  <2>3. logN' \in Nat /\ r' \in Nat /\ p' \in Nat /\ shown' \in Nat
    BY DEF IInv, Allocate, params, TypeOK
  <2>4. maxmem' \in Nat /\ memlimit' \in 0..SizeMax /\ opslimit' \in Nat
    BY DEF IInv, Allocate, args, limits, TypeOK
  <2>5. pc' \in PCs /\ op' \in {"enc", "dec", "info"} /\ rc' \in Codes
    BY DEF IInv, Allocate, Return, args, TypeOK, PCs, Codes
  <2> QED
    BY <2>1, <2>2, <2>3, <2>4, <2>5 DEF TypeOK
<1>2. FileSane' /\ FromFile'
  <2>1. CASE op # "enc" \/ UNCHANGED file
    BY <2>1 DEF IInv, Allocate, args, params, FileSane, FromFile
  <2>2. CASE op = "enc" /\ file' = [made |-> TRUE, picked |-> ~explicit, mem |-> memlimit,
                                    ops |-> opslimit, logN |-> logN, r |-> r, p |-> p]
    <3>1. FromFile'
      BY <2>2 DEF Allocate, args, FromFile
    <3>2. file'.picked => picked
      BY <2>2 DEF picked
    <3>3. file'.logN = logN /\ file'.r = r /\ file'.p = p /\ file'.mem = memlimit /\ file'.ops = opslimit
      BY <2>2
    <3> QED
      BY <3>1, <3>2 DEF IInv, Allocate, Picked, FileSane
  <2> QED
    BY <2>1, <2>2 DEF Allocate
<1>3. Places'
  BY DEF Allocate, Return, Places
<1>4. Limited'
  BY DEF Allocate, Return, Limited
<1>5. Looping'
  BY DEF Allocate, Return, Looping
<1>6. Picked'
  BY DEF Allocate, Return, Picked
<1>7. DecryptsUnderSameLimits'
  BY DEF Allocate, Return, DecryptsUnderSameLimits
<1>8. ShownIsTrue'
  BY DEF IInv, Allocate, args, Places, ShownIsTrue
<1> QED
  BY <1>1, <1>2, <1>3, <1>4, <1>5, <1>6, <1>7, <1>8 DEF IInv

-----------------------------------------------------------------------------
\* The invariant is inductive.
LEMMA NextPreserves == IInv /\ [Next]_vars => IInv'
<1> SUFFICES ASSUME IInv, [Next]_vars PROVE IInv'
  OBVIOUS
<1>1. CASE Next
  BY <1>1, EncryptPreserves, DecryptPreserves, MemToUsePreserves, CpuPerfPreserves,
     PickStartPreserves, PickLoopPreserves, PickPPreserves, SanityPreserves,
     DisplayPreserves, LimitsPreserves, DerivePreserves, AllocatePreserves
     DEF Next, Steps, Picking, Checking
<1>2. CASE UNCHANGED vars
  BY <1>2 DEF vars, args, limits, params, IInv, TypeOK, Flags, Files, FileSane, FromFile,
     Places, Insane,
     Limited, Looping, Above, CpuBound, Picked, picked, DecryptsUnderSameLimits, ShownIsTrue
<1> QED
  BY <1>1, <1>2

\* The invariant holds in every state.
LEMMA Invariant == Spec => []IInv
BY InitInvariant, NextPreserves, PTL DEF Spec

\* Types hold.
THEOREM TypeCorrect == Spec => []TypeOK
<1>1. IInv => TypeOK
  BY DEF IInv
<1> QED
  BY <1>1, Invariant, PTL

\* (uint64_t)(1) << logN is defined wherever it is evaluated, for every header
\* and also under -f.
THEOREM ShiftsAreDefined == Spec => []ShiftsDefined
<1>1. IInv => ShiftsDefined
  <2> SUFFICES ASSUME IInv, pc \in {"loop", "choose_p", "display", "limits", "derive", "allocate"}
               PROVE  logN \in 1..MaxLogN
    BY DEF ShiftsDefined
  <2>1. CASE pc \in {"loop", "choose_p"}
    BY <2>1 DEF IInv, Looping
  <2>2. CASE picked /\ pc \in {"derive", "allocate"}
    BY <2>2 DEF IInv, Picked
  <2>3. CASE pc \in {"display", "limits", "derive", "allocate"} /\ ~Insane
    BY <2>3, Pow2Assumption DEF IInv, TypeOK, Insane
  <2> QED
    BY <2>1, <2>2, <2>3 DEF IInv, Places
<1> QED
  BY <1>1, Invariant, PTL

\* pickparams keeps what it was told: its N, r and p need at most the memory
\* and the time allowed, and are never so small that nothing is computed.
THEOREM LimitsKept == Spec => []PickedWithinLimits
<1>1. ASSUME IInv PROVE PickedWithinLimits
  <2> SUFFICES ASSUME pc \in {"derive", "allocate"}, picked
               PROVE  /\ 128 * r * Pow2[logN] <= memlimit
                      /\ 128 * Pow2[logN] * r * p <= opslimit
                      /\ p >= 1 /\ ~Insane
    BY DEF PickedWithinLimits
  <2> DEFINE c == Pow2[logN]
  <2>1. /\ logN \in 1..MaxLogN /\ r = 8 /\ p \in Nat /\ p >= 1 /\ r * p < RPLimit
        /\ 1024 * c <= memlimit /\ 1024 * c * p <= opslimit
    BY <1>1 DEF IInv, TypeOK, Picked
  <2>2. c \in Nat
    BY <2>1, Powers
  <2>3. r * p \in Nat
    BY <2>1
  <2>4. ~Insane
    BY <2>1, Pow2Assumption, LimitsAssumption DEF Insane
  <2> HIDE DEF c
  <2>5. 128 * r * c = 1024 * c /\ 128 * c * r * p = 1024 * c * p
    BY <2>1, <2>2
  <2>6. 128 * r * c <= memlimit /\ 128 * c * r * p <= opslimit
    BY <2>1, <2>5
  <2> QED
    BY <2>1, <2>4, <2>6 DEF c
<1> QED
  BY <1>1, Invariant, PTL

\* ... and they are the strongest: with twice the N a limit would be exceeded.
THEOREM StrongestPicked == Spec => []PickedIsStrongest
<1>1. ASSUME IInv PROVE PickedIsStrongest
  <2> SUFFICES ASSUME pc \in {"derive", "allocate"}, picked
               PROVE  \/ 128 * r * (2 * Pow2[logN]) > memlimit
                      \/ 128 * (2 * Pow2[logN]) * r > opslimit
    BY DEF PickedIsStrongest
  <2>1. logN \in 1..MaxLogN /\ r = 8
        /\ (2048 * Pow2[logN] > memlimit \/ 2048 * Pow2[logN] > opslimit)
    BY <1>1 DEF IInv, Picked
  <2>2. Pow2[logN] \in Nat
    BY <2>1, Powers
  <2> QED
    BY <2>1, <2>2
<1> QED
  BY <1>1, Invariant, PTL

\* What was encrypted with picked parameters can be decrypted by every machine
\* that is allowed as much memory and time.
THEOREM SameLimitsSuffice == Spec => []DecryptsUnderSameLimits
<1>1. IInv => DecryptsUnderSameLimits
  BY DEF IInv
<1> QED
  BY <1>1, Invariant, PTL

\* scrypt info prints the memory that is needed, saturated at 64 bits.
THEOREM InfoCorrect == Spec => []ShownIsTrue
<1>1. IInv => ShownIsTrue
  BY DEF IInv
<1> QED
  BY <1>1, Invariant, PTL
=============================================================================
