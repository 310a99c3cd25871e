-------------------------------- MODULE Params --------------------------------
(***************************************************************************)
(* The choice of the scrypt parameters N = 2^logN, r and p when encrypting *)
(* (memtouse, pickparams), and the decision whether those of a header are  *)
(* acceptable when decrypting (checkparams, and the checks of              *)
(* crypto_scrypt).  The memory and the speed of the machine are measured   *)
(* anew by each call; what a measurement says is an input.                 *)
(*                                                                         *)
(* opslimit is a double in the code.  Here it counts 32nds of an operation *)
(* of salsa20/8, rounded down: what it is compared with is a whole number  *)
(* of those.  The rounding of doubles is not modelled.                     *)
(***************************************************************************)
EXTENDS Integers

CONSTANTS
  Pow2,        \* Pow2[n] = 2^n, for the shift counts that are defined
  MaxLogN,     \* the largest of them: 63
  MiB,         \* the least memory limit: 2^20
  OpsFloor,    \* the least opslimit when parameters are picked: 32 * 2^15
  RPLimit,     \* r * p is less than this: 2^30
  SizeMax,     \* SIZE_MAX
  U32, U64,    \* 2^32 and UINT64_MAX
  Memories,    \* bound: values of maxmemfrac times the memory there is
  Speeds,      \* bound: values of opps * maxtime, in 32nds
  MaxMems,     \* bound: values of -M, 0 if it is not given
  LogNs, Rs, Ps   \* bound: values in a header or on the command line

ASSUME Pow2Assumption ==
  /\ MaxLogN \in Nat /\ MaxLogN >= 2
  /\ Pow2 \in [0..MaxLogN -> Nat \ {0}] /\ Pow2[0] = 1
  /\ \A n \in 1..MaxLogN : Pow2[n] = 2 * Pow2[n - 1]
ASSUME LimitsAssumption ==
  /\ MiB \in Nat /\ MiB >= 2048
  /\ OpsFloor \in Nat /\ OpsFloor >= 2048
  /\ RPLimit \in Nat /\ RPLimit > 8 /\ U32 \in Nat /\ U64 \in Nat
  /\ SizeMax \in Nat /\ SizeMax < 1024 * Pow2[MaxLogN]
ASSUME InputsAssumption ==
  /\ Memories \subseteq Nat /\ MaxMems \subseteq Nat /\ Speeds \subseteq Nat
  /\ LogNs \subseteq Nat /\ Rs \subseteq Nat /\ Ps \subseteq Nat
  /\ \A m \in Memories \cup {MiB} : m <= SizeMax

VARIABLES
  pc,
  op,          \* "enc", "dec" or "info"
  explicit,    \* --logN, -r and -p are given
  force,       \* -f
  maxmem,      \* -M
  memlimit, opslimit,
  logN, r, p,
  shown,       \* the mem_minimum that display_params printed
  rc,
  file         \* the limits under which a header was made, and what it says

args == <<op, explicit, force, maxmem>>
limits == <<memlimit, opslimit>>
params == <<logN, r, p>>
vars == <<pc, args, limits, params, shown, rc, file>>

-----------------------------------------------------------------------------
NoFile == [made |-> FALSE, picked |-> FALSE, mem |-> 0, ops |-> 0, logN |-> 0, r |-> 0, p |-> 0]
Least(a, b) == IF a < b THEN a ELSE b
Greatest(a, b) == IF a > b THEN a ELSE b

Init ==
  /\ pc = "start" /\ op = "enc" /\ explicit = FALSE /\ force = FALSE /\ maxmem = 0
  /\ memlimit = 0 /\ opslimit = 0 /\ logN = 0 /\ r = 0 /\ p = 0
  /\ shown = 0 /\ rc = "OK" /\ file = NoFile

Return(code) == pc' = "returned" /\ rc' = code
Goto(where) == pc' = where /\ UNCHANGED rc

\* scrypt enc, with or without explicit parameters.
Encrypt ==
  /\ pc = "start"
  /\ op' = "enc" /\ explicit' \in BOOLEAN /\ force' \in BOOLEAN /\ maxmem' \in MaxMems
  /\ IF explicit'
       THEN /\ logN' \in LogNs \ {0} /\ r' \in Rs \ {0} /\ p' \in Ps \ {0}
            /\ Goto("sanity")
       ELSE UNCHANGED params /\ Goto("memory")
  /\ UNCHANGED <<limits, shown, file>>

\* scrypt dec or info of the file that was made, or of any file at all.
Decrypt ==
  /\ pc = "start" \/ (pc = "returned" /\ op = "enc" /\ rc = "OK")
  /\ op' \in {"dec", "info"} /\ explicit' = FALSE /\ force' \in BOOLEAN
  /\ maxmem' \in MaxMems
  /\ IF file.made
       THEN logN' = file.logN /\ r' = file.r /\ p' = file.p
       ELSE logN' \in LogNs /\ r' \in Rs /\ p' \in Ps
  /\ pc' = "sanity" /\ rc' = "OK"
  /\ memlimit' = 0 /\ opslimit' = 0
  /\ UNCHANGED <<shown, file>>

\* memtouse: the least of maxmemfrac times what there is and maxmem, but 1 MiB.
MemAvail(avail) == IF maxmem > 0 THEN Least(avail, maxmem) ELSE avail
MemToUse ==
  /\ pc = "memory"
  /\ \/ Return("ELIMIT") /\ UNCHANGED memlimit
     \/ /\ \E avail \in Memories : memlimit' = Greatest(MemAvail(avail), MiB)
        /\ Goto("speed")
  /\ UNCHANGED <<args, opslimit, params, shown, file>>

AllowedOps_NoFloor(ops) == ops                      \* mutant
AllowedOps(ops) == IF op = "enc" /\ ~explicit THEN Greatest(ops, OpsFloor) ELSE ops

\* scryptenc_cpuperf; picking parameters allows a minimum.
CpuPerf ==
  /\ pc = "speed"
  /\ \/ \E code \in {"ECLOCK", "EKEY"} : Return(code) /\ UNCHANGED opslimit
     \/ /\ \E ops \in Speeds : opslimit' = AllowedOps(ops)
        /\ Goto(IF op = "enc" /\ ~explicit THEN "pick" ELSE "limits")
  /\ UNCHANGED <<args, memlimit, params, shown, file>>
-----------------------------------------------------------------------------
CpuBound == opslimit < memlimit

\* pickparams: r = 8, and the loops over logN start.
PickStart ==
  /\ pc = "pick"
  /\ r' = 8 /\ p' = 1 /\ logN' = 1
  /\ Goto("loop")
  /\ UNCHANGED <<args, limits, shown, file>>

\* checkN > maxN / 2.
Above_Early(checkN) ==                  \* mutant: stops a step early
  IF CpuBound THEN 4096 * checkN > opslimit ELSE 4 * checkN > memlimit \div 1024
Above(checkN) ==
  IF CpuBound THEN 2048 * checkN > opslimit ELSE 2 * checkN > memlimit \div 1024

PickLoop ==
  /\ pc = "loop"
  /\ IF logN < MaxLogN /\ ~Above(Pow2[logN])
       THEN logN' = logN + 1 /\ UNCHANGED <<pc, rc>>
       ELSE UNCHANGED logN /\ Goto("choose_p")
  /\ UNCHANGED <<args, limits, r, p, shown, file>>

PickedP_NoCap(checkN) ==                \* mutant: forgets 0x3fffffff
  IF CpuBound THEN 1 ELSE ((opslimit \div 128) \div checkN) \div r
PickedP(checkN) ==
  IF CpuBound THEN 1 ELSE Least((opslimit \div 128) \div checkN, RPLimit - 1) \div r

\* display_params of -v finds no memory for what it prints; see Display for it.
NoMemoryToShow == Return("ENOMEM")

PickP ==
  /\ pc = "choose_p"
  /\ p' = PickedP(Pow2[logN])
  /\ Goto("derive") \/ NoMemoryToShow
  /\ UNCHANGED <<args, limits, logN, r, shown, file>>
-----------------------------------------------------------------------------
Insane_Unforced ==                      \* mutant: -f skips it all
  ~force /\ (logN < 1 \/ logN > MaxLogN \/ r * p >= RPLimit \/ r = 0 \/ p = 0)
Insane == logN < 1 \/ logN > MaxLogN \/ r * p >= RPLimit \/ r = 0 \/ p = 0

\* The first checks of checkparams, and those of scryptdec_file_printparams.
Sanity ==
  /\ pc = "sanity"
  /\ IF Insane THEN Return(IF op = "enc" THEN "EPARAM" ELSE "EINVAL")
       ELSE \/ Goto(IF op = "info" THEN "display" ELSE IF force THEN "derive" ELSE "memory")
            \/ op # "info" /\ force /\ NoMemoryToShow
  /\ UNCHANGED <<args, limits, params, shown, file>>

\* display_params: 128 r N in 64 bits, saturated.
MemMinimum_32 == ((128 * r) % U32) * Pow2[logN]     \* mutant: 128 r wraps
MemMinimum == IF r > (U64 \div 128) \div Pow2[logN] THEN U64 ELSE 128 * r * Pow2[logN]

Display ==
  /\ pc = "display"
  /\ \/ shown' = MemMinimum /\ Return("OK")
     \/ NoMemoryToShow /\ UNCHANGED shown
  /\ UNCHANGED <<args, limits, params, file>>

TooBig == (memlimit \div Pow2[logN]) \div r < 128
TooSlow == ((opslimit \div Pow2[logN]) \div r) \div p < 128
Verdict == IF TooBig /\ TooSlow THEN "EBIGSLOW"
           ELSE IF TooBig THEN "ETOOBIG" ELSE IF TooSlow THEN "ETOOSLOW" ELSE "OK"

\* The limits; an encryption with explicit parameters only warns.
Limits ==
  /\ pc = "limits"
  /\ \/ IF Verdict = "OK" \/ op = "enc" THEN Goto("derive") ELSE Return(Verdict)
     \/ NoMemoryToShow
  /\ UNCHANGED <<args, limits, params, shown, file>>

\* The sizes of B, XY and V in bytes do not fit; XY's is asked only where a
\* 32-bit r could make it so.
TooLarge ==
  \/ r > (SizeMax \div 128) \div p
  \/ SizeMax \div 256 < U32 /\ r > (SizeMax - 64) \div 256
  \/ Pow2[logN] > (SizeMax \div 128) \div r

\* The checks of crypto_scrypt; what it computes and writes is elsewhere.
Derive ==
  /\ pc = "derive"
  /\ IF r = 0 \/ p = 0 \/ r * p >= RPLimit \/ Pow2[logN] < 2 \/ TooLarge
       THEN Return("EKEY")
       ELSE Goto("allocate")
  /\ UNCHANGED <<args, limits, params, shown, file>>

Allocate ==
  /\ pc = "allocate"
  /\ \/ /\ Return("OK")
        /\ file' = IF op = "enc" THEN [made |-> TRUE, picked |-> ~explicit, mem |-> memlimit,
                                       ops |-> opslimit, logN |-> logN, r |-> r, p |-> p]
                                 ELSE file
     \/ Return("EKEY") /\ UNCHANGED file
  /\ UNCHANGED <<args, limits, params, shown>>

Picking == PickStart \/ PickLoop \/ PickP
Checking == Sanity \/ Display \/ Limits \/ Derive \/ Allocate
Steps == MemToUse \/ CpuPerf \/ Picking \/ Checking
Next == Encrypt \/ Decrypt \/ Steps

Spec == Init /\ [][Next]_vars
-----------------------------------------------------------------------------
Codes == {"OK", "ELIMIT", "ECLOCK", "EKEY", "ENOMEM", "EPARAM", "EINVAL", "EBIGSLOW", "ETOOBIG",
          "ETOOSLOW"}
PCs == {"start", "memory", "speed", "pick", "loop", "choose_p", "sanity", "display",
        "limits", "derive", "allocate", "returned"}
Files == [made : BOOLEAN, picked : BOOLEAN, mem : Nat, ops : Nat, logN : Nat, r : Nat, p : Nat]
Flags == explicit \in BOOLEAN /\ force \in BOOLEAN
TypeOK ==
  /\ pc \in PCs /\ op \in {"enc", "dec", "info"} /\ rc \in Codes
  /\ Flags /\ maxmem \in Nat
  /\ memlimit \in 0..SizeMax /\ opslimit \in Nat
  /\ logN \in Nat /\ r \in Nat /\ p \in Nat /\ shown \in Nat
  /\ file \in Files

picked == op = "enc" /\ ~explicit

\* 1 is never shifted by more bits than there are, whatever a file says and
\* also with -f.
ShiftsDefined ==
  pc \in {"loop", "choose_p", "display", "limits", "derive", "allocate"} => logN \in 1..MaxLogN

\* Picked parameters need no more memory and time than allowed, there is work
\* to do (p is not 0), and they are such that any decryption can parse them.
PickedWithinLimits ==
  pc \in {"derive", "allocate"} /\ picked =>
    /\ 128 * r * Pow2[logN] <= memlimit
    /\ 128 * Pow2[logN] * r * p <= opslimit
    /\ p >= 1 /\ ~Insane

\* Picked parameters are as strong as allowed: twice the N exceeds a limit.
PickedIsStrongest ==
  pc \in {"derive", "allocate"} /\ picked =>
    128 * r * (2 * Pow2[logN]) > memlimit \/ 128 * (2 * Pow2[logN]) * r > opslimit

\* A file with picked parameters is decrypted by every machine that is allowed
\* as much memory and time as the one that made it.
DecryptsUnderSameLimits ==
  op = "dec" /\ file.made /\ file.picked /\ pc = "returned"
    => /\ rc # "EINVAL"
       /\ memlimit >= file.mem /\ opslimit >= file.ops
            => rc \notin {"ETOOBIG", "ETOOSLOW", "EBIGSLOW"}

\* scrypt info says what memory a file needs, or that it is more than can be said.
ShownIsTrue ==
  op = "info" /\ pc = "returned" /\ rc = "OK" => shown = Least(128 * r * Pow2[logN], U64)

\* scrypt.1: "Use at most maxmem bytes of RAM to compute the derived encryption key".
AtMostMaxmem == pc = "allocate" /\ picked /\ maxmem > 0 => 128 * r * Pow2[logN] <= maxmem
=============================================================================
