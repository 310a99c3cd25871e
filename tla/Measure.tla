-------------------------------- MODULE Measure --------------------------------
(***************************************************************************)
(* What scrypt learns of the machine before it picks or checks parameters: *)
(* the memory it may use (memtouse and the probes of memlimit.c) and the   *)
(* speed of the CPU (scryptenc_cpuperf over monoclock.c), while the clock  *)
(* ticks and may be set back.                                              *)
(*                                                                         *)
(* maxmemfrac is in eighths.  Of the rounding of doubles only what matters *)
(* here is kept: SIZE_MAX becomes the next power of 2.                     *)
(***************************************************************************)
EXTENDS Widths, Sequences, FiniteSets, FiniteSetsExt

CONSTANTS
  MiB,           \* the least limit, 2^20
  Amounts,       \* bound: what the system may say, in bytes
  Units,         \* bound: memory units and page sizes
  Resolutions,   \* bound: what clock_getres may say, in ticks
  MaxSetBacks    \* bound: how often the real time is set back during a measurement

ASSUME MeasureAssumption ==
  /\ MiB \in 0..SIZE_MAX
  /\ Amounts \subseteq 0..UINT64_MAX
  /\ Units \subseteq Nat \ {0} /\ Resolutions \subseteq Nat /\ MaxSetBacks \in Nat

VARIABLES
  ms_pc,
  maxmem, maxmemfrac,   \* the arguments of memtouse
  limit,                \* the variables *_memlimit
  memlimit,             \* its result
  clock, resd,          \* the clock that monoclock.c found, and its resolution
  since,                \* the time since st was taken
  cores, diffd,         \* i, in units of 512, and the last difference
  said,                 \* history: what each probe was told: <<>> or factors of an amount
  setbacks              \* history

argvars == <<maxmem, maxmemfrac>>
memvars == <<limit, memlimit, said>>
clockvars == <<clock, resd, since, setbacks>>
msvars == <<ms_pc, argvars, memvars, clockvars, cores, diffd>>

-----------------------------------------------------------------------------
Probes == {"usermem", "memsize", "sysinfo", "rlimit", "sysconf"}
Told == [p \in Probes |-> <<>>]

Unlimited == [p \in Probes |-> SIZE_MAX]

MSInit ==
  /\ ms_pc = "idle" /\ maxmemfrac = 0 /\ maxmem = 0
  /\ limit = Unlimited /\ memlimit = 0 /\ said = Told
  /\ clock = "none" /\ resd = 0 /\ since = 0 /\ setbacks = 0 /\ cores = 0 /\ diffd = 0
\* What a call leaves when it has returned, or another starts from.
MSAt(where, frac, mem) ==
  /\ ms_pc' = where /\ maxmemfrac' = frac /\ maxmem' = mem
  /\ limit' = Unlimited /\ memlimit' = 0 /\ said' = Told
  /\ clock' = "none" /\ resd' = 0 /\ since' = 0 /\ setbacks' = 0 /\ cores' = 0 /\ diffd' = 0
MSDone == MSAt("idle", 0, 0)

Clamp(n) == IF n > SIZE_MAX THEN SIZE_MAX ELSE n

\* A probe: it fails, or is told an amount, or (unless it is in every build)
\* is not compiled in, which leaves SIZE_MAX.
Step(p, next) == ms_pc = p /\ ms_pc' \in {next, "ELIMIT"}
Learns(p, told, amount) ==
  /\ said' = [said EXCEPT ![p] = told]
  /\ limit' = [limit EXCEPT ![p] = Clamp(amount)]
Nothing(p) == Learns(p, <<>>, UINT64_MAX)
Others == UNCHANGED <<argvars, memlimit, clockvars, cores, diffd>>

\* memlimit_sysctl_hw: eight bytes are believed, four say "no limit".
Sysctl(p, next) ==
  /\ Step(p, next) /\ Others
  /\ \/ Nothing(p)
     \/ \E n \in Amounts : Learns(p, <<n>>, n)
Usermem == Sysctl("usermem", "memsize")
Memsize == Sysctl("memsize", "sysinfo")

Sysinfo ==
  /\ Step("sysinfo", "rlimit") /\ Others
  /\ \/ Nothing("sysinfo")
     \/ \E n \in Amounts, unit \in Units :
          /\ n % unit = 0
          /\ Learns("sysinfo", <<n \div unit, unit>>, ((n \div unit) * unit) % (UINT64_MAX + 1))

\* RLIMIT_AS, RLIMIT_DATA where it counts, and RLIMIT_RSS; RLIM_INFINITY is UINT64_MAX.
Rlimit ==
  /\ Step("rlimit", "sysconf") /\ Others
  /\ \E as, rss \in Amounts \cup {UINT64_MAX} : Learns("rlimit", <<Min({as, rss})>>, Min({as, rss}))

\* The page size times the number of pages; -1 without an error, or with
\* EINVAL, is no limit.
Sysconf ==
  /\ Step("sysconf", "memtouse") /\ Others
  /\ \/ Nothing("sysconf")
     \/ \E n \in Amounts, page \in Units :
          /\ n % page = 0
          /\ Learns("sysconf", <<page, n \div page>>, (page * (n \div page)) % (UINT64_MAX + 1))

\* (size_t)(maxmemfrac * (double)n): undefined for what size_t does not hold.
AsDouble(n) == IF n = SIZE_MAX THEN SIZE_MAX + 1 ELSE n
Converted(x) == IF x <= SIZE_MAX THEN {x} ELSE {0, SIZE_MAX}

\* Half of the physical pages are assumed to be available.
Believed ==
  IF limit["sysconf"] # SIZE_MAX
    THEN [limit EXCEPT !["usermem"] = Max({@, limit["sysconf"] \div 2})] ELSE limit
MemToUse ==
  /\ ms_pc = "memtouse" /\ maxmemfrac \in 1..8
  /\ LET least == Min({SIZE_MAX} \cup {Believed[p] : p \in Probes}) IN
     \E avail \in Converted((maxmemfrac * AsDouble(least)) \div 8) :
       memlimit' = Max({MiB, IF maxmem > 0 THEN Min({avail, maxmem}) ELSE avail})
  /\ ms_pc' = "limited"
  /\ UNCHANGED <<argvars, limit, said, clockvars, cores, diffd>>

Memlimit == Usermem \/ Memsize \/ Sysinfo \/ Rlimit \/ Sysconf \/ MemToUse
-----------------------------------------------------------------------------
(* The speed.  A clock that is not there (ENOSYS, EINVAL) is replaced by    *)
(* the next; any other failure is SCRYPT_ECLOCK.                            *)
GetRes ==
  /\ ms_pc = "getres"
  /\ \/ /\ clock' \in {"MONOTONIC", "REALTIME"} /\ resd' \in Resolutions
        /\ ms_pc' = "start"
     \/ ms_pc' = "ECLOCK" /\ UNCHANGED <<clock, resd>>
  /\ UNCHANGED <<argvars, memvars, since, setbacks, cores, diffd>>

\* monoclock_get(&st), before either loop.
Now(where, loop) ==
  /\ ms_pc = where
  /\ \/ since' = 0 /\ ms_pc' = loop
     \/ ms_pc' = "ECLOCK" /\ UNCHANGED since
  /\ UNCHANGED <<argvars, memvars, clock, resd, setbacks, cores, diffd>>

\* crypto_scrypt.
Scrypt(where, next) ==
  /\ ms_pc = where /\ ms_pc' \in {next, "EKEY"}
  /\ cores' = IF where = "count" THEN 1 ELSE cores     \* bound: one turn stands for more
  /\ UNCHANGED <<argvars, memvars, clockvars, diffd>>

\* getclockdiff, and whether to go on.
Check(where, enough, loop, next) ==
  /\ ms_pc = where
  /\ \/ diffd' = since /\ ms_pc' = IF enough THEN next ELSE loop
     \/ ms_pc' = "ECLOCK" /\ UNCHANGED diffd
  /\ UNCHANGED <<argvars, memvars, clockvars, cores>>

Enough_NoTick == since >= 0                           \* mutant: does not wait for a tick
Enough == since > resd

CpuPerf ==
  \/ GetRes
  \/ Now("start", "tick") \/ Scrypt("tick", "ticked")
  \/ Check("ticked", since > 0, "tick", "restart")
  \/ Now("restart", "count") \/ Scrypt("count", "counted")
  \/ Check("counted", Enough, "count", "measured")

\* The clock ticks (bound: not past what any test asks for) and, if it is
\* the time of day, may be set back.
Clocks == ms_pc \in {"tick", "ticked", "restart", "count", "counted"}
Tick ==
  /\ Clocks /\ since <= Max(Resolutions) /\ since' = since + 1
  /\ UNCHANGED <<ms_pc, argvars, memvars, clock, resd, setbacks, cores, diffd>>
SetBack ==
  /\ Clocks /\ clock = "REALTIME" /\ setbacks < MaxSetBacks
  /\ setbacks' = setbacks + 1 /\ since' = since - 2
  /\ UNCHANGED <<ms_pc, argvars, memvars, clock, resd, cores, diffd>>

-----------------------------------------------------------------------------
Amount(p) == IF Len(said[p]) = 1 THEN said[p][1] ELSE said[p][1] * said[p][2]
Known == {p \in Probes : said[p] # <<>>}
Bogus(p) ==
  /\ p = "usermem" /\ {"usermem", "sysconf"} \subseteq Known
  /\ Amount("sysconf") < SIZE_MAX /\ Amount(p) < Amount("sysconf") \div 2

Counted(p) == IF Bogus(p) THEN Amount("sysconf") \div 2 ELSE Amount(p)

\* The memory that may be used is the given fraction of the least amount that
\* the system names, of all the probes there are and whatever their widths (a
\* usermem below half of the physical pages does not count), or -M if that is
\* less; and it is at least 1 MiB.  SIZE_MAX and what size_t does not hold mean
\* no limit; with no limit there are SIZE_MAX + 1 bytes, of which the fraction
\* fits a size_t.
LimitIsMemory ==
  ms_pc = "limited" =>
    LET there == Min({SIZE_MAX + 1} \cup {n \in {Counted(p) : p \in Known} : n < SIZE_MAX})
        share == (maxmemfrac * there) \div 8
    IN memlimit = Max({MiB, Min({share} \cup ({maxmem} \ {0}))})
=============================================================================
