------------------------------ MODULE Startup_proofs ------------------------------
(***************************************************************************)
(* Of a run up to its first derived key, for any words, amounts, bytes and *)
(* widths: main acts on the options that are written, a size is exact, the *)
(* passphrase is the line, and the limit is the memory there is.  And of   *)
(* readpass, for any signals, number of calls and number of signals: the   *)
(* echo is restored, no signal is lost, and none is made up.               *)
(***************************************************************************)
EXTENDS Startup, ReadPass, SequenceTheorems, WellFoundedInduction, TLAPS

\* Induction, stated of a set: a set that holds 0 and with n also n + 1 holds
\* every number, or there were a least number outside.
Below == {q \in Nat \X Nat : q[1] < q[2]}
\* A set of numbers that is not empty has a least member.
LEMMA LeastMember ==
  ASSUME NEW S, S \subseteq Nat, S # {}
  PROVE  \E x \in S : \A y \in S : x <= y
<1>1. IsWellFoundedOn(Below, Nat)
  BY NatLessThanWellFounded DEF OpToRel, Below
<1>2. PICK x \in S : \A y \in S : ~(<<y, x>> \in Below)
  BY <1>1, WFMin
<1>3. ASSUME NEW y \in S PROVE x <= y
  <2>1. x \in Nat /\ y \in Nat
    OBVIOUS
  <2>2. ~(y < x)
    <3>1. <<y, x>> \notin Below
      BY <1>2
    <3> QED
      BY <2>1, <3>1 DEF Below
  <2> QED
    BY <2>1, <2>2
<1> QED
  BY <1>3

LEMMA Induction ==
  ASSUME NEW S, 0 \in S, \A n \in Nat : n \in S => n + 1 \in S
  PROVE  \A n \in Nat : n \in S
<1> DEFINE Outside == Nat \ S
<1>1. SUFFICES ASSUME Outside # {} PROVE FALSE
  OBVIOUS
<1>2. PICK x \in Outside : \A y \in Outside : x <= y
  BY <1>1, LeastMember
<1>3. x \in Nat /\ x # 0 /\ x - 1 \in Nat /\ x = (x - 1) + 1 /\ ~(x <= x - 1)
  OBVIOUS
<1>4. x - 1 \in Outside
  BY <1>3
<1> QED
  BY <1>2, <1>3, <1>4

(***************************************************************************)
(* Memory (Measure).                                                       *)
(***************************************************************************)
LEMMA MinIs ==
  ASSUME NEW S, S \subseteq Int, NEW m \in S, \A y \in S : m <= y
  PROVE  Min(S) = m
<1> DEFINE x == CHOOSE x \in S : \A y \in S : x <= y
<1>1. x \in S /\ \A y \in S : x <= y
  OBVIOUS
<1>2. Min(S) = x
  BY DEF Min
<1> HIDE DEF x
<1>3. x <= m /\ m <= x /\ x \in Int /\ m \in Int
  BY <1>1
<1> QED
  BY <1>2, <1>3

LEMMA MaxIs ==
  ASSUME NEW S, S \subseteq Int, NEW m \in S, \A y \in S : m >= y
  PROVE  Max(S) = m
<1> DEFINE x == CHOOSE x \in S : \A y \in S : x >= y
<1>1. x \in S /\ \A y \in S : x >= y
  OBVIOUS
<1>2. Max(S) = x
  BY DEF Max
<1> HIDE DEF x
<1>3. x >= m /\ m >= x /\ x \in Int /\ m \in Int
  BY <1>1
<1> QED
  BY <1>2, <1>3

LEMMA MaxTwo ==
  ASSUME NEW a \in Int, NEW b \in Int
  PROVE  Max({a, b}) = IF a >= b THEN a ELSE b
<1>1. CASE a >= b
  BY <1>1, MaxIs
<1>2. CASE ~(a >= b)
  BY <1>2, MaxIs
<1> QED
  BY <1>1, <1>2

LEMMA MinTwo ==
  ASSUME NEW a \in Int, NEW b \in Int
  PROVE  Min({a, b}) = IF a <= b THEN a ELSE b
<1>1. CASE a <= b
  BY <1>1, MinIs
<1>2. CASE ~(a <= b)
  BY <1>2, MinIs
<1> QED
  BY <1>1, <1>2

\* The probes are told amounts, or nothing, and hold what size_t can.
Probing == Probes \cup {"memtouse"}
ToldTrue(p) ==
  IF said[p] = <<>> THEN limit[p] = SIZE_MAX
  ELSE Amount(p) \in 0..UINT64_MAX /\ limit[p] = Clamp(Amount(p))
Probed ==
  /\ DOMAIN said = Probes /\ DOMAIN limit = Probes
  /\ \A p \in Probes : ToldTrue(p)
  /\ maxmemfrac \in 1..4 /\ maxmem \in Nat
MemInv == /\ ms_pc \in Probing => Probed
          /\ LimitIsMemory

\* What the probes say, once usermem is corrected.
LEMMA BelievedIs ==
  ASSUME Probed, NEW p \in Probes
  PROVE  /\ Believed[p] = IF p \in Known THEN Clamp(Counted(p)) ELSE SIZE_MAX
         /\ p \in Known => Counted(p) \in Nat
<1> DEFINE A == Amount("sysconf")
           u == Amount("usermem")
<1>1. SIZE_MAX \in Nat /\ UINT64_MAX \in Nat
  BY WidthsAssumption
<1>2. "usermem" \in Probes /\ "sysconf" \in Probes
  BY DEF Probes
<1>3. \A q \in Probes : ToldTrue(q) /\ (q \in Known <=> said[q] # <<>>)
  BY DEF Probed, Known
<1>4. \A q \in Probes : IF q \in Known THEN Amount(q) \in Nat /\ limit[q] = Clamp(Amount(q))
                                       ELSE limit[q] = SIZE_MAX
  BY <1>1, <1>3 DEF ToldTrue
<1>5. DOMAIN limit = Probes
  BY DEF Probed
<1>6. CASE p # "usermem"
  <2>1. Believed[p] = limit[p]
    BY <1>2, <1>5, <1>6 DEF Believed
  <2>2. Counted(p) = Amount(p)
    BY <1>6 DEF Counted, Bogus
  <2> QED
    BY <1>4, <2>1, <2>2, Zenon
<1>7. CASE p = "usermem"
  <2>1. Believed[p] = IF limit["sysconf"] # SIZE_MAX
                        THEN Max({limit[p], limit["sysconf"] \div 2}) ELSE limit[p]
    BY <1>2, <1>5, <1>7 DEF Believed
  <2>2. CASE limit["sysconf"] = SIZE_MAX
    <3>1. ~Bogus(p)
      <4>1. SUFFICES ASSUME "sysconf" \in Known, A < SIZE_MAX PROVE FALSE
        BY DEF Bogus
      <4>2. A \in Nat /\ SIZE_MAX = Clamp(A)
        BY <1>2, <1>4, <2>2, <4>1
      <4> QED
        BY <1>1, <4>1, <4>2 DEF Clamp
    <3> QED
      BY <1>4, <1>7, <2>1, <2>2, <3>1 DEF Counted
  <2>3. CASE limit["sysconf"] # SIZE_MAX
    <3>1. "sysconf" \in Known /\ A \in Nat /\ limit["sysconf"] = Clamp(A)
      BY <1>2, <1>4, <2>3
    <3>2. A < SIZE_MAX /\ limit["sysconf"] = A /\ A \div 2 \in Nat /\ A \div 2 <= SIZE_MAX
      BY <1>1, <2>3, <3>1 DEF Clamp
    <3>3. CASE p \in Known
      <4>1. u \in Nat /\ limit[p] = Clamp(u) /\ Clamp(u) \in Nat
        BY <1>1, <1>2, <1>4, <1>7, <3>3 DEF Clamp
      <4>2. Believed[p] = IF Clamp(u) >= A \div 2 THEN Clamp(u) ELSE A \div 2
        BY <2>1, <2>3, <3>2, <4>1, MaxTwo
      <4>3. Counted(p) = IF u < A \div 2 THEN A \div 2 ELSE u
        BY <1>7, <3>1, <3>2, <3>3 DEF Counted, Bogus
      <4> HIDE DEF A, u
      <4>4. CASE u < A \div 2
        BY <1>1, <3>2, <3>3, <4>1, <4>2, <4>3, <4>4 DEF Clamp
      <4>5. CASE ~(u < A \div 2)
        BY <1>1, <3>2, <3>3, <4>1, <4>2, <4>3, <4>5 DEF Clamp
      <4> QED
        BY <4>4, <4>5
    <3>4. CASE p \notin Known
      <4>1. limit[p] = SIZE_MAX
        BY <1>2, <1>4, <3>4
      <4> QED
        BY <1>1, <2>1, <2>3, <3>2, <3>4, <4>1, MaxTwo
    <3> QED
      BY <3>3, <3>4
  <2> QED
    BY <2>2, <2>3
<1> QED
  BY <1>6, <1>7

There == Min({SIZE_MAX + 1} \cup {n \in {Counted(p) : p \in Known} : n < SIZE_MAX})
Least == Min({SIZE_MAX} \cup {Believed[p] : p \in Probes})

\* The least amount, where SIZE_MAX stands for no limit.
LEMMA LeastIsThere ==
  ASSUME Probed
  PROVE  AsDouble(Least) = There /\ There \in 0..(SIZE_MAX + 1)
<1> DEFINE R == {n \in {Counted(p) : p \in Known} : n < SIZE_MAX}
           Q == {SIZE_MAX} \cup {Believed[p] : p \in Probes}
<1>1. SIZE_MAX \in Nat
  BY WidthsAssumption
<1>2. Known \subseteq Probes
  BY DEF Known
<1>3. \A p \in Probes : Believed[p] = IF p \in Known THEN Clamp(Counted(p)) ELSE SIZE_MAX
  BY BelievedIs
<1>4. \A p \in Known : Counted(p) \in Nat
  BY <1>2, BelievedIs
<1>5. R \subseteq Nat /\ \A n \in R : n < SIZE_MAX
  BY <1>4
<1>6. ASSUME NEW n \in Q PROVE n \in R \/ n = SIZE_MAX
  <2>1. SUFFICES ASSUME NEW p \in Probes, n = Believed[p] PROVE n \in R \/ n = SIZE_MAX
    BY Zenon
  <2>2. CASE p \in Known
    <3>1. n = Clamp(Counted(p)) /\ Counted(p) \in Nat
      BY <1>3, <1>4, <2>1, <2>2
    <3> QED
      BY <1>1, <2>2, <3>1 DEF Clamp
  <2> QED
    BY <1>3, <2>1, <2>2
<1>7. R \subseteq Q
  <2>1. SUFFICES ASSUME NEW p \in Known, Counted(p) < SIZE_MAX PROVE Counted(p) \in Q
    BY Zenon
  <2>2. p \in Probes /\ Clamp(Counted(p)) = Counted(p)
    BY <1>1, <1>2, <1>4, <2>1 DEF Clamp
  <2> QED
    BY <1>3, <2>2
<1>8. SIZE_MAX \in Q
  OBVIOUS
<1>9. There = Min({SIZE_MAX + 1} \cup R) /\ Least = Min(Q)
  BY DEF There, Least
<1> HIDE DEF R, Q
<1>10. Q \subseteq Nat
  BY <1>1, <1>5, <1>6
<1>11. CASE R = {}
  <2>1. There = SIZE_MAX + 1
    BY <1>1, <1>9, <1>11, MinIs
  <2>2. Least = SIZE_MAX
    <3>1. Q \subseteq Int /\ \A y \in Q : SIZE_MAX <= y
      BY <1>1, <1>6, <1>10, <1>11
    <3> QED
      BY <1>8, <1>9, <3>1, MinIs
  <2> QED
    BY <1>1, <2>1, <2>2 DEF AsDouble
<1>12. CASE R # {}
  <2>1. PICK m \in R : \A y \in R : m <= y
    BY <1>5, <1>12, LeastMember
  <2>2. m \in Nat /\ m < SIZE_MAX
    BY <1>5
  <2>3. There = m
    <3> DEFINE S == {SIZE_MAX + 1} \cup R
    <3>1. S \subseteq Int /\ m \in S /\ \A y \in S : m <= y
      BY <1>1, <1>5, <2>1, <2>2
    <3> HIDE DEF S
    <3>2. Min(S) = m
      BY <3>1, MinIs
    <3> QED
      BY <1>9, <3>2 DEF S
  <2>4. Least = m
    <3>1. ASSUME NEW y \in Q PROVE m <= y
      <4>1. y \in R \/ y = SIZE_MAX
        BY <1>6
      <4>2. CASE y \in R
        BY <2>1, <4>2
      <4>3. CASE y = SIZE_MAX
        BY <1>1, <2>2, <4>3
      <4> QED
        BY <4>1, <4>2, <4>3
    <3>2. m \in Q /\ Q \subseteq Int
      BY <1>7, <1>10
    <3> QED
      BY <1>9, <3>1, <3>2, MinIs
  <2> QED
    BY <1>1, <2>2, <2>3, <2>4 DEF AsDouble
<1> QED
  BY <1>11, <1>12

\* What a probe is told is an amount, in one factor or two, or nothing.
Names(told, amount) ==
  \/ told = <<>> /\ amount = UINT64_MAX
  \/ told = <<amount>>
  \/ \E a, b \in Nat : told = <<a, b>> /\ a * b = amount

\* A probe that is told an amount, or nothing, leaves what it was told.
LEMMA LearnsTrue ==
  ASSUME Probed, NEW p \in Probes, NEW told, NEW amount \in 0..UINT64_MAX, Learns(p, told, amount),
         Names(told, amount), maxmemfrac' = maxmemfrac /\ maxmem' = maxmem
  PROVE  Probed'
<1>1. SIZE_MAX \in Nat /\ UINT64_MAX \in Nat /\ SIZE_MAX <= UINT64_MAX
  BY WidthsAssumption
<1>2. /\ said' = [said EXCEPT ![p] = told] /\ limit' = [limit EXCEPT ![p] = Clamp(amount)]
      /\ DOMAIN said = Probes /\ DOMAIN limit = Probes
  BY DEF Learns, Probed
<1>3. DOMAIN said' = Probes /\ DOMAIN limit' = Probes
  BY <1>2
<1>4. said'[p] = told /\ limit'[p] = Clamp(amount)
  BY <1>2
<1>5. ToldTrue(p)'
  <2>1. CASE told = <<>> /\ amount = UINT64_MAX
    BY <1>1, <1>4, <2>1 DEF ToldTrue, Clamp
  <2>2. CASE told = <<amount>>
    <3>1. told # <<>> /\ Len(told) = 1 /\ told[1] = amount
      BY <2>2
    <3>2. Amount(p)' = amount
      BY <1>4, <3>1 DEF Amount
    <3> QED
      BY <1>4, <3>1, <3>2 DEF ToldTrue
  <2>3. CASE \E a, b \in Nat : told = <<a, b>> /\ a * b = amount
    <3>1. PICK a \in Nat, b \in Nat : told = <<a, b>> /\ a * b = amount
      BY <2>3
    <3>2. told # <<>> /\ Len(told) = 2 /\ told[1] = a /\ told[2] = b
      BY <3>1
    <3>3. Amount(p)' = amount
      BY <1>4, <3>1, <3>2 DEF Amount
    <3> QED
      BY <1>4, <3>2, <3>3 DEF ToldTrue
  <2> QED
    BY <2>1, <2>2, <2>3 DEF Names
<1>6. ASSUME NEW q \in Probes, q # p PROVE ToldTrue(q)'
  <2>1. said'[q] = said[q] /\ limit'[q] = limit[q]
    BY <1>2, <1>6
  <2>2. Amount(q)' = Amount(q)
    BY <2>1, Zenon DEF Amount
  <2> QED
    BY <2>1, <2>2, Zenon DEF ToldTrue, Probed
<1>7. \A q \in Probes : ToldTrue(q)'
  BY <1>5, <1>6
<1> QED
  BY <1>3, <1>7 DEF Probed

LEMMA NothingTrue ==
  ASSUME Probed, NEW p \in Probes, Nothing(p), maxmemfrac' = maxmemfrac /\ maxmem' = maxmem
  PROVE  Probed'
<1>1. UINT64_MAX \in 0..UINT64_MAX
  BY WidthsAssumption
<1>2. Names(<<>>, UINT64_MAX)
  BY DEF Names
<1>3. Learns(p, <<>>, UINT64_MAX)
  BY DEF Nothing
<1> QED
  BY <1>1, <1>2, <1>3, LearnsTrue

LEMMA Division ==
  ASSUME NEW a \in Nat, NEW b \in Nat \ {0}
  PROVE  a = b * (a \div b) + (a % b) /\ a \div b \in Nat
OBVIOUS

\* The units are whole.
LEMMA WholeUnits ==
  ASSUME NEW n \in Amounts, NEW unit \in Units, n % unit = 0
  PROVE  /\ (n \div unit) * unit = n /\ unit * (n \div unit) = n
         /\ n % (UINT64_MAX + 1) = n /\ n \in 0..UINT64_MAX
         /\ n \div unit \in Nat /\ unit \in Nat
<1>1. n \in 0..UINT64_MAX /\ unit \in Nat \ {0} /\ UINT64_MAX \in Nat
  BY MeasureAssumption, WidthsAssumption
<1>2. n = unit * (n \div unit) /\ n \div unit \in Nat
  <2>1. n \in Nat
    BY <1>1
  <2>2. n = unit * (n \div unit) + (n % unit) /\ n \div unit \in Nat
    BY <1>1, <2>1, Division
  <2> DEFINE x == unit * (n \div unit)
  <2>3. x \in Nat
    BY <1>1, <2>2
  <2> HIDE DEF x
  <2> QED
    BY <2>2, <2>3 DEF x
<1>3. n % (UINT64_MAX + 1) = n
  BY <1>1
<1> QED
  BY <1>1, <1>2, <1>3

LEMMA ProbeProbes ==
  ASSUME MemInv, Usermem \/ Memsize \/ Sysinfo \/ Rlimit \/ Sysconf
  PROVE  Probed'
<1>1. "usermem" \in Probes /\ "memsize" \in Probes /\ "sysinfo" \in Probes /\ "rlimit" \in Probes
      /\ "sysconf" \in Probes
  BY DEF Probes
<1>2. /\ ms_pc' \in Probing \cup {"ELIMIT"} /\ ms_pc \in Probing
      /\ maxmemfrac' = maxmemfrac /\ maxmem' = maxmem
  BY DEF Usermem, Memsize, Sysctl, Sysinfo, Rlimit, Sysconf, Step, Others, argvars, Probing,
     Probes
<1>3. Probed
  BY <1>2 DEF MemInv
<1>4. Amounts \subseteq 0..UINT64_MAX /\ UINT64_MAX \in Nat
  BY MeasureAssumption, WidthsAssumption
<1>5. CASE Usermem
  <2>1. CASE Nothing("usermem")
    BY <1>1, <1>2, <1>3, <2>1, NothingTrue
  <2>2. CASE ~Nothing("usermem")
    <3>1. PICK n \in Amounts : Learns("usermem", <<n>>, n)
      BY <1>5, <2>2 DEF Usermem, Sysctl
    <3>2. n \in 0..UINT64_MAX /\ Names(<<n>>, n)
      BY <1>4 DEF Names
    <3> QED
      BY <1>1, <1>2, <1>3, <3>1, <3>2, LearnsTrue
  <2> QED
    BY <2>1, <2>2
<1>6. CASE Memsize
  <2>1. CASE Nothing("memsize")
    BY <1>1, <1>2, <1>3, <2>1, NothingTrue
  <2>2. CASE ~Nothing("memsize")
    <3>1. PICK n \in Amounts : Learns("memsize", <<n>>, n)
      BY <1>6, <2>2 DEF Memsize, Sysctl
    <3>2. n \in 0..UINT64_MAX /\ Names(<<n>>, n)
      BY <1>4 DEF Names
    <3> QED
      BY <1>1, <1>2, <1>3, <3>1, <3>2, LearnsTrue
  <2> QED
    BY <2>1, <2>2
<1>7. CASE Sysinfo
  <2>1. CASE Nothing("sysinfo")
    BY <1>1, <1>2, <1>3, <2>1, NothingTrue
  <2>2. CASE ~Nothing("sysinfo")
    <3>1. PICK n \in Amounts, unit \in Units :
            /\ n % unit = 0
            /\ Learns("sysinfo", <<n \div unit, unit>>, ((n \div unit) * unit) % (UINT64_MAX + 1))
      BY <1>7, <2>2 DEF Sysinfo
    <3>2. /\ (n \div unit) * unit = n /\ n % (UINT64_MAX + 1) = n /\ n \in 0..UINT64_MAX
          /\ n \div unit \in Nat /\ unit \in Nat
      BY <3>1, WholeUnits
    <3>3. Learns("sysinfo", <<n \div unit, unit>>, n)
      BY <3>1, <3>2
    <3>4. Names(<<n \div unit, unit>>, n)
      BY <3>2 DEF Names
    <3> QED
      BY <1>1, <1>2, <1>3, <3>2, <3>3, <3>4, LearnsTrue
  <2> QED
    BY <2>1, <2>2
<1>8. CASE Rlimit
  <2>1. PICK as \in Amounts \cup {UINT64_MAX}, rss \in Amounts \cup {UINT64_MAX} :
          Learns("rlimit", <<Min({as, rss})>>, Min({as, rss}))
    BY <1>8 DEF Rlimit
  <2>2. Min({as, rss}) \in 0..UINT64_MAX
    <3>1. UINT64_MAX \in 0..UINT64_MAX
      BY <1>4
    <3>2. as \in 0..UINT64_MAX /\ rss \in 0..UINT64_MAX
      BY <1>4, <3>1, Zenon
    <3>3. as \in Int /\ rss \in Int
      BY <3>2
    <3>4. Min({as, rss}) = as \/ Min({as, rss}) = rss
      BY <3>3, MinTwo
    <3> QED
      BY <3>2, <3>4
  <2>3. Names(<<Min({as, rss})>>, Min({as, rss}))
    BY DEF Names
  <2> QED
    BY <1>1, <1>2, <1>3, <2>1, <2>2, <2>3, LearnsTrue
<1>9. CASE Sysconf
  <2>1. CASE Nothing("sysconf")
    BY <1>1, <1>2, <1>3, <2>1, NothingTrue
  <2>2. CASE ~Nothing("sysconf")
    <3>1. PICK n \in Amounts, page \in Units :
            /\ n % page = 0
            /\ Learns("sysconf", <<page, n \div page>>, (page * (n \div page)) % (UINT64_MAX + 1))
      BY <1>9, <2>2 DEF Sysconf
    <3>2. /\ page * (n \div page) = n /\ n % (UINT64_MAX + 1) = n /\ n \in 0..UINT64_MAX
          /\ n \div page \in Nat /\ page \in Nat
      BY <3>1, WholeUnits
    <3>3. Learns("sysconf", <<page, n \div page>>, n)
      BY <3>1, <3>2
    <3>4. Names(<<page, n \div page>>, n)
      BY <3>2 DEF Names
    <3> QED
      BY <1>1, <1>2, <1>3, <3>2, <3>3, <3>4, LearnsTrue
  <2> QED
    BY <2>1, <2>2
<1> QED
  BY <1>5, <1>6, <1>7, <1>8, <1>9

LEMMA ProbeStep ==
  ASSUME MemInv, Usermem \/ Memsize \/ Sysinfo \/ Rlimit \/ Sysconf
  PROVE  MemInv'
<1>1. Probed'
  BY ProbeProbes
<1>2. ms_pc' # "limited"
  BY DEF Usermem, Memsize, Sysctl, Sysinfo, Rlimit, Sysconf, Step
<1> QED
  BY <1>1, <1>2 DEF MemInv, LimitIsMemory

LEMMA MemToUseStep == ASSUME MemInv, MemToUse PROVE MemInv'
<1> DEFINE share == (maxmemfrac * There) \div 8
<1>1. /\ ms_pc = "memtouse" /\ ms_pc' = "limited"
      /\ UNCHANGED <<maxmem, maxmemfrac, limit, said>>
      /\ \E avail \in Converted((maxmemfrac * AsDouble(Least)) \div 8) :
           memlimit' = Max({MiB, IF maxmem > 0 THEN Min({avail, maxmem}) ELSE avail})
  BY DEF MemToUse, argvars, Least
<1>2. Probed
  BY <1>1 DEF MemInv, Probing
<1>3. There \in 0..(SIZE_MAX + 1) /\ AsDouble(Least) = There /\ SIZE_MAX \in Nat
  BY <1>2, LeastIsThere, WidthsAssumption
<1>4. maxmemfrac \in 1..4 /\ maxmem \in Nat
  BY <1>2 DEF Probed
<1>5. share \in 0..SIZE_MAX
  <2>1. maxmemfrac * There <= 4 * (SIZE_MAX + 1) /\ maxmemfrac * There \in Nat
    <3>1. CASE maxmemfrac = 1
      BY <1>3, <3>1
    <3>2. CASE maxmemfrac = 2
      BY <1>3, <3>2
    <3>3. CASE maxmemfrac = 3
      BY <1>3, <3>3
    <3>4. CASE maxmemfrac = 4
      BY <1>3, <3>4
    <3> QED
      BY <1>4, <3>1, <3>2, <3>3, <3>4
  <2> DEFINE x == maxmemfrac * There
  <2>2. x \in Nat /\ x <= 4 * (SIZE_MAX + 1)
    BY <2>1
  <2> HIDE DEF x
  <2>3. x \div 8 \in 0..SIZE_MAX
    BY <1>3, <2>2
  <2> QED
    BY <2>3 DEF x
<1>6. memlimit' = Max({MiB, IF maxmem > 0 THEN Min({share, maxmem}) ELSE share})
  <2>1. Converted(share) = {share}
    BY <1>5 DEF Converted
  <2> HIDE DEF share
  <2>2. \E avail \in Converted(share) :
           memlimit' = Max({MiB, IF maxmem > 0 THEN Min({avail, maxmem}) ELSE avail})
    BY <1>1, <1>3, Zenon DEF share
  <2> QED
    BY <2>1, <2>2
<1> HIDE DEF share
<1>7. (IF maxmem > 0 THEN Min({share, maxmem}) ELSE share) = Min({share} \cup ({maxmem} \ {0}))
  <2>1. CASE maxmem > 0
    <3>1. {share} \cup ({maxmem} \ {0}) = {share, maxmem}
      BY <1>4, <2>1
    <3> QED
      BY <2>1, <3>1, Zenon
  <2>2. CASE ~(maxmem > 0)
    <3>1. {share} \cup ({maxmem} \ {0}) = {share}
      BY <1>4, <2>2
    <3>2. Min({share}) = share
      BY <1>5, MinIs
    <3> QED
      BY <2>2, <3>1, <3>2, Zenon
  <2> QED
    BY <2>1, <2>2
<1>8. There' = There
  <2>1. Known' = Known
    BY <1>1 DEF Known
  <2>2. \A p : Counted(p)' = Counted(p)
    BY <1>1, <2>1, Zenon DEF Counted, Bogus, Amount
  <2> QED
    BY <2>1, <2>2, Zenon DEF There
<1>9. memlimit' = Max({MiB, Min({(maxmemfrac' * There') \div 8} \cup ({maxmem'} \ {0}))})
  BY <1>1, <1>6, <1>7, <1>8, Zenon DEF share
<1>10. LimitIsMemory'
  BY <1>9, Zenon DEF LimitIsMemory, There
<1>11. ms_pc' \notin Probing
  BY <1>1 DEF Probing, Probes
<1> QED
  BY <1>10, <1>11 DEF MemInv

LEMMA MemlimitStep == ASSUME MemInv, Memlimit PROVE MemInv'
BY ProbeStep, MemToUseStep DEF Memlimit

\* Neither the clock nor the end of a call makes a limit.
LEMMA SpeedStep ==
  ASSUME CpuPerf \/ ((Tick \/ SetBack) /\ Clocks)
  PROVE  MemInv'
<1>1. ms_pc' \notin Probing /\ ms_pc' # "limited"
  BY DEF CpuPerf, GetRes, Now, Scrypt, Check, Tick, SetBack, Clocks, Probing, Probes
<1> QED
  BY <1>1 DEF MemInv, LimitIsMemory

LEMMA MSAtStep ==
  ASSUME NEW where, NEW frac, NEW mem, MSAt(where, frac, mem),
         \/ where \in {"idle", "getres"}
         \/ where = "usermem" /\ frac \in 1..4 /\ mem \in Nat
  PROVE  MemInv'
<1>1. /\ ms_pc' = where /\ maxmemfrac' = frac /\ maxmem' = mem /\ limit' = Unlimited /\ said' = Told
  BY DEF MSAt
<1>2. where # "limited"
  OBVIOUS
<1>3. CASE where = "usermem"
  <2>1. DOMAIN said' = Probes /\ DOMAIN limit' = Probes
    BY <1>1 DEF Told, Unlimited
  <2>2. \A p \in Probes : said'[p] = <<>> /\ limit'[p] = SIZE_MAX
    BY <1>1 DEF Told, Unlimited
  <2>3. \A p \in Probes : ToldTrue(p)'
    BY <2>2, Zenon DEF ToldTrue
  <2>4. Probed'
    BY <1>1, <1>3, <2>1, <2>3 DEF Probed
  <2> QED
    BY <1>1, <1>2, <2>4 DEF MemInv, LimitIsMemory
<1>4. CASE where \in {"idle", "getres"}
  BY <1>1, <1>4 DEF MemInv, LimitIsMemory, Probing, Probes
<1> QED
  BY <1>3, <1>4

(***************************************************************************)
(* The passphrase (Passphrase).                                            *)
(***************************************************************************)
AllBytes == Bytes \cup {"EOF", "error"}
\* The bytes of a line, before its end.
Plain == Chars \cup {"CR"}

\* The first n members of s are not in the set, and the next one is.
Spans(s, set0, n) ==
  /\ n \in 0..Len(s)
  /\ \A k \in 1..n : s[k] \notin set0
  /\ n < Len(s) => s[n + 1] \in set0

LEMMA SpanIs ==
  ASSUME NEW X, NEW s \in Seq(X), NEW set0
  PROVE  /\ Spans(s, set0, strcspn(s, set0))
         /\ \A n : Spans(s, set0, n) => n = strcspn(s, set0)
<1> DEFINE K == {k \in DOMAIN s : s[k] \in set0}
           c == strcspn(s, set0)
<1>1. DOMAIN s = 1..Len(s) /\ Len(s) \in Nat
  OBVIOUS
<1>2. K \subseteq Nat \ {0}
  BY <1>1
<1>3. CASE K = {}
  <2>1. c = Len(s)
    BY <1>3, Zenon DEF strcspn
  <2>2. \A k \in 1..Len(s) : s[k] \notin set0
    BY <1>1, <1>3
  <2> HIDE DEF K, c
  <2>3. Spans(s, set0, c)
    BY <1>1, <2>1, <2>2 DEF Spans
  <2>4. ASSUME NEW n, Spans(s, set0, n) PROVE n = c
    <3>1. n \in 0..Len(s) /\ (n < Len(s) => s[n + 1] \in set0)
      BY <2>4 DEF Spans
    <3>2. n < Len(s) => n + 1 \in 1..Len(s)
      BY <1>1, <3>1
    <3>3. ~(n < Len(s))
      BY <2>2, <3>1, <3>2
    <3>4. n \in 0..Len(s)
      BY <3>1
    <3>5. Len(s) \in Nat
      OBVIOUS
    <3>6. n = Len(s)
      BY <3>3, <3>4, <3>5
    <3> QED
      BY <2>1, <3>6, Zenon
  <2> QED
    BY <2>3, <2>4 DEF c
<1>4. CASE K # {}
  <2>1. PICK m \in K : \A y \in K : m <= y
    BY <1>2, <1>4, LeastMember
  <2>2. m \in Nat \ {0} /\ m \in 1..Len(s) /\ s[m] \in set0
    BY <1>1, <1>2
  <2>3. Min(K) = m
    BY <1>2, <2>1, MinIs
  <2>4. c = m - 1
    <3>1. c = Min(K) - 1
      BY <1>4, Zenon DEF strcspn
    <3> QED
      BY <2>3, <3>1
  <2>5. \A k \in 1..Len(s) : s[k] \in set0 => m <= k
    BY <1>1, <2>1
  <2> HIDE DEF K, c
  <2>6. Spans(s, set0, c)
    BY <1>1, <2>2, <2>4, <2>5 DEF Spans
  <2>7. ASSUME NEW n, Spans(s, set0, n) PROVE n = c
    <3>1. n \in Nat /\ n <= Len(s) /\ \A k \in 1..n : s[k] \notin set0
      BY <1>1, <2>7 DEF Spans
    <3>2. n < m
      BY <1>1, <2>2, <3>1
    <3>3. s[n + 1] \in set0
      BY <1>1, <2>2, <2>7, <3>1, <3>2 DEF Spans
    <3>4. m <= n + 1
      BY <1>1, <2>2, <2>5, <3>1, <3>2, <3>3
    <3> QED
      BY <1>1, <2>2, <2>4, <3>1, <3>2, <3>4
  <2> QED
    BY <2>6, <2>7 DEF c
<1> QED
  BY <1>3, <1>4

\* What is behind the last member, and before it.
LEMMA Appended ==
  ASSUME NEW X, NEW b \in Seq(X), NEW x \in X
  PROVE  /\ Append(b, x) \in Seq(X) /\ Append(b, x) # <<>> /\ Len(b) \in Nat
         /\ Len(Append(b, x)) = Len(b) + 1 /\ Append(b, x)[Len(b) + 1] = x
         /\ Last(Append(b, x)) = x /\ Front(Append(b, x)) = b
<1> DEFINE t == Append(b, x)
<1>1. t \in Seq(X) /\ t # <<>> /\ Len(b) \in Nat /\ Len(t) = Len(b) + 1 /\ t[Len(b) + 1] = x
  OBVIOUS
<1>2. SubSeq(t, 1, Len(b)) = b
  OBVIOUS
<1> HIDE DEF t
<1>3. Front(t) = b /\ Last(t) = x
  <2>1. Len(t) - 1 = Len(b)
    BY <1>1
  <2> QED
    BY <1>1, <1>2, <2>1, Zenon DEF Front, Last
<1> QED
  BY <1>1, <1>3 DEF t

LEMMA FrontOf ==
  ASSUME NEW X, NEW s \in Seq(X), s # <<>>
  PROVE  /\ Front(s) \in Seq(X) /\ Append(Front(s), Last(s)) = s
         /\ Len(s) \in Nat \ {0} /\ Len(Front(s)) = Len(s) - 1
<1>1. PICK n \in Nat : Len(s) = n + 1
  <2>1. Len(s) \in Nat \ {0}
    OBVIOUS
  <2>2. Len(s) - 1 \in Nat /\ Len(s) = (Len(s) - 1) + 1
    BY <2>1
  <2> QED
    BY <2>2, Zenon
<1> DEFINE f == SubSeq(s, 1, n)
<1>2. Len(s) - 1 = n
  BY <1>1
<1>3. Front(s) = f /\ Last(s) = s[n + 1]
  BY <1>1, <1>2, Zenon DEF Front, Last
<1>4. f \in Seq(X) /\ Len(f) = n /\ (\A k \in 1..n : f[k] = s[k]) /\ s[n + 1] \in X
  BY <1>1
<1> HIDE DEF f
<1>5. /\ Append(f, s[n + 1]) \in Seq(X) /\ Len(Append(f, s[n + 1])) = Len(s)
      /\ \A k \in 1..Len(s) : Append(f, s[n + 1])[k] = s[k]
  BY <1>1, <1>4
<1>6. Append(f, s[n + 1]) = s
  BY <1>5, SeqEqual
<1> QED
  BY <1>1, <1>3, <1>4, <1>6

LEMMA WithoutIs ==
  ASSUME NEW X, NEW b \in Seq(X), NEW c \in X
  PROVE  /\ Len(Without(b, c)) \in Nat /\ Len(Without(b, c)) <= Len(b)
         /\ Len(b) <= Len(Without(b, c)) + 1
         /\ Without(Append(b, c), c) = b
         /\ (b = <<>> \/ Last(b) # c) => Without(b, c) = b
<1>1. Append(b, c) # <<>> /\ Last(Append(b, c)) = c /\ Front(Append(b, c)) = b
  BY Appended
<1>2. CASE b = <<>> \/ Last(b) # c
  BY <1>1, <1>2 DEF Without
<1>3. CASE b # <<>> /\ Last(b) = c
  <2>1. Without(b, c) = Front(b)
    BY <1>3, Zenon DEF Without
  <2>2. Len(Front(b)) = Len(b) - 1 /\ Len(b) \in Nat \ {0}
    BY <1>3, FrontOf
  <2>3. Without(Append(b, c), c) = b
    BY <1>1, Zenon DEF Without
  <2> QED
    BY <1>3, <2>1, <2>2, <2>3
<1> QED
  BY <1>2, <1>3

-----------------------------------------------------------------------------
\* What readpass_readline leaves of a line, and what was typed.
Held(b, line) == b = line \/ b = Append(line, "LF") \/ line = Append(b, "CR")

LineRead(t, b) ==
  /\ b \in Seq(Plain \cup {"LF"}) /\ Held(b, Front(t))
  /\ LineGives(t, Upto(b, EOL))

Terminals == {"tty_stdin", "stdin_once", "tty_once"}
Reading == {"line", "line_cr", "read", "cut"}
Filing == {"fgets", "fgetc", "strip"}

LineInv ==
  /\ pp_pc \in {"line", "line_cr"} =>
       /\ buf \in Seq(Plain) /\ Len(buf) <= MAXPASSLEN - 1
       /\ typed = IF pp_pc = "line" THEN buf ELSE Append(buf, "CR")
       /\ pp_pc = "line_cr" => Len(buf) = MAXPASSLEN - 1
  /\ pp_pc = "read" => LineRead(typed, buf)
  /\ pp_pc \in Reading \ {"cut"} /\ confirming => LineRead(first, pp_passbuf)
  /\ pp_pc = "cut" => /\ LineRead(first, pp_passbuf)
                      /\ Confirms => LineRead(typed, pp_passbuf)
\* fgets stops behind a LF.
FileInv ==
  pp_pc \in Filing =>
    /\ buf \in Seq(Bytes) /\ Len(buf) <= MAXPASSLEN - 1
    /\ \A k \in 1..Len(buf) - 1 : buf[k] # "LF"
    /\ pp_pc = "fgets" => typed = buf
    /\ pp_pc = "fgetc" =>
         \/ typed = buf /\ (Len(buf) = MAXPASSLEN - 1 \/ (buf # <<>> /\ Last(buf) = "LF"))
         \/ typed = Append(buf, "EOF")
    /\ pp_pc = "strip" => typed \in {Append(buf, "EOF"), Append(buf, "error")}
Methods ==
  /\ pp_pc \in Reading => method \in Terminals
  /\ pp_pc \in Filing => method = "file"
Unread == pp_pc = "entry" => buf = <<>> /\ typed = <<>> /\ ~confirming
PassInv == LineInv /\ FileInv /\ Methods /\ Unread /\ PassphraseIsLine

-----------------------------------------------------------------------------
\* An error gives no passphrase.
LEMMA Failed == ASSUME pp_pc' = "error" PROVE PassInv'
BY DEF PassInv, LineInv, FileInv, Methods, Unread, PassphraseIsLine, Reading, Filing

\* A line that is refused is empty, has a NUL, or is too long.
LEMMA LineRefused ==
  ASSUME pp_pc' = "refused", method' \in Terminals,
         typed' = <<"EOF">> \/ "NUL" \in Range(typed') \/ Len(Without(typed', "CR")) >= MAXPASSLEN
  PROVE  PassInv'
<1>1. method' # "file"
  BY DEF Terminals
<1>2. PassphraseIsLine'
  BY <1>1 DEF PassphraseIsLine
<1> QED
  BY <1>2 DEF PassInv, LineInv, FileInv, Methods, Unread, Reading, Filing

\* Where the buffer is cut, the line is cut.
LEMMA CutIs ==
  ASSUME NEW l \in Seq(Plain), NEW b \in Seq(Plain \cup {"LF"}), Held(b, l)
  PROVE  Upto(b, EOL) = Upto(l, {"CR"})
<1> DEFINE n == strcspn(l, {"CR"})
<1>1. Spans(l, {"CR"}, n)
  BY SpanIs
<1> HIDE DEF n
<1>2. /\ n \in 0..Len(l) /\ Len(l) \in Nat /\ Len(b) \in Nat
      /\ \A k \in 1..n : l[k] # "CR"
      /\ n < Len(l) => l[n + 1] = "CR"
  BY <1>1 DEF Spans
<1>3. \A k \in 1..Len(l) : l[k] # "LF"
  <2>1. \A k \in 1..Len(l) : l[k] \in Plain
    OBVIOUS
  <2> QED
    BY <2>1, PassAssumption DEF Plain
<1>4. /\ n \in 0..Len(b) /\ (\A k \in 1..n : b[k] = l[k])
      /\ n < Len(b) => b[n + 1] \in EOL
  <2>1. CASE b = l
    BY <1>2, <2>1 DEF EOL
  <2>2. CASE b = Append(l, "LF")
    <3>1. Len(b) = Len(l) + 1 /\ b[Len(l) + 1] = "LF" /\ \A k \in 1..Len(l) : b[k] = l[k]
      BY <2>2
    <3> QED
      BY <1>2, <3>1 DEF EOL
  <2>3. CASE l = Append(b, "CR")
    <3>1. Len(l) = Len(b) + 1 /\ l[Len(b) + 1] = "CR" /\ \A k \in 1..Len(b) : l[k] = b[k]
      BY <2>3
    <3>2. n # Len(l)
      BY <1>2, <3>1
    <3> QED
      BY <1>2, <3>1, <3>2 DEF EOL
  <2> QED
    BY <2>1, <2>2, <2>3 DEF Held
<1>5. \A k \in 1..n : b[k] \notin EOL
  <2>1. \A k \in 1..n : k \in 1..Len(l) /\ b[k] = l[k] /\ l[k] # "CR"
    BY <1>2, <1>4
  <2> QED
    BY <1>3, <2>1 DEF EOL
<1>6. Spans(b, EOL, n)
  BY <1>4, <1>5 DEF Spans
<1>7. n = strcspn(b, EOL)
  BY <1>6, SpanIs
<1>8. Upto(b, EOL) = SubSeq(b, 1, n) /\ Upto(l, {"CR"}) = SubSeq(l, 1, n)
  BY <1>7, Zenon DEF Upto, n
<1>9. SubSeq(b, 1, n) = SubSeq(l, 1, n)
  BY <1>2, <1>4
<1> QED
  BY <1>8, <1>9

\* A line that is taken is a line.
LEMMA ReadsLine ==
  ASSUME NEW l \in Seq(Plain), NEW x \in {"EOF", "LF"}, NEW t, t = Append(l, x),
         NEW b \in Seq(Plain \cup {"LF"}), Held(b, l),
         Len(Without(l, "CR")) < MAXPASSLEN, l # <<>> \/ x = "LF"
  PROVE  LineRead(t, b)
<1>1. l \in Seq(AllBytes) /\ x \in AllBytes
  BY SeqMonotonic DEF Plain, AllBytes, Bytes
<1>2. t # <<>> /\ Len(t) = Len(l) + 1 /\ Last(t) = x /\ Front(t) = l
  BY <1>1, Appended, ZenonT(60)
<1>3. t # <<"EOF">>
  <2>1. CASE x = "LF"
    <3>1. Last(<<"EOF">>) = "EOF"
      BY DEF Last
    <3> QED
      BY <1>2, <2>1, <3>1
  <2>2. CASE l # <<>>
    BY <1>2, <2>2
  <2> QED
    BY <2>1, <2>2
<1>4. Upto(b, EOL) = Upto(l, {"CR"})
  BY CutIs
<1> QED
  BY <1>2, <1>3, <1>4 DEF LineRead, LineGives, Plain

LEMMA LineTaken ==
  ASSUME PassInv, pp_pc \in {"line", "line_cr"}, pp_pc' = "read", LineRead(typed', buf'),
         method' = method, confirming' = confirming, pp_passbuf' = pp_passbuf, first' = first
  PROVE  PassInv'
<1>1. confirming => LineRead(first, pp_passbuf)
  BY DEF PassInv, LineInv, Reading
<1>2. method \in Terminals
  BY DEF PassInv, Methods, Reading
<1>3. confirming' => LineRead(first', pp_passbuf')
  BY <1>1
<1> QED
  BY <1>2, <1>3 DEF PassInv, LineInv, FileInv, Methods, Unread, PassphraseIsLine, Reading,
     Filing

\* Two lines that leave the same are the same.
LEMMA HeldTwice ==
  ASSUME NEW s \in Seq(Plain), NEW t \in Seq(Plain), NEW b, Held(b, s), Held(b, t)
  PROVE  SameLine(s, t)
<1>1. ASSUME NEW u \in Seq(Plain), NEW v \in Seq(Plain), u = Append(v, "LF") PROVE FALSE
  <2>1. "LF" \in AllBytes /\ v \in Seq(AllBytes)
    BY SeqMonotonic DEF Plain, AllBytes, Bytes
  <2>2. Len(u) \in Nat \ {0} /\ u[Len(u)] = "LF"
    BY <1>1, <2>1, Appended
  <2>3. u[Len(u)] \in Plain
    BY <2>2
  <2> QED
    BY <2>2, <2>3, PassAssumption DEF Plain
<1>2. ASSUME NEW u \in Seq(Plain), NEW v \in Seq(Plain), u = Append(Append(v, "LF"), "CR") PROVE FALSE
  <2>1. v \in Seq(AllBytes) /\ "LF" \in AllBytes /\ "CR" \in AllBytes
    BY SeqMonotonic DEF Plain, AllBytes, Bytes
  <2>2. Append(v, "LF") \in Seq(AllBytes) /\ Last(Append(v, "LF")) = "LF" /\ Append(v, "LF") # <<>>
        /\ Len(Append(v, "LF")) = Len(v) + 1 /\ Len(v) \in Nat
    BY <2>1, Appended, ZenonT(60)
  <2>3. Front(u) = Append(v, "LF") /\ Len(u) = Len(Append(v, "LF")) + 1
    BY <1>2, <2>1, <2>2, Appended, ZenonT(60)
  <2>4. Front(u) \in Seq(Plain)
    BY <2>2, <2>3 DEF Front
  <2> QED
    BY <1>1, <2>3, <2>4
<1>3. ASSUME s = Append(b, "CR"), t = Append(b, "CR") PROVE s = t
  BY <1>3
<1>4. ASSUME b = Append(s, "LF"), b = Append(t, "LF") PROVE s = t
  <2>1. "LF" \in AllBytes /\ s \in Seq(AllBytes) /\ t \in Seq(AllBytes)
    BY SeqMonotonic DEF Plain, AllBytes, Bytes
  <2>2. Front(b) = s /\ Front(b) = t
    BY <1>4, <2>1, Appended, ZenonT(60)
  <2> QED
    BY <2>2
<1>5. ~(b = t /\ b = Append(s, "LF")) /\ ~(b = s /\ b = Append(t, "LF"))
  BY <1>1
<1>6. ~(t = Append(b, "CR") /\ b = Append(s, "LF")) /\ ~(s = Append(b, "CR") /\ b = Append(t, "LF"))
  BY <1>2
<1> QED
  BY <1>3, <1>4, <1>5, <1>6, Zenon DEF Held, SameLine

\* Every byte of a line so far, and one more.
LEMMA PlainIs ==
  ASSUME NEW b \in Seq(Plain)
  PROVE  /\ b \in Seq(AllBytes) /\ b \in Seq(Plain \cup {"LF"}) /\ Len(b) \in Nat
         /\ Len(Without(b, "CR")) <= Len(b) /\ Len(Without(b, "CR")) \in Nat
<1>1. b \in Seq(AllBytes) /\ b \in Seq(Plain \cup {"LF"})
  BY SeqMonotonic DEF Plain, AllBytes, Bytes
<1>2. "CR" \in Plain
  BY DEF Plain
<1> QED
  BY <1>1, <1>2, WithoutIs

LEMMA ReadLineStep == ASSUME PassInv, ReadLine PROVE PassInv'
<1>1. /\ pp_pc = "line" /\ Len(buf) < MAXPASSLEN - 1 /\ method' = method
      /\ confirming' = confirming /\ pp_passbuf' = pp_passbuf /\ first' = first
  BY DEF ReadLine
<1>2. buf \in Seq(Plain) /\ typed = buf /\ method \in Terminals /\ MAXPASSLEN \in Nat
      /\ (confirming => LineRead(first, pp_passbuf))
  BY <1>1, PassAssumption DEF PassInv, LineInv, Methods, Reading
<1>3. PICK c \in AllBytes :
       /\ typed' = Append(buf, c)
       /\ \/ c = "error" /\ PPGoto("error")
          \/ c = "EOF" /\ buf = <<>> /\ PPGoto("refused")
          \/ c = "EOF" /\ buf # <<>> /\ Line(buf)
          \/ c = "NUL" /\ PPGoto("refused")
          \/ c = "LF" /\ Line(Append(buf, c))
          \/ c \in Chars \cup {"CR"} /\ buf' = Append(buf, c) /\ UNCHANGED pp_pc
  BY <1>2 DEF ReadLine, Gets, AllBytes
<1>4. /\ buf \in Seq(AllBytes) /\ buf \in Seq(Plain \cup {"LF"}) /\ Len(buf) \in Nat
      /\ Len(Without(buf, "CR")) < MAXPASSLEN
  <2>1. /\ buf \in Seq(AllBytes) /\ buf \in Seq(Plain \cup {"LF"}) /\ Len(buf) \in Nat
        /\ Len(Without(buf, "CR")) <= Len(buf) /\ Len(Without(buf, "CR")) \in Nat
    BY <1>2, PlainIs
  <2> QED
    BY <1>1, <1>2, <2>1
<1>5. CASE c = "error" /\ PPGoto("error")
  BY <1>5, Failed DEF PPGoto
<1>6. CASE c = "EOF" /\ buf = <<>> /\ PPGoto("refused")
  <2>1. typed' = <<"EOF">> /\ pp_pc' = "refused"
    BY <1>3, <1>6 DEF PPGoto
  <2> QED
    BY <1>1, <1>2, <2>1, LineRefused
<1>7. CASE c = "EOF" /\ buf # <<>> /\ Line(buf)
  <2>1. LineRead(typed', buf)
    BY <1>2, <1>3, <1>4, <1>7, ReadsLine DEF Held
  <2>2. pp_pc' = "read" /\ buf' = buf
    BY <1>7 DEF Line
  <2> QED
    BY <1>1, <2>1, <2>2, LineTaken
<1>8. CASE c = "NUL" /\ PPGoto("refused")
  <2>1. typed' # <<>> /\ typed'[Len(typed')] = "NUL" /\ typed' \in Seq(AllBytes)
    BY <1>3, <1>4, <1>8, Appended
  <2>2. "NUL" \in Range(typed')
    BY <2>1 DEF Range
  <2> QED
    BY <1>1, <1>2, <1>8, <2>2, LineRefused DEF PPGoto
<1>9. CASE c = "LF" /\ Line(Append(buf, c))
  <2>1. pp_pc' = "read" /\ buf' = Append(buf, "LF")
    BY <1>9 DEF Line
  <2>2. buf' \in Seq(Plain \cup {"LF"})
    BY <1>4, <2>1
  <2>3. LineRead(typed', buf')
    BY <1>2, <1>3, <1>4, <1>9, <2>1, <2>2, ReadsLine DEF Held
  <2> QED
    BY <1>1, <2>1, <2>3, LineTaken
<1>10. CASE c \in Chars \cup {"CR"} /\ buf' = Append(buf, c) /\ UNCHANGED pp_pc
  <2>1. buf' \in Seq(Plain) /\ Len(buf') <= MAXPASSLEN - 1 /\ typed' = buf' /\ pp_pc' = "line"
    BY <1>1, <1>2, <1>3, <1>4, <1>10 DEF Plain
  <2>2. confirming' => LineRead(first', pp_passbuf')
    BY <1>1, <1>2
  <2> QED
    BY <1>1, <1>2, <2>1, <2>2
    DEF PassInv, LineInv, FileInv, Methods, Unread, PassphraseIsLine, Reading, Filing
<1> QED
  BY <1>3, <1>5, <1>6, <1>7, <1>8, <1>9, <1>10

LEMMA ReadFollowingStep == ASSUME PassInv, ReadFollowing PROVE PassInv'
<1>1. /\ pp_pc \in {"line", "line_cr"} /\ method' = method
      /\ confirming' = confirming /\ pp_passbuf' = pp_passbuf /\ first' = first
  BY DEF ReadFollowing
<1>2. /\ buf \in Seq(Plain) /\ Len(buf) = MAXPASSLEN - 1 /\ method \in Terminals
      /\ typed = IF pp_pc = "line" THEN buf ELSE Append(buf, "CR")
      /\ MAXPASSLEN \in Nat \ {0, 1} /\ (confirming => LineRead(first, pp_passbuf))
  BY <1>1, PassAssumption DEF PassInv, LineInv, Methods, Reading, ReadFollowing
<1>3. PICK c \in AllBytes :
        /\ typed' = Append(typed, c)
        /\ IF c = "error" THEN PPGoto("error")
           ELSE IF Follows(c) THEN Line(buf)
           ELSE IF c = "CR" /\ pp_pc = "line" THEN PPGoto("line_cr")
           ELSE PPGoto("refused")
  BY DEF ReadFollowing, Gets, AllBytes
<1>4. /\ buf \in Seq(AllBytes) /\ buf \in Seq(Plain \cup {"LF"}) /\ Len(buf) \in Nat
      /\ Len(Without(buf, "CR")) < MAXPASSLEN
  <2>1. /\ buf \in Seq(AllBytes) /\ buf \in Seq(Plain \cup {"LF"}) /\ Len(buf) \in Nat
        /\ Len(Without(buf, "CR")) <= Len(buf) /\ Len(Without(buf, "CR")) \in Nat
    BY <1>2, PlainIs
  <2> QED
    BY <1>2, <2>1
<1>5. /\ typed \in Seq(Plain) /\ typed # <<>> /\ Held(buf, typed)
      /\ Len(Without(typed, "CR")) < MAXPASSLEN /\ typed \in Seq(AllBytes)
  <2>1. CASE pp_pc = "line"
    BY <1>2, <1>4, <2>1 DEF Held
  <2>2. CASE pp_pc = "line_cr"
    <3>1. typed = Append(buf, "CR") /\ "CR" \in Plain
      BY <1>2, <2>2 DEF Plain
    <3>2. typed \in Seq(Plain) /\ typed # <<>> /\ Without(typed, "CR") = buf
      <4>1. typed \in Seq(Plain) /\ typed # <<>>
        BY <1>2, <3>1
      <4>2. Without(Append(buf, "CR"), "CR") = buf
        BY <1>2, <3>1, WithoutIs, Zenon
      <4> QED
        BY <3>1, <4>1, <4>2
    <3>3. typed \in Seq(AllBytes)
      BY <3>2, PlainIs
    <3> QED
      BY <1>2, <3>1, <3>2, <3>3 DEF Held
  <2> QED
    BY <1>1, <2>1, <2>2
<1>6. CASE c = "error"
  BY <1>3, <1>6, Failed DEF PPGoto
<1>7. CASE c # "error" /\ Follows(c)
  <2>1. pp_pc' = "read" /\ buf' = buf
    BY <1>3, <1>7 DEF Line
  <2>2. LineRead(typed', buf)
    BY <1>3, <1>4, <1>5, <1>7, ReadsLine DEF Follows
  <2> QED
    BY <1>1, <2>1, <2>2, LineTaken
<1>8. CASE c # "error" /\ ~Follows(c) /\ c = "CR" /\ pp_pc = "line"
  <2>1. pp_pc' = "line_cr" /\ buf' = buf /\ typed' = Append(buf, "CR")
    BY <1>2, <1>3, <1>8 DEF PPGoto
  <2>2. confirming' => LineRead(first', pp_passbuf')
    BY <1>1, <1>2
  <2>3. buf' \in Seq(Plain) /\ Len(buf') = MAXPASSLEN - 1 /\ Len(buf') <= MAXPASSLEN - 1
    BY <1>2, <2>1
  <2> QED
    BY <1>1, <1>2, <2>1, <2>2, <2>3
    DEF PassInv, LineInv, FileInv, Methods, Unread, PassphraseIsLine, Reading, Filing
<1>9. CASE c # "error" /\ ~Follows(c) /\ ~(c = "CR" /\ pp_pc = "line")
  <2>1. pp_pc' = "refused"
    BY <1>3, <1>9 DEF PPGoto
  <2>2. /\ typed' \in Seq(AllBytes) /\ typed' # <<>> /\ Len(typed') = Len(typed) + 1
        /\ Last(typed') = c /\ Len(typed) \in Nat /\ "CR" \in AllBytes
    <3>1. "CR" \in AllBytes
      BY DEF AllBytes, Bytes
    <3> QED
      BY <1>3, <1>5, <3>1, Appended, ZenonT(60)
  <2>3. Len(Without(typed', "CR")) >= MAXPASSLEN
    <3>1. /\ Len(Without(typed', "CR")) \in Nat /\ Len(typed') <= Len(Without(typed', "CR")) + 1
          /\ Last(typed') # "CR" => Without(typed', "CR") = typed'
      BY <2>2, WithoutIs
    <3>2. CASE pp_pc = "line"
      BY <1>2, <1>9, <2>2, <3>1, <3>2
    <3>3. CASE pp_pc = "line_cr"
      <4>1. Len(typed) = MAXPASSLEN
        BY <1>2, <3>3
      <4> QED
        BY <1>2, <2>2, <3>1, <4>1
    <3> QED
      BY <1>1, <3>2, <3>3
  <2> QED
    BY <1>1, <1>2, <2>1, <2>3, LineRefused
<1> QED
  BY <1>6, <1>7, <1>8, <1>9

LEMMA FirstLineStep == ASSUME PassInv, FirstLine PROVE PassInv'
<1>1. /\ pp_pc = "read" /\ ~confirming /\ pp_passbuf' = buf /\ first' = typed /\ confirming' = Confirms
      /\ method' = method /\ once' = once /\ LineRead(typed, buf) /\ method \in Terminals
      /\ MAXPASSLEN \in Nat \ {0, 1}
  BY PassAssumption DEF FirstLine, PassInv, LineInv, Methods, Reading
<1>2. LineRead(first', pp_passbuf')
  BY <1>1
<1>3. CASE Confirms
  <2>1. pp_pc' = "line" /\ buf' = <<>> /\ typed' = <<>>
    BY <1>3 DEF FirstLine, Again
  <2>2. buf' \in Seq(Plain) /\ Len(buf') <= MAXPASSLEN - 1 /\ typed' = buf'
    BY <1>1, <2>1
  <2> QED
    BY <1>1, <1>2, <2>1, <2>2
    DEF PassInv, LineInv, FileInv, Methods, Unread, PassphraseIsLine, Reading, Filing
<1>4. CASE ~Confirms
  <2>1. pp_pc' = "cut" /\ ~Confirms'
    BY <1>1, <1>4 DEF FirstLine, Confirms
  <2> QED
    BY <1>1, <1>2, <2>1
    DEF PassInv, LineInv, FileInv, Methods, Unread, PassphraseIsLine, Reading, Filing
<1> QED
  BY <1>3, <1>4

LEMMA SecondLineStep == ASSUME PassInv, SecondLine PROVE PassInv'
<1>1. /\ pp_pc = "read" /\ confirming /\ buf = pp_passbuf /\ pp_pc' = "cut"
      /\ method' = method /\ buf' = buf /\ pp_passbuf' = pp_passbuf /\ typed' = typed /\ first' = first
  BY DEF SecondLine
<1>2. LineRead(typed, buf) /\ LineRead(first, pp_passbuf) /\ method \in Terminals
  BY <1>1 DEF PassInv, LineInv, Methods, Reading
<1>3. LineRead(typed', pp_passbuf') /\ LineRead(first', pp_passbuf')
  BY <1>1, <1>2
<1> QED
  BY <1>1, <1>2, <1>3
  DEF PassInv, LineInv, FileInv, Methods, Unread, PassphraseIsLine, Reading, Filing

LEMMA MismatchStep == ASSUME PassInv, Mismatch PROVE PassInv'
<1>1. /\ pp_pc' = "line" /\ buf' = <<>> /\ typed' = <<>> /\ ~confirming' /\ method' = method
      /\ pp_pc = "read" /\ MAXPASSLEN \in Nat \ {0, 1}
  BY PassAssumption DEF Mismatch, Again
<1>2. method \in Terminals
  BY <1>1 DEF PassInv, Methods, Reading
<1>3. buf' \in Seq(Plain) /\ Len(buf') <= MAXPASSLEN - 1 /\ typed' = buf'
  BY <1>1
<1> QED
  BY <1>1, <1>2, <1>3
  DEF PassInv, LineInv, FileInv, Methods, Unread, PassphraseIsLine, Reading, Filing

LEMMA CutStep == ASSUME PassInv, Cut PROVE PassInv'
<1>1. /\ pp_pc = "cut" /\ method' = method /\ once' = once
      /\ typed' = typed /\ first' = first
  BY DEF Cut
<1>2. LineRead(first, pp_passbuf) /\ (Confirms => LineRead(typed, pp_passbuf)) /\ method \in Terminals
  BY <1>1 DEF PassInv, LineInv, Methods, Reading
<1>3. CASE pp_pc' = "error"
  BY <1>3, Failed
<1>4. CASE pp_pc' = "done" /\ pp_passwd' = Upto(pp_passbuf, EOL)
  <2>1. LineGives(first, pp_passwd')
    BY <1>2, <1>4 DEF LineRead
  <2>2. ASSUME Confirms PROVE LineGives(typed, pp_passwd') /\ SameLine(Front(first), Front(typed))
    <3>1. /\ LineGives(typed, pp_passwd')
          /\ Held(pp_passbuf, Front(typed)) /\ Held(pp_passbuf, Front(first))
      BY <1>2, <1>4, <2>2 DEF LineRead
    <3>2. Front(first) \in Seq(Plain) /\ Front(typed) \in Seq(Plain)
      BY <2>1, <3>1 DEF LineGives, Plain
    <3> QED
      BY <3>1, <3>2, HeldTwice
  <2>3. (Confirms' <=> Confirms) /\ method' \notin {"file", "env"}
    BY <1>1, <1>2 DEF Confirms, Terminals
  <2>4. /\ LineGives(first', pp_passwd')
        /\ Confirms' => LineGives(typed', pp_passwd') /\ SameLine(Front(first'), Front(typed'))
    BY <1>1, <2>1, <2>2, <2>3
  <2>5. PassphraseIsLine'
    BY <1>4, <2>3, <2>4 DEF PassphraseIsLine
  <2> QED
    BY <1>4, <2>5 DEF PassInv, LineInv, FileInv, Methods, Unread, Reading, Filing
<1> QED
  BY <1>3, <1>4 DEF Cut

LEMMA EntryStep == ASSUME PassInv, Entry PROVE PassInv'
<1>1. /\ pp_pc = "entry" /\ method' = method /\ buf' = buf
      /\ confirming' = confirming /\ first' = first /\ pp_passbuf' = pp_passbuf
      /\ MAXPASSLEN \in Nat \ {0, 1}
  BY PassAssumption DEF Entry
<1>2. buf = <<>> /\ typed = <<>> /\ ~confirming
  BY <1>1 DEF PassInv, Unread
<1>3. CASE pp_pc' = "error"
  BY <1>3, Failed
<1>4. CASE pp_pc' = "done" /\ method = "env" /\ pp_passwd' = typed'
  <2>1. PassphraseIsLine'
    BY <1>1, <1>4 DEF PassphraseIsLine
  <2> QED
    BY <1>1, <1>4, <2>1 DEF PassInv, LineInv, FileInv, Methods, Unread, Reading, Filing
<1>5. CASE method \in Terminals /\ pp_pc' = "line" /\ typed' = typed
  <2>1. buf' \in Seq(Plain) /\ Len(buf') <= MAXPASSLEN - 1 /\ typed' = buf' /\ ~confirming'
    BY <1>1, <1>2, <1>5
  <2> QED
    BY <1>1, <1>5, <2>1
    DEF PassInv, LineInv, FileInv, Methods, Unread, PassphraseIsLine, Reading, Filing
<1>6. CASE method = "file" /\ pp_pc' = "fgets" /\ typed' = typed
  <2>1. /\ buf' \in Seq(Bytes) /\ Len(buf') <= MAXPASSLEN - 1 /\ typed' = buf'
        /\ \A k \in 1..Len(buf') - 1 : buf'[k] # "LF"
    BY <1>1, <1>2, <1>6
  <2> QED
    BY <1>1, <1>6, <2>1
    DEF PassInv, LineInv, FileInv, Methods, Unread, PassphraseIsLine, Reading, Filing
<1> QED
  BY <1>3, <1>4, <1>5, <1>6 DEF Entry, Terminals

-----------------------------------------------------------------------------
\* What is left of the text of a file when its end of line is stripped.
Stripped(text) == IF text # <<>> /\ Last(text) = "LF" THEN Without(Front(text), "CR") ELSE text
WithEnd(p) == {p, p \o <<"LF">>, p \o <<"CR", "LF">>}

LEMMA ConcatAppends ==
  ASSUME NEW X, NEW p \in Seq(X), NEW x \in X, NEW y \in X
  PROVE  p \o <<x>> = Append(p, x) /\ p \o <<x, y>> = Append(Append(p, x), y)
<1>1. p \o <<x>> = Append(p, x)
  <2>1. Len(p \o <<x>>) = Len(Append(p, x)) /\ \A k \in 1..Len(p) + 1 : (p \o <<x>>)[k] = Append(p, x)[k]
    OBVIOUS
  <2> QED
    BY <2>1, SeqEqual
<1>2. p \o <<x, y>> = Append(Append(p, x), y)
  <2>1. /\ Len(p \o <<x, y>>) = Len(p) + 2 /\ Len(Append(Append(p, x), y)) = Len(p) + 2
        /\ \A k \in 1..Len(p) + 2 : (p \o <<x, y>>)[k] = Append(Append(p, x), y)[k]
    OBVIOUS
  <2> QED
    BY <2>1, SeqEqual
<1> QED
  BY <1>1, <1>2

\* Characters, and what a file may end with, are stripped to the characters.
LEMMA StripsEnd ==
  ASSUME NEW p \in Seq(Chars), NEW text, text \in WithEnd(p)
  PROVE  Stripped(text) = p
<1>1. p \in Seq(Bytes) /\ "LF" \in Bytes /\ "CR" \in Bytes
  BY SeqMonotonic DEF Bytes
<1>2. p # <<>> => Last(p) \notin EOL
  <2>1. p # <<>> => Last(p) \in Chars
    BY DEF Last
  <2> QED
    BY <2>1, PassAssumption DEF EOL
<1>3. p \o <<"LF">> = Append(p, "LF") /\ p \o <<"CR", "LF">> = Append(Append(p, "CR"), "LF")
  BY <1>1, ConcatAppends
<1>4. Append(p, "CR") \in Seq(Bytes)
  BY <1>1
<1>5. Without(p, "CR") = p /\ Without(Append(p, "CR"), "CR") = p
  BY <1>1, <1>2, WithoutIs DEF EOL
<1>6. CASE text = p
  BY <1>2, <1>6 DEF Stripped, EOL
<1>7. CASE text = Append(p, "LF")
  <2>1. text # <<>> /\ Last(text) = "LF" /\ Front(text) = p
    BY <1>1, <1>7, Appended, ZenonT(60)
  <2> QED
    BY <1>5, <2>1, Zenon DEF Stripped
<1>8. CASE text = Append(Append(p, "CR"), "LF")
  <2>1. text # <<>> /\ Last(text) = "LF" /\ Front(text) = Append(p, "CR")
    BY <1>1, <1>4, <1>8, Appended, ZenonT(60)
  <2> QED
    BY <1>5, <2>1, Zenon DEF Stripped
<1> QED
  BY <1>3, <1>6, <1>7, <1>8 DEF WithEnd

\* What is stripped, and has no CR or LF left, is characters alone.
LEMMA StripIsEnd ==
  ASSUME NEW text \in Seq(Bytes \ {"NUL"}), \A k \in 1..Len(Stripped(text)) : Stripped(text)[k] \notin EOL
  PROVE  Stripped(text) \in Seq(Chars) /\ text \in WithEnd(Stripped(text))
         /\ Len(Stripped(text)) <= Len(text)
<1> DEFINE p == Stripped(text)
           f == Front(text)
<1>1. CASE ~(text # <<>> /\ Last(text) = "LF")
  <2>1. p = text
    BY <1>1, Zenon DEF Stripped
  <2> HIDE DEF p
  <2> QED
    BY <2>1 DEF p, WithEnd, Bytes, EOL
<1>2. CASE text # <<>> /\ Last(text) = "LF"
  <2>1. f \in Seq(Bytes \ {"NUL"}) /\ Append(f, "LF") = text /\ Len(f) = Len(text) - 1
    BY <1>2, FrontOf
  <2>2. p = Without(f, "CR")
    BY <1>2, Zenon DEF Stripped
  <2>3. "CR" \in Bytes \ {"NUL"} /\ "LF" \in Bytes \ {"NUL"}
    BY DEF Bytes
  <2> HIDE DEF p, f
  <2>4. CASE f # <<>> /\ Last(f) = "CR"
    <3>1. p = Front(f)
      BY <2>2, <2>4, Zenon DEF Without
    <3>2. p \in Seq(Bytes \ {"NUL"}) /\ Append(p, "CR") = f /\ Len(p) = Len(f) - 1
      BY <2>1, <2>4, <3>1, FrontOf
    <3>3. p \o <<"CR", "LF">> = text
      <4>1. p \o <<"CR", "LF">> = Append(Append(p, "CR"), "LF")
        BY <2>3, <3>2, ConcatAppends
      <4> QED
        BY <2>1, <3>2, <4>1, Zenon
    <3>4. p \in Seq(Chars)
      BY <3>2 DEF p, Bytes, EOL
    <3> QED
      BY <2>1, <3>2, <3>3, <3>4 DEF p, WithEnd
  <2>5. CASE ~(f # <<>> /\ Last(f) = "CR")
    <3>1. p = f
      BY <2>2, <2>5, Zenon DEF Without
    <3>2. p \o <<"LF">> = text
      BY <2>1, <2>3, <3>1, ConcatAppends
    <3>3. p \in Seq(Chars)
      BY <2>1, <3>1 DEF p, Bytes, EOL
    <3> QED
      BY <2>1, <3>1, <3>2, <3>3 DEF p, WithEnd
  <2> QED
    BY <2>4, <2>5
<1> QED
  BY <1>1, <1>2

\* The text that strlen sees.
LEMMA TextIs ==
  ASSUME NEW b \in Seq(Bytes)
  PROVE  Upto(b, {"NUL"}) \in Seq(Bytes \ {"NUL"}) /\ Len(Upto(b, {"NUL"})) <= Len(b)
<1> DEFINE n == strcspn(b, {"NUL"})
<1>1. Spans(b, {"NUL"}, n)
  BY SpanIs
<1>2. Upto(b, {"NUL"}) = SubSeq(b, 1, n)
  BY Zenon DEF Upto
<1> HIDE DEF n
<1>3. n \in 0..Len(b) /\ \A k \in 1..n : b[k] # "NUL"
  BY <1>1 DEF Spans
<1>4. SubSeq(b, 1, n) \in Seq(Bytes) /\ Len(SubSeq(b, 1, n)) = n
      /\ \A k \in 1..n : SubSeq(b, 1, n)[k] = b[k] /\ b[k] \in Bytes \ {"NUL"}
  BY <1>3
<1> QED
  BY <1>2, <1>3, <1>4

LEMMA FgetsStep == ASSUME PassInv, Fgets PROVE PassInv'
<1>1. pp_pc = "fgets" /\ method' = method
  BY DEF Fgets
<1>2. /\ buf \in Seq(Bytes) /\ Len(buf) <= MAXPASSLEN - 1 /\ typed = buf /\ method = "file"
      /\ \A k \in 1..Len(buf) - 1 : buf[k] # "LF"
  BY <1>1 DEF PassInv, FileInv, Methods, Filing
<1>3. Len(buf) \in Nat /\ MAXPASSLEN \in Nat
  BY <1>2, PassAssumption
<1>4. CASE pp_pc' = "error"
  BY <1>4, Failed
<1>5. CASE /\ pp_pc' = "fgetc" /\ buf' = buf
           /\ \/ typed' = buf /\ (Len(buf) = MAXPASSLEN - 1 \/ (buf # <<>> /\ Last(buf) = "LF"))
              \/ typed' = Append(buf, "EOF")
  BY <1>1, <1>2, <1>5
  DEF PassInv, LineInv, FileInv, Methods, Unread, PassphraseIsLine, Reading, Filing
<1>6. CASE /\ pp_pc' = pp_pc /\ Len(buf) # MAXPASSLEN - 1 /\ (buf # <<>> => Last(buf) # "LF")
           /\ \E c \in Bytes : buf' = Append(buf, c) /\ typed' = Append(typed, c)
  <2>1. PICK c \in Bytes : buf' = Append(buf, c) /\ typed' = Append(typed, c)
    BY <1>6
  <2>2. buf' \in Seq(Bytes) /\ Len(buf') = Len(buf) + 1 /\ typed' = buf'
    BY <1>2, <2>1
  <2>3. Len(buf') <= MAXPASSLEN - 1
    BY <1>2, <1>3, <1>6, <2>2
  <2>4. ASSUME NEW k \in 1..Len(buf') - 1 PROVE buf'[k] # "LF"
    <3>1. k \in 1..Len(buf) /\ buf'[k] = buf[k]
      BY <1>2, <1>3, <2>1, <2>2
    <3>2. CASE k = Len(buf)
      BY <1>2, <1>3, <1>6, <3>1, <3>2 DEF Last
    <3>3. CASE k # Len(buf)
      BY <1>2, <1>3, <3>1, <3>3
    <3> QED
      BY <3>2, <3>3
  <2> QED
    BY <1>1, <1>2, <1>6, <2>2, <2>3, <2>4
    DEF PassInv, LineInv, FileInv, Methods, Unread, PassphraseIsLine, Reading, Filing
<1>7. CASE Len(buf) = MAXPASSLEN - 1 \/ (buf # <<>> /\ Last(buf) = "LF")
  BY <1>2, <1>5, <1>7 DEF Fgets, PPGoto
<1>8. CASE ~(Len(buf) = MAXPASSLEN - 1 \/ (buf # <<>> /\ Last(buf) = "LF"))
  <2>1. PICK c \in AllBytes :
          /\ typed' = Append(typed, c)
          /\ IF c = "error" THEN PPGoto("error") ELSE IF c = "EOF" THEN PPGoto("fgetc")
             ELSE buf' = Append(buf, c) /\ UNCHANGED pp_pc
    BY <1>8 DEF Fgets, Gets, AllBytes
  <2>2. CASE c = "error"
    BY <1>4, <2>1, <2>2 DEF PPGoto
  <2>3. CASE c = "EOF"
    BY <1>2, <1>5, <2>1, <2>3 DEF PPGoto
  <2>4. CASE c \notin {"error", "EOF"}
    BY <1>6, <1>8, <2>1, <2>4 DEF AllBytes
  <2> QED
    BY <2>2, <2>3, <2>4
<1> QED
  BY <1>7, <1>8

LEMMA FgetcStep == ASSUME PassInv, Fgetc PROVE PassInv'
<1>1. pp_pc = "fgetc" /\ method' = method /\ buf' = buf
  BY DEF Fgetc
<1>2. /\ buf \in Seq(Bytes) /\ Len(buf) <= MAXPASSLEN - 1 /\ method = "file"
      /\ \A k \in 1..Len(buf) - 1 : buf[k] # "LF"
      /\ \/ typed = buf /\ (Len(buf) = MAXPASSLEN - 1 \/ (buf # <<>> /\ Last(buf) = "LF"))
         \/ typed = Append(buf, "EOF")
  BY <1>1 DEF PassInv, FileInv, Methods, Filing
<1>3. CASE pp_pc' = "error"
  BY <1>3, Failed
<1>4. CASE pp_pc' = "strip" /\ typed' \in {Append(buf, "EOF"), Append(buf, "error")}
  BY <1>1, <1>2, <1>4
  DEF PassInv, LineInv, FileInv, Methods, Unread, PassphraseIsLine, Reading, Filing
<1>5. buf \in Seq(AllBytes) /\ "EOF" \in AllBytes /\ MAXPASSLEN \in Nat \ {0, 1}
  BY <1>2, SeqMonotonic, PassAssumption DEF AllBytes
<1>6. PICK c \in AllBytes : typed' = Append(buf, c) /\ (typed # buf => c = "EOF")
  <2>1. CASE typed = Append(buf, "EOF")
    <3>1. typed # <<>> /\ Last(typed) = "EOF"
      BY <1>5, <2>1, Appended, ZenonT(60)
    <3>2. typed' = typed
      BY <3>1 DEF Fgetc
    <3> QED
      BY <1>5, <2>1, <3>2
  <2>2. CASE typed = buf
    <3>1. ~(typed # <<>> /\ Last(typed) = "EOF")
      <4>1. typed # <<>> => Last(typed) \in Bytes
        BY <1>2, <2>2 DEF Last
      <4> QED
        BY <4>1, PassAssumption DEF Bytes
    <3> QED
      BY <2>2, <3>1 DEF Fgetc, Gets, AllBytes
  <2> QED
    BY <1>2, <2>1, <2>2
<1>7. /\ typed' \in Seq(AllBytes) /\ Last(typed') = c /\ typed' # <<>> /\ Front(typed') = buf
      /\ Len(typed') = Len(buf) + 1
  BY <1>5, <1>6, Appended, ZenonT(60)
<1>8. CASE c \in {"EOF", "error"}
  <2>1. pp_pc' \in {"strip", "error"}
    BY <1>7, <1>8 DEF Fgetc
  <2> QED
    BY <1>3, <1>4, <1>6, <1>8, <2>1
<1>9. CASE c \notin {"EOF", "error"}
  <2>1. pp_pc' = "refused"
    BY <1>7, <1>9 DEF Fgetc
  <2>2. Len(buf) = MAXPASSLEN - 1 \/ (buf # <<>> /\ Last(buf) = "LF")
    BY <1>2, <1>6, <1>9
  <2>3. Len(typed') >= MAXPASSLEN \/ "LF" \in Range(Front(typed'))
    <3>1. CASE Len(buf) = MAXPASSLEN - 1
      BY <1>5, <1>7, <3>1
    <3>2. CASE buf # <<>> /\ Last(buf) = "LF"
      BY <1>2, <1>7, <3>2 DEF Range, Last
    <3> QED
      BY <2>2, <3>1, <3>2
  <2>4. PassphraseIsLine'
    BY <1>1, <1>2, <1>7, <1>9, <2>1, <2>3 DEF PassphraseIsLine
  <2> QED
    BY <1>1, <1>2, <2>1, <2>4 DEF PassInv, LineInv, FileInv, Methods, Unread, Reading, Filing
<1> QED
  BY <1>8, <1>9

LEMMA StripStep == ASSUME PassInv, Strip PROVE PassInv'
<1>1. pp_pc = "strip" /\ method' = method /\ typed' = typed
  BY DEF Strip
<1>2. /\ buf \in Seq(Bytes) /\ Len(buf) <= MAXPASSLEN - 1 /\ method = "file"
      /\ \A k \in 1..Len(buf) - 1 : buf[k] # "LF"
  BY <1>1 DEF PassInv, FileInv, Methods, Filing
<1>3. PICK x \in {"EOF", "error"} : typed = Append(buf, x)
  BY <1>1 DEF PassInv, FileInv, Filing
<1>4. buf \in Seq(AllBytes) /\ x \in AllBytes /\ MAXPASSLEN \in Nat
  BY <1>2, SeqMonotonic, PassAssumption DEF AllBytes
<1>5. typed # <<>> /\ Last(typed) = x /\ Front(typed) = buf /\ Len(buf) \in Nat
  BY <1>3, <1>4, Appended, ZenonT(60)
<1> DEFINE text == Upto(buf, {"NUL"})
           line == Stripped(text)
<1>6. IF strcspn(line, EOL) # Len(line)
        THEN pp_pc' = "refused"
        ELSE (pp_pc' = "done" /\ pp_passwd' = line) \/ pp_pc' = "error"
  BY Zenon DEF Strip, Stripped
<1>7. text \in Seq(Bytes \ {"NUL"}) /\ Len(text) <= Len(buf)
  BY <1>2, TextIs
<1> HIDE DEF text
<1>8. line \in Seq(Bytes)
  <2>1. text \in Seq(Bytes)
    BY <1>7, SeqMonotonic
  <2>2. text # <<>> => Front(text) \in Seq(Bytes)
    BY <2>1, FrontOf
  <2>3. text # <<>> => Without(Front(text), "CR") \in Seq(Bytes)
    BY <2>2, FrontOf DEF Without
  <2> QED
    BY <2>1, <2>3 DEF Stripped
<1> HIDE DEF line
<1>9. Spans(line, EOL, strcspn(line, EOL))
  BY <1>8, SpanIs
<1>10. CASE pp_pc' = "error"
  BY <1>10, Failed
<1>11. CASE strcspn(line, EOL) # Len(line)
  <2>1. PICK k \in 1..Len(line) : line[k] \in EOL
    BY <1>8, <1>9, <1>11 DEF Spans
  <2>2. ASSUME NEW p, FileGives(typed, p) PROVE FALSE
    <3>1. p \in Seq(Chars) /\ text \in WithEnd(p)
      BY <1>5, <2>2, Zenon DEF FileGives, WithEnd, text
    <3>2. line = p
      BY <3>1, StripsEnd DEF line
    <3>3. line[k] \in Chars
      BY <3>1, <3>2
    <3> QED
      BY <2>1, <3>3, PassAssumption DEF EOL
  <2>3. \A n \in 0..Len(typed') : ~FileGives(typed', SubSeq(typed', 1, n))
    BY <1>1, <2>2
  <2>4. pp_pc' = "refused" /\ method' = "file" /\ Last(typed') \in {"EOF", "error"}
    BY <1>1, <1>2, <1>5, <1>6, <1>11
  <2>5. PassphraseIsLine'
    BY <2>3, <2>4 DEF PassphraseIsLine
  <2> QED
    BY <2>4, <2>5 DEF PassInv, LineInv, FileInv, Methods, Unread, Reading, Filing
<1>12. CASE strcspn(line, EOL) = Len(line) /\ pp_pc' = "done"
  <2>1. \A k \in 1..Len(line) : line[k] \notin EOL
    BY <1>9, <1>12 DEF Spans
  <2>2. line \in Seq(Chars) /\ text \in WithEnd(line)
    BY <1>7, <2>1, StripIsEnd DEF line
  <2>3. pp_passwd' = line /\ Len(buf) < MAXPASSLEN
    BY <1>2, <1>4, <1>5, <1>6, <1>12
  <2>4. FileGives(typed', pp_passwd')
    BY <1>1, <1>2, <1>5, <2>2, <2>3 DEF FileGives, WithEnd, text
  <2>5. PassphraseIsLine'
    BY <1>1, <1>2, <1>12, <2>4 DEF PassphraseIsLine
  <2> QED
    BY <1>12, <2>5 DEF PassInv, LineInv, FileInv, Methods, Unread, Reading, Filing
<1> QED
  BY <1>6, <1>10, <1>11, <1>12

LEMMA PPInitInvariant == PPInit => PassInv
BY DEF PPInit, PassInv, LineInv, FileInv, Methods, Unread, PassphraseIsLine, Reading, Filing

LEMMA PPCallInvariant == ASSUME NEW m, NEW o, PPCall(m, o) PROVE PassInv'
BY DEF PPCall, PassInv, LineInv, FileInv, Methods, Unread, PassphraseIsLine, Reading, Filing

LEMMA PPNextInvariant == PassInv /\ PPNext => PassInv'
BY EntryStep, ReadLineStep, ReadFollowingStep, FirstLineStep, SecondLineStep, MismatchStep,
   CutStep,
   FgetsStep, FgetcStep, StripStep DEF PPNext

LEMMA PPStutters == PassInv /\ UNCHANGED ppvars => PassInv'
BY DEF ppvars, PassInv, LineInv, FileInv, Methods, Unread, PassphraseIsLine, Confirms

(***************************************************************************)
(* Recursion.                                                              *)
(***************************************************************************)
\* The recursive functions of CommandLine take one of these turns.
Turn(how, x, k) == CASE how.kind = "size" -> SizeStep(x, how.text[k])
                     [] how.kind = "value" -> 10 * x + Digit[how.text[k]]
                     [] OTHER -> ReadOption(x)

Taken(g, how, a, n) == g = [k \in 0..n |-> IF k = 0 THEN a ELSE Turn(how, g[k - 1], k)]

\* A function that is defined by one turn after the other exists.
LEMMA Recursion ==
  ASSUME NEW how, NEW a, NEW n \in Nat
  PROVE  \E g : Taken(g, how, a, n)
<1> DEFINE e(g, k) == IF k = 0 THEN a ELSE Turn(how, g[k - 1], k)
           Is(g, m) == g = [k \in 0..m |-> e(g, k)]
           Done == {m \in Nat : \E g : Is(g, m)}
<1>1. 0 \in Done
  <2> DEFINE g == [k \in 0..0 |-> a]
  <2>1. g = [k \in 0..0 |-> e(g, k)]
    OBVIOUS
  <2> QED
    BY <2>1
<1>2. ASSUME NEW m \in Nat, m \in Done PROVE m + 1 \in Done
  <2>1. PICK g : Is(g, m)
    BY <1>2
  <2> DEFINE h == [k \in 0..(m + 1) |-> IF k = m + 1 THEN e(g, m + 1) ELSE g[k]]
  <2>2. ASSUME NEW k \in 0..(m + 1) PROVE h[k] = e(h, k)
    <3>1. CASE k = m + 1
      <4>1. h[k] = e(g, m + 1) /\ m + 1 # 0 /\ m \in 0..(m + 1) /\ m # m + 1 /\ (m + 1) - 1 = m
        BY <3>1
      <4>2. h[m] = g[m]
        BY <4>1
      <4> HIDE DEF h
      <4> QED
        BY <3>1, <4>1, <4>2
    <3>2. CASE k # m + 1
      <4>1. k \in 0..m /\ h[k] = g[k]
        BY <3>2
      <4>2. g[k] = e(g, k)
        BY <2>1, <4>1, Zenon
      <4>3. CASE k = 0
        BY <4>1, <4>2, <4>3
      <4>4. CASE k # 0
        <5>1. k - 1 \in 0..(m + 1) /\ k - 1 # m + 1
          BY <4>1, <4>4
        <5>2. h[k - 1] = g[k - 1]
          BY <5>1
        <5> HIDE DEF h
        <5> QED
          BY <4>1, <4>2, <4>4, <5>2
      <4> QED
        BY <4>3, <4>4
    <3> QED
      BY <3>1, <3>2
  <2>3. h = [k \in 0..(m + 1) |-> e(h, k)]
    BY <2>2
  <2>4. m + 1 \in Nat
    OBVIOUS
  <2> HIDE DEF h
  <2> QED
    BY <2>3, <2>4
<1>3. \A m \in Nat : m \in Done
  <2> HIDE DEF Done
  <2> QED
    BY <1>1, <1>2, Induction
<1> QED
  BY <1>3 DEF Taken

\* Two such functions agree where both are defined.
LEMMA SameTurns ==
  ASSUME NEW how, NEW a, NEW n \in Nat, NEW m \in 0..n, NEW g, NEW h,
         Taken(g, how, a, n), Taken(h, how, a, m)
  PROVE  g[m] = h[m]
<1> DEFINE Done == {k \in Nat : k <= m => g[k] = h[k]}
<1>1. /\ \A k \in 0..n : g[k] = IF k = 0 THEN a ELSE Turn(how, g[k - 1], k)
      /\ \A k \in 0..m : h[k] = IF k = 0 THEN a ELSE Turn(how, h[k - 1], k)
  BY Zenon DEF Taken
<1>2. 0 \in Done
  BY <1>1
<1>3. ASSUME NEW k \in Nat, k \in Done PROVE k + 1 \in Done
  <2>1. SUFFICES ASSUME k + 1 <= m PROVE g[k + 1] = h[k + 1]
    OBVIOUS
  <2>2. k + 1 \in 0..n /\ k + 1 \in 0..m /\ k + 1 # 0 /\ (k + 1) - 1 = k
    BY <2>1
  <2>3. g[k] = h[k]
    BY <1>3, <2>1
  <2>4. g[k + 1] = Turn(how, g[k], k + 1) /\ h[k + 1] = Turn(how, h[k], k + 1)
    BY <1>1, <2>2
  <2> QED
    BY <2>3, <2>4
<1>4. \A k \in Nat : k \in Done
  <2> HIDE DEF Done
  <2> QED
    BY <1>2, <1>3, Induction
<1> QED
  BY <1>4

(***************************************************************************)
(* Sizes.                                                                  *)
(***************************************************************************)
Fresh == [state |-> 0, size |-> 0, multiplier |-> 1]
\* The states of humansize_parse, after each symbol of text.
Walk(text) ==
  LET s[k \in 0..Len(text)] == IF k = 0 THEN [state |-> 0, size |-> 0, multiplier |-> 1]
                               ELSE SizeStep(s[k - 1], text[k])
  IN s

LEMMA ParseIs ==
  ASSUME NEW text
  PROVE  LET end == Walk(text)[Len(text)]
         IN humansize_parse(text) =
              IF end.state <= 0 \/ end.size > UINT64_MAX \div end.multiplier THEN -1
              ELSE (end.size * end.multiplier) % (UINT64_MAX + 1)
BY Zenon DEF humansize_parse, Walk

LEMMA WalkTurns ==
  ASSUME NEW text, Len(text) \in Nat
  PROVE  /\ Walk(text)[0] = Fresh
         /\ \A k \in 1..Len(text) : Walk(text)[k] = SizeStep(Walk(text)[k - 1], text[k])
<1> DEFINE how == [kind |-> "size", text |-> text]
           n == Len(text)
<1>1. \A x, k : Turn(how, x, k) = SizeStep(x, text[k])
  BY DEF Turn
<1> HIDE DEF how
<1>2. PICK g : Taken(g, how, Fresh, n)
  BY Recursion
<1>3. g = [k \in 0..n |-> IF k = 0 THEN Fresh ELSE SizeStep(g[k - 1], text[k])]
  BY <1>1, <1>2 DEF Taken
<1>4. Walk(text) = [k \in 0..n |-> IF k = 0 THEN Fresh ELSE SizeStep(Walk(text)[k - 1], text[k])]
  BY <1>3, Zenon DEF Walk, Fresh
<1> HIDE DEF n
<1>5. n \in Nat
  BY DEF n
<1>6. \A k \in 0..n : Walk(text)[k] = IF k = 0 THEN Fresh ELSE SizeStep(Walk(text)[k - 1], text[k])
  BY <1>4, Zenon
<1>7. 0 \in 0..n /\ \A k \in 1..n : k \in 0..n /\ k # 0
  BY <1>5
<1> QED
  BY <1>6, <1>7 DEF n

LEMMA ValueTurns ==
  ASSUME NEW text, NEW n \in Nat
  PROVE  Value(text, 0) = 0 /\ Value(text, n + 1) = 10 * Value(text, n) + Digit[text[n + 1]]
<1> DEFINE how == [kind |-> "value", text |-> text]
           D(m) == CHOOSE v : v = [k \in 0..m |-> IF k = 0 THEN 0 ELSE 10 * v[k - 1] + Digit[text[k]]]
<1>1. \A x, k : Turn(how, x, k) = 10 * x + Digit[text[k]]
  BY DEF Turn
<1> HIDE DEF how
<1>2. ASSUME NEW m \in Nat PROVE Taken(D(m), how, 0, m) /\ Value(text, m) = D(m)[m]
  <2>1. PICK g : Taken(g, how, 0, m)
    BY Recursion
  <2>2. g = [k \in 0..m |-> IF k = 0 THEN 0 ELSE 10 * g[k - 1] + Digit[text[k]]]
    BY <1>1, <2>1 DEF Taken
  <2>3. D(m) = [k \in 0..m |-> IF k = 0 THEN 0 ELSE 10 * D(m)[k - 1] + Digit[text[k]]]
    BY <2>2, Zenon
  <2>4. Value(text, m) = D(m)[m]
    BY Zenon DEF Value
  <2> HIDE DEF D
  <2>5. Taken(D(m), how, 0, m)
    BY <1>1, <2>3 DEF Taken
  <2> QED
    BY <2>4, <2>5
<1> HIDE DEF D
<1>3. n + 1 \in Nat /\ n \in 0..(n + 1) /\ n + 1 \in 0..(n + 1) /\ n + 1 # 0 /\ (n + 1) - 1 = n
  OBVIOUS
<1>4. D(n + 1)[n] = D(n)[n]
  BY <1>2, <1>3, SameTurns
<1>5. D(n + 1)[n + 1] = Turn(how, D(n + 1)[n], n + 1)
  BY <1>2, <1>3, Zenon DEF Taken
<1>6. Value(text, 0) = 0
  <2>1. D(0)[0] = 0
    BY <1>2 DEF Taken
  <2> QED
    BY <1>2, <2>1
<1> QED
  BY <1>1, <1>2, <1>3, <1>4, <1>5, <1>6

-----------------------------------------------------------------------------
Digits(text, n) == \A k \in 1..n : text[k] \in DOMAIN Digit
SizeStates == [state : -1..5, size : 0..UINT64_MAX, multiplier : Nat \ {0}]

LEMMA Numbers ==
  /\ \A x \in DOMAIN Digit : Digit[x] \in 0..9
  /\ \A x \in DOMAIN Prefix : Prefix[x] \in Nat \ {0}
  /\ UINT64_MAX \in Nat /\ SIZE_MAX \in Nat /\ SIZE_MAX <= UINT64_MAX
<1>1. \A x \in DOMAIN Prefix : Prefix[x] \in 2..UINT64_MAX
  BY NumbersAssumption, Zenon
<1>2. \A x \in DOMAIN Prefix : Prefix[x] \in Nat \ {0}
  BY <1>1
<1>3. \A x \in DOMAIN Digit : Digit[x] \in 0..9
  BY NumbersAssumption, Zenon
<1> QED
  BY <1>2, <1>3, WidthsAssumption

\* A digit is taken, or does not fit.
LEMMA DigitStep ==
  ASSUME NEW x \in DOMAIN Digit, NEW c \in SizeStates, c.state \in {0, 1}
  PROVE  /\ 10 * c.size + Digit[x] > UINT64_MAX => SizeStep(c, x) = [c EXCEPT !.state = -1]
         /\ 10 * c.size + Digit[x] <= UINT64_MAX =>
              SizeStep(c, x) = [c EXCEPT !.state = 1, !.size = 10 * c.size + Digit[x]]
<1>1. UINT64_MAX \in Nat /\ Digit[x] \in 0..9 /\ c.size \in Nat
  <2>1. c.size \in 0..UINT64_MAX
    BY DEF SizeStates
  <2> QED
    BY <2>1, Numbers
<1> DEFINE v == c.size
           d == Digit[x]
           q == UINT64_MAX \div 10
<1>2. q \in Nat /\ 10 * q <= UINT64_MAX /\ UINT64_MAX < 10 * (q + 1)
  BY <1>1
<1>3. SizeStep(c, x) = IF Wraps(v, d) THEN [c EXCEPT !.state = -1]
                       ELSE [c EXCEPT !.state = 1, !.size = (10 * v + d) % (UINT64_MAX + 1)]
  <2>1. c.state # -1 /\ c.state <= 1
    OBVIOUS
  <2> QED
    BY <2>1, Zenon DEF SizeStep
<1>4. v \in Nat /\ d \in 0..9
  BY <1>1
<1>5. Wraps(v, d) <=> (v > q \/ 10 * v > UINT64_MAX - d)
  BY DEF Wraps
<1> HIDE DEF v, d, q
<1>6. CASE 10 * v + d > UINT64_MAX
  <2>1. Wraps(v, d)
    BY <1>1, <1>4, <1>5, <1>6
  <2> QED
    BY <1>3, <1>6, <2>1, <1>1, <1>4 DEF v, d
<1>7. CASE 10 * v + d <= UINT64_MAX
  <2>1. ~Wraps(v, d)
    BY <1>1, <1>2, <1>4, <1>5, <1>7
  <2>2. (10 * v + d) % (UINT64_MAX + 1) = 10 * v + d
    BY <1>1, <1>4, <1>7
  <2>3. SizeStep(c, x) = [c EXCEPT !.state = 1, !.size = 10 * v + d]
    BY <1>3, <2>1, <2>2, Zenon
  <2>4. ~(10 * v + d > UINT64_MAX)
    BY <1>1, <1>4, <1>7
  <2> QED
    BY <1>7, <2>3, <2>4, Zenon DEF v, d
<1> QED
  BY <1>1, <1>4, <1>6, <1>7 DEF v, d

\* Every state is one.
LEMMA StepTyped ==
  ASSUME NEW x, NEW c \in SizeStates
  PROVE  SizeStep(c, x) \in SizeStates
<1> DEFINE Typed(st) == st \in SizeStates
<1>1. ASSUME NEW st \in -1..5, NEW z \in 0..UINT64_MAX, NEW m \in Nat \ {0}
      PROVE  /\ [c EXCEPT !.state = st] \in SizeStates
             /\ [c EXCEPT !.state = st, !.size = z] \in SizeStates
             /\ [c EXCEPT !.state = st, !.multiplier = m] \in SizeStates
  BY DEF SizeStates
<1>2. c.state \in -1..5 /\ c.size \in 0..UINT64_MAX /\ c.multiplier \in Nat \ {0}
  BY DEF SizeStates
<1>3. CASE c.state \in {0, 1} /\ x \in DOMAIN Digit
  <2> DEFINE v == 10 * c.size + Digit[x]
  <2>1. v \in Nat
    BY <1>2, <1>3, Numbers
  <2>2. \/ SizeStep(c, x) = [c EXCEPT !.state = -1]
        \/ v <= UINT64_MAX /\ SizeStep(c, x) = [c EXCEPT !.state = 1, !.size = v]
    <3>1. v > UINT64_MAX \/ v <= UINT64_MAX
      BY <2>1, Numbers
    <3> QED
      BY <1>3, <3>1, DigitStep
  <2> HIDE DEF v
  <2>3. v <= UINT64_MAX => v \in 0..UINT64_MAX
    BY <2>1, Numbers
  <2>4. -1 \in -1..5 /\ 1 \in -1..5 /\ c.multiplier \in Nat \ {0}
    BY <1>2
  <2> QED
    BY <1>1, <1>2, <2>2, <2>3, <2>4
<1>4. CASE ~(c.state \in {0, 1} /\ x \in DOMAIN Digit)
  <2>1. \/ SizeStep(c, x) = c
        \/ \E st \in {-1, 3, 5} : SizeStep(c, x) = [c EXCEPT !.state = st]
        \/ x \in DOMAIN Prefix /\ SizeStep(c, x) = [c EXCEPT !.state = 4, !.multiplier = Prefix[x]]
    <3>1. ~(c.state <= 1 /\ x \in DOMAIN Digit /\ c.state # -1)
      BY <1>2, <1>4
    <3> QED
      BY <3>1, Zenon DEF SizeStep
  <2>2. {-1, 3, 4, 5} \subseteq -1..5
    OBVIOUS
  <2>3. CASE \E st \in {-1, 3, 5} : SizeStep(c, x) = [c EXCEPT !.state = st]
    BY <1>1, <1>2, <2>2, <2>3
  <2>4. CASE x \in DOMAIN Prefix /\ SizeStep(c, x) = [c EXCEPT !.state = 4, !.multiplier = Prefix[x]]
    <3>1. Prefix[x] \in Nat \ {0} /\ 4 \in -1..5
      BY <2>4, Numbers
    <3>2. [c EXCEPT !.state = 4, !.multiplier = Prefix[x]] \in SizeStates
      BY <1>1, <1>2, <3>1, Zenon
    <3> QED
      BY <2>4, <3>2
  <2> QED
    BY <2>1, <2>3, <2>4
<1> QED
  BY <1>3, <1>4

LEMMA WalkTyped ==
  ASSUME NEW text, Len(text) \in Nat
  PROVE  \A k \in 0..Len(text) : Walk(text)[k] \in SizeStates
<1> DEFINE n == Len(text)
           s == Walk(text)
           Done == {k \in Nat : k <= n => s[k] \in SizeStates}
<1>1. n \in Nat /\ s[0] = Fresh /\ \A k \in 1..n : s[k] = SizeStep(s[k - 1], text[k])
  BY WalkTurns
<1> HIDE DEF n, s
<1>2. Fresh \in SizeStates
  BY WidthsAssumption DEF Fresh, SizeStates
<1>3. 0 \in Done
  BY <1>1, <1>2
<1>4. ASSUME NEW k \in Nat, k \in Done PROVE k + 1 \in Done
  <2>1. SUFFICES ASSUME k + 1 <= n PROVE s[k + 1] \in SizeStates
    OBVIOUS
  <2>2. s[k] \in SizeStates /\ k + 1 \in 1..n /\ (k + 1) - 1 = k
    BY <1>1, <1>4, <2>1
  <2>3. s[k + 1] = SizeStep(s[k], text[k + 1])
    BY <1>1, <2>2
  <2> QED
    BY <2>2, <2>3, StepTyped
<1>5. \A k \in Nat : k \in Done
  <2> HIDE DEF Done
  <2> QED
    BY <1>3, <1>4, Induction
<1> QED
  BY <1>1, <1>5 DEF n, s

\* What is refused stays so.
LEMMA StaysRefused ==
  ASSUME NEW text, Len(text) \in Nat, NEW n \in 0..Len(text), Walk(text)[n].state = -1
  PROVE  \A k \in n..Len(text) : Walk(text)[k].state = -1
<1> DEFINE last == Len(text)
           s == Walk(text)
           Done == {j \in Nat : n + j <= last => s[n + j].state = -1}
<1>1. last \in Nat /\ (\A k \in 1..last : s[k] = SizeStep(s[k - 1], text[k])) /\ s[n].state = -1
      /\ n \in 0..last
  BY WalkTurns
<1> HIDE DEF last, s
<1>2. 0 \in Done
  BY <1>1
<1>3. ASSUME NEW j \in Nat, j \in Done PROVE j + 1 \in Done
  <2>1. SUFFICES ASSUME n + (j + 1) <= last PROVE s[n + (j + 1)].state = -1
    OBVIOUS
  <2>2. n + (j + 1) \in 1..last /\ (n + (j + 1)) - 1 = n + j /\ n + j <= last
    BY <1>1, <2>1
  <2>3. s[n + (j + 1)] = SizeStep(s[n + j], text[n + (j + 1)]) /\ s[n + j].state = -1
    BY <1>1, <1>3, <2>2
  <2> QED
    BY <2>3 DEF SizeStep
<1>4. \A j \in Nat : j \in Done
  <2> HIDE DEF Done
  <2> QED
    BY <1>2, <1>3, Induction
<1>5. ASSUME NEW k \in n..last PROVE s[k].state = -1
  <2>1. k - n \in Nat /\ n + (k - n) = k /\ k <= last
    BY <1>1
  <2> QED
    BY <1>4, <2>1
<1> QED
  BY <1>5 DEF last, s

\* After k digits: their value, unless it does not fit.
DigitAt(text, k) ==
  /\ Value(text, k) \in Nat
  /\ Walk(text)[k].state \in {-1, 0, 1}
  /\ Walk(text)[k].state = -1 <=> Value(text, k) > UINT64_MAX
  /\ Walk(text)[k].state # -1 =>
       /\ Walk(text)[k].state = IF k = 0 THEN 0 ELSE 1
       /\ Walk(text)[k].size = Value(text, k) /\ Walk(text)[k].multiplier = 1

LEMMA DigitsWalk ==
  ASSUME NEW text, Len(text) \in Nat, NEW n \in 0..Len(text), Digits(text, n)
  PROVE  DigitAt(text, n)
<1> DEFINE last == Len(text)
           s == Walk(text)
           v(k) == Value(text, k)
           Done == {k \in Nat : k <= n => DigitAt(text, k)}
<1>1. /\ s[0] = Fresh /\ (\A k \in 1..last : s[k] = SizeStep(s[k - 1], text[k]))
      /\ v(0) = 0 /\ \A k \in Nat : v(k + 1) = 10 * v(k) + Digit[text[k + 1]]
  BY WalkTurns, ValueTurns
<1>2. \A k \in 0..last : s[k] \in SizeStates
  BY WalkTyped
<1>3. n \in Nat /\ n <= last /\ last \in Nat
  OBVIOUS
<1>4. \A k : DigitAt(text, k) <=>
        /\ v(k) \in Nat /\ s[k].state \in {-1, 0, 1}
        /\ s[k].state = -1 <=> v(k) > UINT64_MAX
        /\ s[k].state # -1 => /\ s[k].state = IF k = 0 THEN 0 ELSE 1
                              /\ s[k].size = v(k) /\ s[k].multiplier = 1
  BY Zenon DEF DigitAt
<1> HIDE DEF s, v, last
<1>5. 0 \in Done
  <2>1. s[0].state = 0 /\ s[0].size = 0 /\ s[0].multiplier = 1
    BY <1>1 DEF Fresh
  <2>2. v(0) \in Nat /\ ~(v(0) > UINT64_MAX) /\ s[0].state \in {-1, 0, 1} /\ s[0].state # -1
    <3>1. v(0) = 0 /\ UINT64_MAX \in Nat
      BY <1>1, Numbers
    <3>2. v(0) \in Nat /\ ~(v(0) > UINT64_MAX)
      BY <3>1
    <3> QED
      BY <2>1, <3>2
  <2>3. DigitAt(text, 0)
    BY <1>1, <1>4, <2>1, <2>2, Zenon
  <2> QED
    BY <2>3
<1>6. ASSUME NEW k \in Nat, k \in Done PROVE k + 1 \in Done
  <2>1. SUFFICES ASSUME k + 1 <= n PROVE DigitAt(text, k + 1)
    OBVIOUS
  <2>2. /\ k + 1 \in 1..last /\ k + 1 \in 1..n /\ k \in 0..last /\ (k + 1) - 1 = k /\ k + 1 # 0
        /\ k <= n
    BY <1>3, <2>1
  <2> DEFINE c == s[k]
             x == text[k + 1]
  <2>3. DigitAt(text, k)
    BY <1>6, <2>2
  <2>4. x \in DOMAIN Digit /\ Digit[x] \in 0..9
    BY <2>2, Numbers DEF Digits
  <2>5. c \in SizeStates /\ s[k + 1] = SizeStep(c, x) /\ v(k + 1) = 10 * v(k) + Digit[x]
    BY <1>1, <1>2, <2>2
  <2>6. /\ v(k) \in Nat /\ c.state \in {-1, 0, 1}
        /\ c.state = -1 <=> v(k) > UINT64_MAX
        /\ c.state # -1 => c.size = v(k) /\ c.multiplier = 1
    BY <1>4, <2>3
  <2> HIDE DEF c, x
  <2>7. v(k + 1) \in Nat /\ v(k + 1) >= v(k)
    BY <2>4, <2>5, <2>6, SMTT(30)
  <2>8. CASE c.state = -1
    <3>1. s[k + 1].state = -1
      BY <2>5, <2>8 DEF SizeStep
    <3>2. v(k + 1) > UINT64_MAX
      BY <2>6, <2>7, <2>8, Numbers
    <3> QED
      BY <1>4, <2>7, <3>1, <3>2
  <2>9. CASE c.state # -1 /\ v(k + 1) > UINT64_MAX
    <3>1. s[k + 1] = [c EXCEPT !.state = -1]
      <4>1. c.state \in {0, 1} /\ 10 * c.size + Digit[x] > UINT64_MAX
        BY <2>5, <2>6, <2>9
      <4> QED
        BY <2>4, <2>5, <4>1, DigitStep
    <3>2. s[k + 1].state = -1
      BY <2>5, <3>1 DEF SizeStates
    <3> QED
      BY <1>4, <2>7, <2>9, <3>2
  <2>10. CASE c.state # -1 /\ ~(v(k + 1) > UINT64_MAX)
    <3>1. 10 * c.size + Digit[x] = v(k + 1) /\ v(k + 1) <= UINT64_MAX
      BY <2>5, <2>6, <2>7, <2>10, Numbers
    <3>2. s[k + 1] = [c EXCEPT !.state = 1, !.size = v(k + 1)]
      <4>1. c.state \in {0, 1} /\ 10 * c.size + Digit[x] <= UINT64_MAX
        BY <2>6, <2>10, <3>1
      <4>2. SizeStep(c, x) = [c EXCEPT !.state = 1, !.size = 10 * c.size + Digit[x]]
        BY <2>4, <2>5, <4>1, DigitStep
      <4> QED
        BY <2>5, <3>1, <4>2, Zenon
    <3>3. s[k + 1].state = 1 /\ s[k + 1].size = v(k + 1) /\ s[k + 1].multiplier = 1
      BY <2>5, <2>6, <2>10, <3>2 DEF SizeStates
    <3> QED
      BY <1>4, <2>2, <2>7, <2>10, <3>3
  <2> QED
    BY <2>8, <2>9, <2>10
<1>7. \A k \in Nat : k \in Done
  <2> HIDE DEF Done
  <2> QED
    BY <1>5, <1>6, Induction
<1> QED
  BY <1>3, <1>7

-----------------------------------------------------------------------------
(* The form of a size.                                                      *)
\* The provers do not read this symbol.
Blank == " "
Letter(text, k) == text[k] \in DOMAIN Prefix
Blanked(text, k) == text[k] = Blank
Unit(text, k) == text[k] = "B"
\* Behind its n digits a text of n + m symbols has a blank, a prefix and a B,
\* each of them or not.
Ended(text, n, m) ==
  \/ m = 0
  \/ m = 1 /\ (Blanked(text, n + 1) \/ Unit(text, n + 1) \/ Letter(text, n + 1))
  \/ m = 2 /\ Letter(text, n + 1) /\ Unit(text, n + 2)
  \/ m = 2 /\ Blanked(text, n + 1) /\ (Unit(text, n + 2) \/ Letter(text, n + 2))
  \/ m = 3 /\ Blanked(text, n + 1) /\ Letter(text, n + 2) /\ Unit(text, n + 3)
Sized(text, n, k) == n \in 1..k /\ Digits(text, n) /\ Ended(text, n, k - n)

\* What humansize_parse has seen, in each of its states.
Shape(text, k, state) ==
  /\ state = 0 => k = 0
  /\ state = 1 => k >= 1 /\ Digits(text, k)
  /\ state # 2
  /\ state = 3 => k >= 2 /\ Digits(text, k - 1) /\ Blanked(text, k)
  /\ state = 4 => /\ Letter(text, k)
                  /\ \/ k >= 2 /\ Digits(text, k - 1)
                     \/ k >= 3 /\ Digits(text, k - 2) /\ Blanked(text, k - 1)
  /\ state = 5 => /\ Unit(text, k)
                  /\ \/ k >= 2 /\ Digits(text, k - 1)
                     \/ k >= 3 /\ Digits(text, k - 2) /\ (Blanked(text, k - 1) \/ Letter(text, k - 1))
                     \/ /\ k >= 4 /\ Digits(text, k - 3)
                        /\ Blanked(text, k - 2) /\ Letter(text, k - 1)

\* One more symbol.
LEMMA StepState ==
  ASSUME NEW x, NEW c \in SizeStates
  PROVE  LET new == SizeStep(c, x).state
         IN \/ new = -1
            \/ c.state \in {0, 1} /\ x \in DOMAIN Digit /\ new = 1
            \/ c.state \in {1, 2} /\ x = Blank /\ new = 3
            \/ c.state \in {1, 2, 3} /\ x \in DOMAIN Prefix /\ new = 4
            \/ c.state \in {1, 2, 3, 4} /\ x = "B" /\ new = 5
<1> DEFINE d == SizeStep(c, x)
<1>1. c.state \in -1..5
  BY DEF SizeStates
<1>2. \/ d = c /\ c.state = -1
      \/ d = [c EXCEPT !.state = -1]
      \/ /\ c.state # -1 /\ c.state <= 1 /\ x \in DOMAIN Digit
         /\ d = [c EXCEPT !.state = 1, !.size = (10 * c.size + Digit[x]) % (UINT64_MAX + 1)]
      \/ c.state # -1 /\ c.state # 0 /\ c.state <= 2 /\ x = Blank /\ d = [c EXCEPT !.state = 3]
      \/ /\ c.state # -1 /\ c.state # 0 /\ c.state <= 3 /\ x \in DOMAIN Prefix
         /\ d = [c EXCEPT !.state = 4, !.multiplier = Prefix[x]]
      \/ c.state # -1 /\ c.state # 0 /\ c.state <= 4 /\ x = "B" /\ d = [c EXCEPT !.state = 5]
  BY Zenon DEF SizeStep, Blank
<1> HIDE DEF d
<1>3. \A st, z, m : /\ [c EXCEPT !.state = st].state = st
                   /\ [c EXCEPT !.state = st, !.size = z].state = st
                   /\ [c EXCEPT !.state = st, !.multiplier = m].state = st
  BY DEF SizeStates
<1>4. \/ d.state = -1
      \/ c.state # -1 /\ c.state <= 1 /\ x \in DOMAIN Digit /\ d.state = 1
      \/ c.state # -1 /\ c.state # 0 /\ c.state <= 2 /\ x = Blank /\ d.state = 3
      \/ c.state # -1 /\ c.state # 0 /\ c.state <= 3 /\ x \in DOMAIN Prefix /\ d.state = 4
      \/ c.state # -1 /\ c.state # 0 /\ c.state <= 4 /\ x = "B" /\ d.state = 5
  <2>1. CASE d = c /\ c.state = -1
    BY <2>1
  <2>2. CASE d = [c EXCEPT !.state = -1]
    BY <1>3, <2>2, Zenon
  <2>3. CASE /\ c.state # -1 /\ c.state <= 1 /\ x \in DOMAIN Digit
             /\ d = [c EXCEPT !.state = 1, !.size = (10 * c.size + Digit[x]) % (UINT64_MAX + 1)]
    BY <1>3, <2>3, Zenon
  <2>4. CASE c.state # -1 /\ c.state # 0 /\ c.state <= 2 /\ x = Blank /\ d = [c EXCEPT !.state = 3]
    BY <1>3, <2>4, Zenon
  <2>5. CASE /\ c.state # -1 /\ c.state # 0 /\ c.state <= 3 /\ x \in DOMAIN Prefix
             /\ d = [c EXCEPT !.state = 4, !.multiplier = Prefix[x]]
    BY <1>3, <2>5, Zenon
  <2>6. CASE c.state # -1 /\ c.state # 0 /\ c.state <= 4 /\ x = "B" /\ d = [c EXCEPT !.state = 5]
    BY <1>3, <2>6, Zenon
  <2> QED
    BY <1>2, <2>1, <2>2, <2>3, <2>4, <2>5, <2>6, Zenon
<1> DEFINE st == c.state
<1>6. /\ st # -1 /\ st <= 1 => st \in {0, 1}
      /\ st # -1 /\ st # 0 /\ st <= 2 => st \in {1, 2}
      /\ st # -1 /\ st # 0 /\ st <= 3 => st \in {1, 2, 3}
      /\ st # -1 /\ st # 0 /\ st <= 4 => st \in {1, 2, 3, 4}
  BY <1>1
<1> QED
  BY <1>4, <1>6, Zenon DEF d

LEMMA WalkShape ==
  ASSUME NEW text, Len(text) \in Nat
  PROVE  \A k \in 0..Len(text) : Shape(text, k, Walk(text)[k].state)
<1> DEFINE last == Len(text)
           s == Walk(text)
           Done == {k \in Nat : k <= last => Shape(text, k, s[k].state)}
<1>1. s[0] = Fresh /\ \A k \in 1..last : s[k] = SizeStep(s[k - 1], text[k])
  BY WalkTurns
<1>2. \A k \in 0..last : s[k] \in SizeStates
  BY WalkTyped
<1>3. last \in Nat
  OBVIOUS
<1> HIDE DEF last, s
<1>4. 0 \in Done
  <2>1. s[0].state = 0
    BY <1>1 DEF Fresh
  <2> QED
    BY <2>1 DEF Shape
<1>5. ASSUME NEW k \in Nat, k \in Done PROVE k + 1 \in Done
  <2> DEFINE st == s[k].state
             x == text[k + 1]
             new == s[k + 1].state
  <2>1. SUFFICES ASSUME k + 1 <= last PROVE Shape(text, k + 1, new)
    OBVIOUS
  <2>2. k + 1 \in 1..last /\ k \in 0..last /\ (k + 1) - 1 = k /\ k <= last
    BY <1>3, <2>1
  <2>3. Shape(text, k, st)
    BY <1>5, <2>2
  <2>4. s[k] \in SizeStates /\ s[k + 1] \in SizeStates /\ s[k + 1] = SizeStep(s[k], x)
    BY <1>1, <1>2, <2>2
  <2>5. st \in -1..5 /\ new \in -1..5
    BY <2>4 DEF SizeStates
  <2>6. \/ new = -1
        \/ st \in {0, 1} /\ x \in DOMAIN Digit /\ new = 1
        \/ st \in {1, 2} /\ x = Blank /\ new = 3
        \/ st \in {1, 2, 3} /\ x \in DOMAIN Prefix /\ new = 4
        \/ st \in {1, 2, 3, 4} /\ x = "B" /\ new = 5
    BY <2>4, StepState
  <2> HIDE DEF st, new
  <2>14. (x = Blank => Blanked(text, k + 1)) /\ (x = "B" => Unit(text, k + 1))
    BY DEF Blanked, Unit
  <2> HIDE DEF x
  <2>7. st = 1 => Digits(text, k) /\ k >= 1
    BY <2>3 DEF Shape
  <2>8. (k + 1) - 1 = k /\ (k + 1) - 2 = k - 1 /\ (k + 1) - 3 = k - 2 /\ k + 1 # 0
    OBVIOUS
  <2>9. CASE new = -1
    BY <2>9 DEF Shape
  <2>10. CASE st \in {0, 1} /\ x \in DOMAIN Digit /\ new = 1
    <3>1. Digits(text, k + 1)
      <4>1. CASE st = 0
        BY <2>3, <2>10, <4>1 DEF Shape, Digits, x
      <4>2. CASE st = 1
        BY <2>7, <2>10, <4>2 DEF Digits, x
      <4> QED
        BY <2>10, <4>1, <4>2
    <3> QED
      BY <2>10, <3>1 DEF Shape
  <2>11. CASE st \in {1, 2} /\ x = Blank /\ new = 3
    <3>1. st = 1
      BY <2>3, <2>11 DEF Shape
    <3>2. k + 1 >= 2 /\ Digits(text, k) /\ Blanked(text, k + 1)
      BY <2>7, <2>11, <2>14, <3>1
    <3> QED
      BY <2>8, <2>11, <3>2 DEF Shape
  <2>12. CASE st \in {1, 2, 3} /\ x \in DOMAIN Prefix /\ new = 4
    <3>1. Letter(text, k + 1)
      BY <2>12 DEF Letter, x
    <3>2. CASE st = 1
      BY <2>7, <2>8, <2>12, <3>1, <3>2 DEF Shape
    <3>3. CASE st = 3
      <4>1. k >= 2 /\ Digits(text, k - 1) /\ Blanked(text, k)
        BY <2>3, <3>3 DEF Shape
      <4> QED
        BY <2>8, <2>12, <3>1, <4>1 DEF Shape
    <3> QED
      BY <2>3, <2>12, <3>2, <3>3 DEF Shape
  <2>13. CASE st \in {1, 2, 3, 4} /\ x = "B" /\ new = 5
    <3>1. CASE st = 1
      BY <2>7, <2>8, <2>13, <2>14, <3>1 DEF Shape
    <3>2. CASE st = 3
      <4>1. k >= 2 /\ Digits(text, k - 1) /\ Blanked(text, k)
        BY <2>3, <3>2 DEF Shape
      <4> QED
        BY <2>8, <2>13, <2>14, <4>1 DEF Shape
    <3>3. CASE st = 4
      <4>1. /\ Letter(text, k)
            /\ \/ k >= 2 /\ Digits(text, k - 1)
               \/ k >= 3 /\ Digits(text, k - 2) /\ Blanked(text, k - 1)
        BY <2>3, <3>3 DEF Shape
      <4> QED
        BY <2>8, <2>13, <2>14, <4>1 DEF Shape
    <3> QED
      BY <2>3, <2>13, <3>1, <3>2, <3>3 DEF Shape
  <2> QED
    BY <2>6, <2>9, <2>10, <2>11, <2>12, <2>13
<1>6. \A k \in Nat : k \in Done
  <2> HIDE DEF Done
  <2> QED
    BY <1>4, <1>5, Induction
<1> QED
  BY <1>3, <1>6 DEF last, s

\* A text that is not refused is a size.
LEMMA AcceptedIsSized ==
  ASSUME NEW text, Len(text) \in Nat, Walk(text)[Len(text)].state > 0
  PROVE  \E n \in 1..Len(text) : Sized(text, n, Len(text))
<1> DEFINE k == Len(text)
           st == Walk(text)[k].state
<1>1. Shape(text, k, st) /\ k \in Nat /\ st > 0
  BY WalkShape
<1>2. st \in 1..5
  <2>1. Walk(text)[k] \in SizeStates
    BY WalkTyped
  <2>2. st \in -1..5
    BY <2>1 DEF SizeStates
  <2> QED
    BY <1>1, <2>2
<1> HIDE DEF k, st
<1>3. SUFFICES \E n \in 1..k : Sized(text, n, k)
  BY DEF k
<1>4. ASSUME NEW n \in Nat, NEW m \in 0..3, n >= 1, n + m = k, Digits(text, n), Ended(text, n, m)
      PROVE  \E q \in 1..k : Sized(text, q, k)
  <2>1. n \in 1..k /\ k - n = m
    BY <1>1, <1>4
  <2> QED
    BY <1>4, <2>1 DEF Sized
<1>5. CASE st = 1
  <2>1. k >= 1 /\ Digits(text, k)
    BY <1>1, <1>5 DEF Shape
  <2>2. Ended(text, k, 0) /\ k + 0 = k
    BY <1>1 DEF Ended
  <2> QED
    BY <1>1, <1>4, <2>1, <2>2
<1>6. CASE st = 3
  <2>1. k >= 2 /\ Digits(text, k - 1) /\ Blanked(text, k)
    BY <1>1, <1>6 DEF Shape
  <2>2. k - 1 \in Nat /\ (k - 1) + 1 = k /\ k - 1 >= 1
    BY <1>1, <2>1
  <2>3. Ended(text, k - 1, 1)
    BY <2>1, <2>2 DEF Ended
  <2> QED
    BY <1>4, <2>1, <2>2, <2>3
<1>7. CASE st = 4
  <2>1. /\ Letter(text, k)
        /\ \/ k >= 2 /\ Digits(text, k - 1)
           \/ k >= 3 /\ Digits(text, k - 2) /\ Blanked(text, k - 1)
    BY <1>1, <1>7 DEF Shape
  <2>2. CASE k >= 2 /\ Digits(text, k - 1)
    <3>1. k - 1 \in Nat /\ (k - 1) + 1 = k /\ k - 1 >= 1
      BY <1>1, <2>2
    <3>2. Ended(text, k - 1, 1)
      BY <2>1, <3>1 DEF Ended
    <3> QED
      BY <1>4, <2>2, <3>1, <3>2
  <2>3. CASE k >= 3 /\ Digits(text, k - 2) /\ Blanked(text, k - 1)
    <3>1. k - 2 \in Nat /\ (k - 2) + 2 = k /\ k - 2 >= 1 /\ (k - 2) + 1 = k - 1
      BY <1>1, <2>3
    <3>2. Ended(text, k - 2, 2)
      BY <2>1, <2>3, <3>1 DEF Ended
    <3> QED
      BY <1>4, <2>3, <3>1, <3>2
  <2> QED
    BY <2>1, <2>2, <2>3
<1>8. CASE st = 5
  <2>1. /\ Unit(text, k)
        /\ \/ k >= 2 /\ Digits(text, k - 1)
           \/ k >= 3 /\ Digits(text, k - 2) /\ (Blanked(text, k - 1) \/ Letter(text, k - 1))
           \/ k >= 4 /\ Digits(text, k - 3) /\ Blanked(text, k - 2) /\ Letter(text, k - 1)
    BY <1>1, <1>8 DEF Shape
  <2>2. CASE k >= 2 /\ Digits(text, k - 1)
    <3>1. k - 1 \in Nat /\ (k - 1) + 1 = k /\ k - 1 >= 1
      BY <1>1, <2>2
    <3>2. Ended(text, k - 1, 1)
      BY <2>1, <3>1 DEF Ended
    <3> QED
      BY <1>4, <2>2, <3>1, <3>2
  <2>3. CASE k >= 3 /\ Digits(text, k - 2) /\ (Blanked(text, k - 1) \/ Letter(text, k - 1))
    <3>1. k - 2 \in Nat /\ (k - 2) + 2 = k /\ k - 2 >= 1 /\ (k - 2) + 1 = k - 1
      BY <1>1, <2>3
    <3>2. Ended(text, k - 2, 2)
      BY <2>1, <2>3, <3>1 DEF Ended
    <3> QED
      BY <1>4, <2>3, <3>1, <3>2
  <2>4. CASE k >= 4 /\ Digits(text, k - 3) /\ Blanked(text, k - 2) /\ Letter(text, k - 1)
    <3>1. /\ k - 3 \in Nat /\ (k - 3) + 3 = k /\ k - 3 >= 1 /\ (k - 3) + 1 = k - 2
          /\ (k - 3) + 2 = k - 1
      BY <1>1, <2>4
    <3>2. Ended(text, k - 3, 3)
      BY <2>1, <2>4, <3>1 DEF Ended
    <3> QED
      BY <1>4, <2>4, <3>1, <3>2
  <2> QED
    BY <2>1, <2>2, <2>3, <2>4
<1> QED
  BY <1>1, <1>2, <1>5, <1>6, <1>7, <1>8 DEF Shape

TailIs(text, n, u) == Len(u) = Len(text) - n /\ \A j \in 1..Len(u) : text[n + j] = u[j]
LEMMA FromIs ==
  ASSUME NEW X, NEW Y, NEW text \in Seq(Y), NEW n \in 0..Len(text), NEW u \in Seq(X)
  PROVE  From(text, n + 1) = u <=> TailIs(text, n, u)
<1> DEFINE f == SubSeq(text, n + 1, Len(text))
<1>1. f \in Seq(Y) /\ Len(f) = Len(text) - n /\ Len(f) \in Nat /\ Len(u) \in Nat
  OBVIOUS
<1>2. \A j \in 1..Len(f) : f[j] = text[n + j]
  OBVIOUS
<1>3. From(text, n + 1) = f
  BY Zenon DEF From
<1> HIDE DEF f
<1>4. f \in Seq(X \cup Y) /\ u \in Seq(X \cup Y)
  <2>1. X \subseteq X \cup Y /\ Y \subseteq X \cup Y
    OBVIOUS
  <2> QED
    BY <1>1, <2>1, SeqMonotonic, Zenon
<1>5. f = u <=> Len(f) = Len(u) /\ \A j \in 1..Len(f) : f[j] = u[j]
  BY <1>4, SeqEqual
<1> QED
  BY <1>1, <1>2, <1>3, <1>5 DEF TailIs

EndSymbols == DOMAIN Prefix \cup {"B", Blank}

\* The form of an ending, and of one behind a blank.
LEMMA EndingForm ==
  ASSUME NEW e \in Endings, NEW u, u = <<Blank>> \o e
  PROVE  /\ e \in Seq(EndSymbols) /\ u \in Seq(EndSymbols) /\ Len(u) = Len(e) + 1
         /\ Ended(e, 0, Len(e)) /\ Ended(u, 0, Len(u))
<1>1. \/ e = <<>> \/ e = <<"B">>
      \/ \E x \in DOMAIN Prefix : e = <<x>> \/ e = <<x, "B">>
  BY Zenon DEF Endings
<1>2. Blank \in EndSymbols /\ "B" \in EndSymbols /\ DOMAIN Prefix \subseteq EndSymbols
  BY DEF EndSymbols
<1>3. e \in Seq(EndSymbols) /\ Ended(e, 0, Len(e))
  <2>1. CASE e = <<>>
    BY <2>1 DEF Ended
  <2>2. CASE e = <<"B">>
    BY <1>2, <2>2 DEF Ended, Unit
  <2>3. CASE \E x \in DOMAIN Prefix : e = <<x>>
    BY <1>2, <2>3 DEF Ended, Letter
  <2>4. CASE \E x \in DOMAIN Prefix : e = <<x, "B">>
    BY <1>2, <2>4 DEF Ended, Letter, Unit
  <2> QED
    BY <1>1, <2>1, <2>2, <2>3, <2>4
<1>4. <<Blank>> \in Seq(EndSymbols) /\ Len(<<Blank>>) = 1
  BY <1>2
<1>5. /\ u \in Seq(EndSymbols) /\ Len(u) = 1 + Len(e) /\ Len(e) \in Nat
      /\ \A j \in 1..1 + Len(e) : u[j] = IF j <= 1 THEN <<Blank>>[j] ELSE e[j - 1]
  BY <1>3, <1>4, ConcatProperties
<1>6. u[1] = Blank /\ \A j \in 1..Len(e) : u[j + 1] = e[j]
  <2>1. u[1] = Blank
    BY <1>5
  <2>2. ASSUME NEW j \in 1..Len(e) PROVE u[j + 1] = e[j]
    <3>1. j + 1 \in 1..1 + Len(e) /\ ~(j + 1 <= 1) /\ (j + 1) - 1 = j
      BY <1>5
    <3> QED
      BY <1>5, <3>1
  <2> QED
    BY <2>1, <2>2
<1>7. Blanked(u, 1)
  BY <1>6 DEF Blanked
<1>8. Ended(u, 0, Len(u))
  <2>1. CASE e = <<>>
    BY <1>5, <1>7, <2>1 DEF Ended
  <2>2. CASE e = <<"B">>
    <3>1. Len(u) = 2 /\ Unit(u, 2)
      BY <1>5, <1>6, <2>2 DEF Unit
    <3> QED
      BY <1>7, <3>1 DEF Ended
  <2>3. CASE \E x \in DOMAIN Prefix : e = <<x>>
    <3>1. Len(u) = 2 /\ Letter(u, 2)
      BY <1>5, <1>6, <2>3 DEF Letter
    <3> QED
      BY <1>7, <3>1 DEF Ended
  <2>4. CASE \E x \in DOMAIN Prefix : e = <<x, "B">>
    <3>1. Len(u) = 3 /\ Letter(u, 2) /\ Unit(u, 3)
      BY <1>5, <1>6, <2>4 DEF Letter, Unit
    <3> QED
      BY <1>7, <3>1 DEF Ended
  <2> QED
    BY <1>1, <2>1, <2>2, <2>3, <2>4
<1> QED
  BY <1>3, <1>5, <1>8

\* An ending in a text.
LEMMA EndedMoves ==
  ASSUME NEW text, NEW u, NEW n \in Nat, NEW m \in Nat, \A j \in 1..m : text[n + j] = u[j],
         Ended(u, 0, m)
  PROVE  Ended(text, n, m)
<1>1. m \in 0..3
  BY DEF Ended
<1>2. /\ m >= 1 => text[n + 1] = u[1]
      /\ m >= 2 => text[n + 2] = u[2]
      /\ m >= 3 => text[n + 3] = u[3]
  BY <1>1
<1>3. 0 + 1 = 1 /\ 0 + 2 = 2 /\ 0 + 3 = 3
  OBVIOUS
<1> QED
  BY <1>1, <1>2, <1>3 DEF Ended, Letter, Blanked, Unit

LEMMA SizeShape ==
  ASSUME NEW Y, NEW text \in Seq(Y), NEW n \in 1..Len(text)
  PROVE  IsSize(text, n) <=> Sized(text, n, Len(text))
<1> DEFINE f == From(text, n + 1)
           m == Len(text) - n
<1>1. IsSize(text, n) <=> Digits(text, n) /\ \E e \in Endings : f = e \/ f = <<Blank>> \o e
  BY Zenon DEF IsSize, Digits, Blank
<1>2. Sized(text, n, Len(text)) <=> Digits(text, n) /\ Ended(text, n, m)
  BY DEF Sized
<1>3. m \in Nat /\ n \in Nat /\ Len(text) \in Nat /\ n \in 0..Len(text)
  OBVIOUS
<1>4. ASSUME NEW u \in Seq(EndSymbols)
      PROVE  f = u <=> Len(u) = m /\ \A j \in 1..Len(u) : text[n + j] = u[j]
  <2>1. From(text, n + 1) = u <=> TailIs(text, n, u)
    BY <1>3, FromIs
  <2> QED
    BY <2>1, Zenon DEF TailIs
<1> HIDE DEF f, m
<1>5. ASSUME NEW e \in Endings, f = e \/ f = <<Blank>> \o e PROVE Ended(text, n, m)
  <2>1. CASE f = e
    <3>1. e \in Seq(EndSymbols) /\ Ended(e, 0, Len(e))
      BY EndingForm
    <3>2. Len(e) = m /\ \A j \in 1..m : text[n + j] = e[j]
      BY <1>4, <2>1, <3>1
    <3> QED
      BY <1>3, <3>1, <3>2, EndedMoves
  <2>2. CASE f = <<Blank>> \o e
    <3> DEFINE u == <<Blank>> \o e
    <3>1. u \in Seq(EndSymbols) /\ Ended(u, 0, Len(u))
      BY EndingForm
    <3> HIDE DEF u
    <3>2. f = u
      BY <2>2 DEF u
    <3>3. Len(u) = m /\ \A j \in 1..m : text[n + j] = u[j]
      BY <1>4, <3>1, <3>2
    <3> QED
      BY <1>3, <3>1, <3>3, EndedMoves
  <2> QED
    BY <1>5, <2>1, <2>2
<1>6. ASSUME Ended(text, n, m) PROVE \E e \in Endings : f = e \/ f = <<Blank>> \o e
  <2>1. ASSUME NEW e \in Endings, Len(e) = m, \A j \in 1..m : text[n + j] = e[j]
        PROVE  \E w \in Endings : f = w \/ f = <<Blank>> \o w
    <3>1. e \in Seq(EndSymbols)
      BY EndingForm
    <3> QED
      BY <1>4, <2>1, <3>1
  <2>2. ASSUME NEW e \in Endings, Len(e) + 1 = m, Blanked(text, n + 1),
               \A j \in 1..Len(e) : text[n + (j + 1)] = e[j]
        PROVE  \E w \in Endings : f = w \/ f = <<Blank>> \o w
    <3> DEFINE u == <<Blank>> \o e
    <3>1. u \in Seq(EndSymbols) /\ Len(u) = m /\ e \in Seq(EndSymbols)
      BY <2>2, EndingForm
    <3>2. ASSUME NEW j \in 1..m PROVE text[n + j] = u[j]
      <4>1. <<Blank>> \in Seq(EndSymbols) /\ Len(<<Blank>>) = 1 /\ <<Blank>>[1] = Blank
        BY DEF EndSymbols
      <4>2. Len(e) \in Nat /\ j \in 1..1 + Len(e)
        BY <2>2, <3>1
      <4>3. u[j] = IF j <= 1 THEN <<Blank>>[j] ELSE e[j - 1]
        BY <3>1, <4>1, <4>2, ConcatProperties
      <4> HIDE DEF u
      <4>4. CASE j = 1
        <5>1. u[j] = Blank
          BY <4>1, <4>3, <4>4
        <5> QED
          BY <2>2, <4>4, <5>1 DEF Blanked
      <4>5. CASE j # 1
        <5>1. j - 1 \in 1..Len(e) /\ (j - 1) + 1 = j /\ ~(j <= 1)
          BY <4>2, <4>5
        <5>2. text[n + ((j - 1) + 1)] = e[j - 1]
          BY <2>2, <5>1
        <5> QED
          BY <4>3, <5>1, <5>2
      <4> QED
        BY <4>4, <4>5
    <3> HIDE DEF u
    <3>3. f = u
      BY <1>4, <3>1, <3>2
    <3> QED
      BY <3>3 DEF u
  <2>3. /\ <<>> \in Endings /\ <<"B">> \in Endings
        /\ \A x \in DOMAIN Prefix : <<x>> \in Endings /\ <<x, "B">> \in Endings
    <3>1. <<>> \in Endings /\ <<"B">> \in Endings
      BY DEF Endings
    <3>2. ASSUME NEW x \in DOMAIN Prefix PROVE <<x>> \in Endings /\ <<x, "B">> \in Endings
      BY DEF Endings
    <3> QED
      BY <3>1, <3>2
  <2>4. n + (1 + 1) = n + 2 /\ n + (2 + 1) = n + 3
    BY <1>3
  <2>5. CASE m = 0
    BY <2>1, <2>3, <2>5
  <2>6. CASE m = 1 /\ Unit(text, n + 1)
    BY <2>1, <2>3, <2>6, SMTT(30) DEF Unit
  <2>7. CASE m = 1 /\ Letter(text, n + 1)
    <3> DEFINE e == <<text[n + 1]>>
    <3>1. e \in Endings
      BY <2>3, <2>7, Zenon DEF Letter
    <3>2. Len(e) = 1 /\ \A j \in 1..1 : text[n + j] = e[j]
      OBVIOUS
    <3> HIDE DEF e
    <3> QED
      BY <2>1, <2>7, <3>1, <3>2
  <2>8. CASE m = 1 /\ Blanked(text, n + 1)
    <3> DEFINE e == <<>>
    <3>1. e \in Endings /\ Len(e) + 1 = m
      BY <2>3, <2>8
    <3>2. \A j \in 1..Len(e) : text[n + (j + 1)] = e[j]
      OBVIOUS
    <3> HIDE DEF e
    <3> QED
      BY <2>2, <2>8, <3>1, <3>2
  <2>9. CASE m = 2 /\ Letter(text, n + 1) /\ Unit(text, n + 2)
    <3> DEFINE e == <<text[n + 1], "B">>
    <3>1. e \in Endings /\ Len(e) = 2
      <4>1. e \in Endings
        BY <2>3, <2>9, Zenon DEF Letter
      <4> QED
        BY <4>1
    <3>2. \A j \in 1..2 : text[n + j] = e[j]
      BY <2>9 DEF Unit
    <3> HIDE DEF e
    <3> QED
      BY <2>1, <2>9, <3>1, <3>2
  <2>10. CASE m = 2 /\ Blanked(text, n + 1) /\ Unit(text, n + 2)
    <3> DEFINE e == <<"B">>
    <3>1. e \in Endings /\ Len(e) + 1 = m
      BY <2>3, <2>10
    <3>2. \A j \in 1..Len(e) : text[n + (j + 1)] = e[j]
      BY <2>4, <2>10 DEF Unit
    <3> HIDE DEF e
    <3> QED
      BY <2>2, <2>10, <3>1, <3>2
  <2>11. CASE m = 2 /\ Blanked(text, n + 1) /\ Letter(text, n + 2)
    <3> DEFINE e == <<text[n + 2]>>
    <3>1. e \in Endings /\ Len(e) + 1 = m
      <4>1. e \in Endings
        BY <2>3, <2>11, Zenon DEF Letter
      <4> QED
        BY <2>11, <4>1
    <3>2. \A j \in 1..Len(e) : text[n + (j + 1)] = e[j]
      BY <2>4, <2>11
    <3> HIDE DEF e
    <3> QED
      BY <2>2, <2>11, <3>1, <3>2
  <2>12. CASE m = 3 /\ Blanked(text, n + 1) /\ Letter(text, n + 2) /\ Unit(text, n + 3)
    <3> DEFINE e == <<text[n + 2], "B">>
    <3>1. e \in Endings /\ Len(e) + 1 = m
      <4>1. e \in Endings
        BY <2>3, <2>12, Zenon DEF Letter
      <4> QED
        BY <2>12, <4>1
    <3>2. \A j \in 1..Len(e) : text[n + (j + 1)] = e[j]
      BY <2>4, <2>12 DEF Unit
    <3> HIDE DEF e
    <3> QED
      BY <2>2, <2>12, <3>1, <3>2
  <2> QED
    BY <1>6, <2>5, <2>6, <2>7, <2>8, <2>9, <2>10, <2>11, <2>12 DEF Ended
<1> QED
  BY <1>1, <1>2, <1>5, <1>6

-----------------------------------------------------------------------------
LEMMA Symbols ==
  /\ Blank \notin DOMAIN Digit /\ Blank \notin DOMAIN Prefix /\ Blank # "B"
  /\ "B" \notin DOMAIN Digit /\ "B" \notin DOMAIN Prefix
  /\ \A x \in DOMAIN Prefix : x \notin DOMAIN Digit
<1>1. DOMAIN Digit \cap DOMAIN Prefix = {}
      /\ {Blank, "B"} \cap (DOMAIN Digit \cup DOMAIN Prefix) = {}
  BY NumbersAssumption, Zenon DEF Blank
<1>2. Blank # "B"
  BY Zenon DEF Blank
<1> QED
  BY <1>1, <1>2

\* What humansize_parse does behind the digits.
LEMMA EndingStep ==
  ASSUME NEW c \in SizeStates, NEW x
  PROVE  /\ c.state = 1 /\ x = Blank => SizeStep(c, x) = [c EXCEPT !.state = 3]
         /\ c.state \in {1, 3} /\ x \in DOMAIN Prefix =>
              SizeStep(c, x) = [c EXCEPT !.state = 4, !.multiplier = Prefix[x]]
         /\ c.state \in {1, 3, 4} /\ x = "B" => SizeStep(c, x) = [c EXCEPT !.state = 5]
<1>1. CASE c.state = 1 /\ x = Blank
  <2>1. c.state # -1 /\ c.state # 0 /\ c.state <= 2 /\ x \notin DOMAIN Digit
    BY <1>1, Symbols
  <2>2. SizeStep(c, x) = [c EXCEPT !.state = 3]
    BY <1>1, <2>1, Zenon DEF SizeStep, Blank
  <2> QED
    BY <1>1, <2>2, Symbols
<1>2. CASE c.state \in {1, 3} /\ x \in DOMAIN Prefix
  <2>1. c.state # -1 /\ c.state # 0 /\ c.state <= 3 /\ x \notin DOMAIN Digit /\ x # Blank
    BY <1>2, Symbols
  <2>2. SizeStep(c, x) = [c EXCEPT !.state = 4, !.multiplier = Prefix[x]]
    BY <1>2, <2>1, Zenon DEF SizeStep, Blank
  <2> QED
    BY <1>2, <2>1, <2>2, Symbols
<1>3. CASE c.state \in {1, 3, 4} /\ x = "B"
  <2>1. /\ c.state # -1 /\ c.state # 0 /\ c.state <= 4 /\ x \notin DOMAIN Digit /\ x # Blank
        /\ x \notin DOMAIN Prefix
    BY <1>3, Symbols
  <2>2. SizeStep(c, x) = [c EXCEPT !.state = 5]
    BY <1>3, <2>1, Zenon DEF SizeStep, Blank
  <2> QED
    BY <1>3, <2>1, <2>2
<1> QED
  BY <1>1, <1>2, <1>3

\* After n symbols: the state, the number and its multiplier.
Has(text, n, state, z, m) ==
  /\ Walk(text)[n].state = state /\ Walk(text)[n].size = z /\ Walk(text)[n].multiplier = m

LEMMA EndingWalk ==
  ASSUME NEW text, Len(text) \in Nat, NEW n \in Nat, n + 1 <= Len(text), NEW z, NEW m, NEW state,
         Has(text, n, state, z, m)
  PROVE  /\ state = 1 /\ Blanked(text, n + 1) => Has(text, n + 1, 3, z, m)
         /\ state \in {1, 3} /\ Letter(text, n + 1) =>
              Has(text, n + 1, 4, z, Prefix[text[n + 1]])
         /\ state \in {1, 3, 4} /\ Unit(text, n + 1) => Has(text, n + 1, 5, z, m)
<1> DEFINE c == Walk(text)[n]
           x == text[n + 1]
<1>1. Walk(text)[n + 1] = SizeStep(c, x)
  <2>1. n + 1 \in 1..Len(text) /\ (n + 1) - 1 = n
    OBVIOUS
  <2> QED
    BY <2>1, WalkTurns
<1>2. c \in SizeStates
  BY WalkTyped
<1>3. c.state = state /\ c.size = z /\ c.multiplier = m
  BY DEF Has
<1>4. Blanked(text, n + 1) = (x = Blank) /\ Letter(text, n + 1) = (x \in DOMAIN Prefix)
      /\ Unit(text, n + 1) = (x = "B")
  BY DEF Blanked, Letter, Unit
<1> HIDE DEF c, x
<1>6. CASE state = 1 /\ x = Blank
  <2>1. SizeStep(c, x) = [c EXCEPT !.state = 3]
    BY <1>2, <1>3, <1>6, EndingStep
  <2>2. Has(text, n + 1, 3, z, m)
    <3> DEFINE w == Walk(text)[n + 1]
    <3>1. w = [c EXCEPT !.state = 3]
      BY <1>1, <2>1
    <3> HIDE DEF w
    <3>2. w.state = 3 /\ w.size = z /\ w.multiplier = m
      BY <1>2, <1>3, <3>1 DEF SizeStates
    <3> QED
      BY <3>2 DEF Has, w
  <2> QED
    BY <1>4, <1>6, <2>2, Symbols
<1>7. CASE state \in {1, 3} /\ x \in DOMAIN Prefix
  <2>1. SizeStep(c, x) = [c EXCEPT !.state = 4, !.multiplier = Prefix[x]]
    BY <1>2, <1>3, <1>7, EndingStep
  <2>2. Has(text, n + 1, 4, z, Prefix[x])
    <3> DEFINE w == Walk(text)[n + 1]
    <3>1. w = [c EXCEPT !.state = 4, !.multiplier = Prefix[x]]
      BY <1>1, <2>1
    <3> HIDE DEF w
    <3>2. w.state = 4 /\ w.size = z /\ w.multiplier = Prefix[x]
      BY <1>2, <1>3, <3>1 DEF SizeStates
    <3> QED
      BY <3>2 DEF Has, w
  <2> QED
    BY <1>4, <1>7, <2>2, Symbols DEF x
<1>8. CASE state \in {1, 3, 4} /\ x = "B"
  <2>1. SizeStep(c, x) = [c EXCEPT !.state = 5]
    BY <1>2, <1>3, <1>8, EndingStep
  <2>2. Has(text, n + 1, 5, z, m)
    <3> DEFINE w == Walk(text)[n + 1]
    <3>1. w = [c EXCEPT !.state = 5]
      BY <1>1, <2>1
    <3> HIDE DEF w
    <3>2. w.state = 5 /\ w.size = z /\ w.multiplier = m
      BY <1>2, <1>3, <3>1 DEF SizeStates
    <3> QED
      BY <3>2 DEF Has, w
  <2> QED
    BY <1>4, <1>8, <2>2, Symbols
<1> QED
  BY <1>4, <1>6, <1>7, <1>8

LEMMA MultiplierIs ==
  ASSUME NEW text, Len(text) \in Nat, NEW n \in Nat
  PROVE  /\ (\A k \in n + 1..Len(text) : ~Letter(text, k)) => Multiplier(text, n) = 1
         /\ \A j \in n + 1..Len(text) :
              Letter(text, j) /\ (\A k \in n + 1..Len(text) : Letter(text, k) => k = j) =>
                Multiplier(text, n) = Prefix[text[j]]
<1>1. ASSUME \A k \in n + 1..Len(text) : ~Letter(text, k) PROVE Multiplier(text, n) = 1
  BY <1>1, Zenon DEF Multiplier, Letter
<1>2. ASSUME NEW j \in n + 1..Len(text), Letter(text, j),
             \A k \in n + 1..Len(text) : Letter(text, k) => k = j
      PROVE  Multiplier(text, n) = Prefix[text[j]]
  <2> DEFINE w == CHOOSE k \in n + 1..Len(text) : text[k] \in DOMAIN Prefix
  <2>1. w \in n + 1..Len(text) /\ text[w] \in DOMAIN Prefix
    BY <1>2, Zenon DEF Letter
  <2>2. Multiplier(text, n) = Prefix[text[w]]
    BY <1>2, Zenon DEF Multiplier, Letter
  <2> HIDE DEF w
  <2>3. w = j
    BY <1>2, <2>1 DEF Letter
  <2> QED
    BY <2>2, <2>3
<1> QED
  BY <1>1, <1>2

\* The walk over an ending.
LEMMA SizedWalk ==
  ASSUME NEW text, Len(text) \in Nat, NEW n \in 1..Len(text), Sized(text, n, Len(text)), NEW z,
         Has(text, n, 1, z, 1)
  PROVE  \E st \in 1..5 : Has(text, Len(text), st, z, Multiplier(text, n))
<1> DEFINE last == Len(text)
           m == last - n
           mu == Multiplier(text, n)
<1>1. last \in Nat /\ n \in Nat /\ n <= last /\ m \in Nat /\ last = n + m
  OBVIOUS
<1>2. Ended(text, n, m)
  BY DEF Sized
<1>3. \A k \in Nat : (Blanked(text, k) \/ Unit(text, k)) => ~Letter(text, k)
  BY Symbols DEF Blanked, Unit, Letter
<1>4. \A p, st : \A k \in Nat : k + 1 <= last /\ Has(text, k, st, z, p) =>
        /\ st = 1 /\ Blanked(text, k + 1) => Has(text, k + 1, 3, z, p)
        /\ st \in {1, 3} /\ Letter(text, k + 1) =>
             Has(text, k + 1, 4, z, Prefix[text[k + 1]])
        /\ st \in {1, 3, 4} /\ Unit(text, k + 1) => Has(text, k + 1, 5, z, p)
  BY EndingWalk, Zenon
<1>5. /\ (\A k \in n + 1..last : ~Letter(text, k)) => mu = 1
      /\ \A j \in n + 1..last :
           Letter(text, j) /\ (\A k \in n + 1..last : Letter(text, k) => k = j) =>
             mu = Prefix[text[j]]
  BY <1>1, MultiplierIs, Zenon
<1> HIDE DEF last, m, mu
<1>6. (n + 1) + 1 = n + 2 /\ (n + 2) + 1 = n + 3 /\ n + 1 \in Nat /\ n + 2 \in Nat
      /\ 1 \in 1..5 /\ 3 \in 1..5 /\ 4 \in 1..5 /\ 5 \in 1..5
  BY <1>1
<1>7. SUFFICES \E st \in 1..5 : Has(text, last, st, z, mu)
  BY DEF last, mu
<1>8. CASE m = 0
  <2>1. last = n /\ \A k \in n + 1..last : ~Letter(text, k)
    BY <1>1, <1>8
  <2>2. Has(text, last, 1, z, mu)
    BY <1>5, <2>1
  <2> QED
    BY <1>6, <2>2
<1>9. CASE m = 1
  <2>1. last = n + 1 /\ \A k \in n + 1..last : k = n + 1
    BY <1>1, <1>9
  <2>2. CASE Letter(text, n + 1)
    <3>1. Has(text, last, 4, z, Prefix[text[n + 1]])
      BY <1>1, <1>4, <2>1, <2>2
    <3>2. mu = Prefix[text[n + 1]]
      BY <1>1, <1>5, <2>1, <2>2
    <3> QED
      BY <1>6, <3>1, <3>2
  <2>3. CASE ~Letter(text, n + 1)
    <3>1. mu = 1
      BY <1>5, <2>1, <2>3
    <3>2. Has(text, last, 3, z, 1) \/ Has(text, last, 5, z, 1)
      BY <1>1, <1>2, <1>4, <1>9, <2>1, <2>3 DEF Ended
    <3> QED
      BY <1>6, <3>1, <3>2
  <2> QED
    BY <2>2, <2>3
<1>10. CASE m = 2
  <2>1. last = n + 2 /\ \A k \in n + 1..last : k = n + 1 \/ k = n + 2
    BY <1>1, <1>10
  <2>2. CASE Letter(text, n + 1) /\ Unit(text, n + 2)
    <3>1. Has(text, n + 1, 4, z, Prefix[text[n + 1]])
      BY <1>1, <1>4, <2>1, <2>2
    <3>2. Has(text, last, 5, z, Prefix[text[n + 1]])
      BY <1>1, <1>4, <1>6, <2>1, <2>2, <3>1, SMTT(30)
    <3>3. mu = Prefix[text[n + 1]]
      BY <1>1, <1>3, <1>5, <1>6, <2>1, <2>2
    <3> QED
      BY <1>6, <3>2, <3>3
  <2>3. CASE Blanked(text, n + 1) /\ Unit(text, n + 2)
    <3>1. Has(text, n + 1, 3, z, 1)
      BY <1>1, <1>4, <2>1, <2>3
    <3>2. Has(text, last, 5, z, 1)
      BY <1>1, <1>4, <1>6, <2>1, <2>3, <3>1
    <3>3. mu = 1
      BY <1>1, <1>3, <1>5, <1>6, <2>1, <2>3
    <3> QED
      BY <1>6, <3>2, <3>3
  <2>4. CASE Blanked(text, n + 1) /\ Letter(text, n + 2)
    <3>1. Has(text, n + 1, 3, z, 1)
      BY <1>1, <1>4, <2>1, <2>4
    <3>2. Has(text, last, 4, z, Prefix[text[n + 2]])
      BY <1>1, <1>4, <1>6, <2>1, <2>4, <3>1, SMTT(30)
    <3>3. mu = Prefix[text[n + 2]]
      BY <1>1, <1>3, <1>5, <1>6, <2>1, <2>4, SMTT(30)
    <3> QED
      BY <1>6, <3>2, <3>3
  <2> QED
    BY <1>2, <1>10, <2>2, <2>3, <2>4 DEF Ended
<1>11. CASE m = 3
  <2>1. last = n + 3 /\ \A k \in n + 1..last : k = n + 1 \/ k = n + 2 \/ k = n + 3
    BY <1>1, <1>11
  <2>2. Blanked(text, n + 1) /\ Letter(text, n + 2) /\ Unit(text, n + 3)
    BY <1>2, <1>11 DEF Ended
  <2>3. Has(text, n + 1, 3, z, 1)
    BY <1>1, <1>4, <2>1, <2>2
  <2>4. Has(text, n + 2, 4, z, Prefix[text[n + 2]])
    BY <1>1, <1>4, <1>6, <2>1, <2>2, <2>3
  <2>5. Has(text, last, 5, z, Prefix[text[n + 2]])
    BY <1>1, <1>4, <1>6, <2>1, <2>2, <2>4
  <2>6. n + 2 \in n + 1..last /\ n + 1 \in Nat /\ n + 3 \in Nat
    BY <1>1, <2>1
  <2>7. mu = Prefix[text[n + 2]]
    BY <1>3, <1>5, <1>6, <2>1, <2>2, <2>6
  <2> QED
    BY <1>6, <2>5, <2>7
<1> QED
  BY <1>2, <1>8, <1>9, <1>10, <1>11 DEF Ended

\* The test before the product, and the product.
LEMMA ProductFits ==
  ASSUME NEW z \in Nat, NEW m \in Nat \ {0}, NEW top \in Nat
  PROVE  /\ z * m \in Nat
         /\ z > top \div m <=> z * m > top
         /\ z * m <= top => (z * m) % (top + 1) = z * m
<1> DEFINE q == top \div m
           r == top % m
           p == z * m
<1>1. top = m * q + r /\ q \in Nat
  BY Division
<1>2. r \in Nat /\ r < m
  OBVIOUS
<1>3. p \in Nat
  OBVIOUS
<1>4. p <= top => p % (top + 1) = p
  <2> HIDE DEF p
  <2> QED
    BY <1>3
<1>5. ASSUME z <= q PROVE p <= top
  <2>1. PICK d \in Nat : q = z + d
    BY <1>1, <1>5
  <2>2. m * q = z * m + m * d /\ m * d \in Nat
    BY <2>1
  <2> QED
    BY <1>1, <1>2, <2>2
<1>6. ASSUME z > q PROVE p > top
  <2>1. PICK d \in Nat : z = q + 1 + d
    <3>1. z - (q + 1) \in Nat /\ z = q + 1 + (z - (q + 1))
      BY <1>1, <1>6
    <3> QED
      BY <3>1
  <2>2. z * m = m * q + m + m * d /\ m * d \in Nat
    BY <1>1, <2>1
  <2> QED
    BY <1>1, <1>2, <2>2
<1> QED
  BY <1>1, <1>3, <1>4, <1>5, <1>6

\* humansize_parse gives the number that is written, times its prefix, or it
\* refuses what is no size and what 64 bits do not hold.
Product(text, n) == Value(text, n) * Multiplier(text, n)

LEMMA MultiplierTyped ==
  ASSUME NEW text, NEW n
  PROVE  Multiplier(text, n) \in Nat \ {0}
<1>1. CASE \E k \in n + 1..Len(text) : text[k] \in DOMAIN Prefix
  <2> DEFINE w == CHOOSE k \in n + 1..Len(text) : text[k] \in DOMAIN Prefix
  <2>1. text[w] \in DOMAIN Prefix
    BY <1>1, Zenon
  <2>2. Multiplier(text, n) = Prefix[text[w]]
    BY <1>1, Zenon DEF Multiplier
  <2> HIDE DEF w
  <2> QED
    BY <2>1, <2>2, Numbers
<1>2. CASE ~ \E k \in n + 1..Len(text) : text[k] \in DOMAIN Prefix
  <2>1. Multiplier(text, n) = 1
    BY <1>2, Zenon DEF Multiplier
  <2> QED
    BY <2>1
<1> QED
  BY <1>1, <1>2

\* A text that is a size.
LEMMA ParseSize ==
  ASSUME NEW Y, NEW text \in Seq(Y), NEW n \in 1..Len(text), IsSize(text, n)
  PROVE  /\ Product(text, n) \in Nat
         /\ humansize_parse(text) = IF Product(text, n) <= UINT64_MAX THEN Product(text, n) ELSE -1
<1> DEFINE last == Len(text)
           s == Walk(text)
           z == Value(text, n)
           mu == Multiplier(text, n)
           end == s[last]
           top == UINT64_MAX
<1>1. last \in Nat /\ n \in 0..last /\ n \in Nat /\ n # 0
  OBVIOUS
<1>2. Sized(text, n, last) /\ Digits(text, n)
  BY SizeShape DEF Sized
<1>3. DigitAt(text, n)
  BY <1>1, <1>2, DigitsWalk
<1>4. z \in Nat /\ mu \in Nat \ {0} /\ top \in Nat
  BY <1>3, MultiplierTyped, Numbers DEF DigitAt
<1>5. humansize_parse(text) = IF end.state <= 0 \/ end.size > top \div end.multiplier THEN -1
                              ELSE (end.size * end.multiplier) % (top + 1)
  BY ParseIs
<1>6. /\ z * mu \in Nat
      /\ z > top \div mu <=> z * mu > top
      /\ z * mu <= top => (z * mu) % (top + 1) = z * mu
  BY <1>4, ProductFits
<1>7. CASE s[n].state = -1
  <2>1. end.state = -1
    BY <1>1, <1>7, StaysRefused
  <2>2. z > top
    BY <1>3, <1>7 DEF DigitAt
  <2>3. z * mu > top
    <3> HIDE DEF z, mu, top
    <3>1. PICK d \in Nat : mu = 1 + d
      <4>1. mu - 1 \in Nat /\ mu = 1 + (mu - 1)
        BY <1>4
      <4> QED
        BY <4>1
    <3>2. z * mu = z + z * d /\ z * d \in Nat
      BY <1>4, <3>1
    <3> QED
      BY <1>4, <2>2, <3>2
  <2>4. humansize_parse(text) = -1
    <3> HIDE DEF end, top
    <3> QED
      BY <1>5, <2>1
  <2> QED
    BY <1>4, <1>6, <2>3, <2>4 DEF Product
<1>8. CASE s[n].state # -1
  <2>1. Has(text, n, 1, z, 1)
    BY <1>1, <1>3, <1>8 DEF DigitAt, Has
  <2>2. PICK st \in 1..5 : Has(text, last, st, z, mu)
    BY <1>1, <1>2, <2>1, SizedWalk
  <2>3. end.state \in 1..5 /\ end.size = z /\ end.multiplier = mu
    BY <2>2 DEF Has
  <2> HIDE DEF end, z, mu, top
  <2>4. humansize_parse(text) = IF z > top \div mu THEN -1 ELSE (z * mu) % (top + 1)
    <3>1. ~(end.state <= 0)
      BY <2>3
    <3> QED
      BY <1>5, <2>3, <3>1, Zenon
  <2>5. humansize_parse(text) = IF z * mu <= top THEN z * mu ELSE -1
    <3> DEFINE p == z * mu
               w == p % (top + 1)
               h == humansize_parse(text)
               g == z > top \div mu
    <3>1. h = IF g THEN -1 ELSE w
      BY <2>4
    <3>2. p \in Nat /\ (g <=> p > top) /\ (p <= top => w = p)
      BY <1>6
    <3> HIDE DEF p, w, h, g
    <3>3. ASSUME p <= top PROVE h = p
      <4>1. ~(p > top)
        BY <1>4, <3>2, <3>3
      <4> QED
        BY <3>1, <3>2, <3>3, <4>1, Zenon
    <3>4. ASSUME ~(p <= top) PROVE h = -1
      <4>1. p > top
        BY <1>4, <3>2, <3>4
      <4> QED
        BY <3>1, <3>2, <4>1, Zenon
    <3> QED
      BY <3>3, <3>4, Zenon DEF p, h
  <2> QED
    BY <1>6, <2>5 DEF Product, z, mu, top
<1> QED
  BY <1>7, <1>8

\* And one that is none.
LEMMA ParseRefuses ==
  ASSUME NEW Y, NEW text \in Seq(Y), \A n \in 1..Len(text) : ~IsSize(text, n)
  PROVE  humansize_parse(text) = -1
<1> DEFINE end == Walk(text)[Len(text)]
<1>1. Len(text) \in Nat
  OBVIOUS
<1>2. ~ \E n \in 1..Len(text) : Sized(text, n, Len(text))
  BY SizeShape
<1>3. ~(end.state > 0)
  BY <1>1, <1>2, AcceptedIsSized
<1>4. end.state <= 0
  <2>1. end \in SizeStates
    BY <1>1, WalkTyped
  <2>2. end.state \in -1..5
    BY <2>1 DEF SizeStates
  <2> QED
    BY <1>3, <2>2
<1> HIDE DEF end
<1>5. humansize_parse(text) = IF end.state <= 0 \/ end.size > UINT64_MAX \div end.multiplier THEN -1
                              ELSE (end.size * end.multiplier) % (UINT64_MAX + 1)
  BY ParseIs, Zenon DEF end
<1> QED
  BY <1>4, <1>5, Zenon

LEMMA ParseExact ==
  ASSUME NEW Y, NEW text \in Seq(Y)
  PROVE  LET size == humansize_parse(text)
             valid == \E n \in 1..Len(text) : IsSize(text, n) /\ Product(text, n) <= SIZE_MAX
         IN /\ size = -1 \/ size > SIZE_MAX => ~valid
            /\ ~(size = -1 \/ size > SIZE_MAX) =>
                 /\ valid /\ size \in Nat
                 /\ \E n \in 1..Len(text) : IsSize(text, n) /\ size = Product(text, n)
<1> DEFINE size == humansize_parse(text)
<1>1. UINT64_MAX \in Nat /\ SIZE_MAX \in Nat /\ SIZE_MAX <= UINT64_MAX
  BY Numbers
<1>2. \A n \in 1..Len(text) : IsSize(text, n) =>
        /\ Product(text, n) \in Nat
        /\ size = IF Product(text, n) <= UINT64_MAX THEN Product(text, n) ELSE -1
  BY ParseSize
<1>3. (\A n \in 1..Len(text) : ~IsSize(text, n)) => size = -1
  BY ParseRefuses
<1> HIDE DEF size
<1>4. ASSUME NEW n \in 1..Len(text), IsSize(text, n), Product(text, n) <= SIZE_MAX
      PROVE  ~(size = -1 \/ size > SIZE_MAX)
  BY <1>1, <1>2, <1>4
<1>5. ASSUME ~(size = -1 \/ size > SIZE_MAX)
      PROVE  \E n \in 1..Len(text) : /\ IsSize(text, n) /\ size = Product(text, n)
                                     /\ Product(text, n) <= SIZE_MAX /\ size \in Nat
  <2>1. PICK n \in 1..Len(text) : IsSize(text, n)
    BY <1>3, <1>5
  <2>2. /\ Product(text, n) \in Nat
        /\ size = IF Product(text, n) <= UINT64_MAX THEN Product(text, n) ELSE -1
    BY <1>2, <2>1
  <2>3. size = Product(text, n) /\ Product(text, n) <= SIZE_MAX
    BY <1>1, <1>5, <2>2
  <2> QED
    BY <2>1, <2>2, <2>3
<1>6. QED
  BY <1>4, <1>5 DEF size

(***************************************************************************)
(* The options (CommandLine).                                              *)
(***************************************************************************)
CaseLines == {1, 4, 7, 18, 24, 27, 39, 42, 48, 51}
Short(os) == Len(os) = 2 /\ os[1] = "-" /\ os[2] # "-" /\ os[2] # "="
LongName(os) == Len(os) = 3 /\ os[1] = "-" /\ os[2] = "-" /\ os[3] # "="

LEMMA Cases ==
  /\ Case(1) = [os |-> <<"-", "f">>, hasarg |-> FALSE]
  /\ Case(4) = [os |-> <<"-", "-", "logN">>, hasarg |-> TRUE]
  /\ Case(7) = [os |-> <<"-", "M">>, hasarg |-> TRUE]
  /\ Case(18) = [os |-> <<"-", "m">>, hasarg |-> TRUE]
  /\ Case(24) = [os |-> <<"-", "p">>, hasarg |-> TRUE]
  /\ Case(27) = [os |-> <<"-", "-", "passphrase">>, hasarg |-> TRUE]
  /\ Case(39) = [os |-> <<"-", "r">>, hasarg |-> TRUE]
  /\ Case(42) = [os |-> <<"-", "t">>, hasarg |-> TRUE]
  /\ Case(48) = [os |-> <<"-", "v">>, hasarg |-> FALSE]
  /\ Case(51) = [os |-> <<"-", "P">>, hasarg |-> FALSE]
  /\ \A n \in Int : n \notin CaseLines => Case(n) = NoOpt
<1> USE DEF Case
<1>1. Case(1) = [os |-> <<"-", "f">>, hasarg |-> FALSE]
  OBVIOUS
<1>2. Case(4) = [os |-> <<"-", "-", "logN">>, hasarg |-> TRUE]
  OBVIOUS
<1>3. Case(7) = [os |-> <<"-", "M">>, hasarg |-> TRUE]
  OBVIOUS
<1>4. Case(18) = [os |-> <<"-", "m">>, hasarg |-> TRUE]
  OBVIOUS
<1>5. Case(24) = [os |-> <<"-", "p">>, hasarg |-> TRUE]
  OBVIOUS
<1>6. Case(27) = [os |-> <<"-", "-", "passphrase">>, hasarg |-> TRUE]
  OBVIOUS
<1>7. Case(39) = [os |-> <<"-", "r">>, hasarg |-> TRUE]
  OBVIOUS
<1>8. Case(42) = [os |-> <<"-", "t">>, hasarg |-> TRUE]
  OBVIOUS
<1>9. Case(48) = [os |-> <<"-", "v">>, hasarg |-> FALSE]
  OBVIOUS
<1>10. Case(51) = [os |-> <<"-", "P">>, hasarg |-> FALSE]
  OBVIOUS
<1>11. \A n \in Int : n \notin CaseLines => Case(n) = NoOpt
  BY DEF CaseLines
<1> QED
  BY <1>1, <1>2, <1>3, <1>4, <1>5, <1>6, <1>7, <1>8, <1>9, <1>10, <1>11

Letters == {"f", "M", "m", "p", "r", "t", "v", "P"}
LongNames == {"logN", "passphrase"}
Symbol == STRING \cup {"-", "NULL"} \cup Letters \cup LongNames
Text == Seq(Symbol)

LEMMA Texts ==
  /\ Null \in Text
  /\ \A x \in Symbol : <<"-", x>> \in Text /\ <<"-", x>> # Null
  /\ \A x \in Symbol : <<"-", "-", x>> \in Text /\ <<"-", "-", x>> # Null
  /\ \A x : x # "-" /\ x # "=" => Short(<<"-", x>>)
  /\ \A x : x # "=" => LongName(<<"-", "-", x>>)
<1>1. "-" \in Symbol /\ "NULL" \in Symbol
  BY DEF Symbol
<1>2. \A Y, x, d : x \in Y /\ d \in Y => <<x>> \in Seq(Y) /\ <<d, x>> \in Seq(Y) /\ <<d, d, x>> \in Seq(Y)
  OBVIOUS
<1>3. \A x : <<"-", x>> # Null /\ <<"-", "-", x>> # Null
  BY DEF Null
<1>4. \A x : x # "-" /\ x # "=" => Short(<<"-", x>>)
  BY DEF Short
<1>5. \A x : x # "=" => LongName(<<"-", "-", x>>)
  BY DEF LongName
<1> QED
  BY <1>1, <1>2, <1>3, <1>4, <1>5, Zenon DEF Text, Null

LEMMA CaseIs ==
  ASSUME NEW n \in CaseLines
  PROVE  \/ \E x \in Letters : Case(n).os = <<"-", x>> /\ Case(n).hasarg \in BOOLEAN
         \/ \E x \in LongNames : Case(n).os = <<"-", "-", x>> /\ Case(n).hasarg = TRUE
<1>1. CASE n = 1
  <2>1. Case(n).os = <<"-", "f">> /\ Case(n).hasarg = FALSE
    BY <1>1, Cases
  <2> QED
    BY <2>1 DEF Letters
<1>4. CASE n = 4
  <2>1. Case(n).os = <<"-", "-", "logN">> /\ Case(n).hasarg = TRUE
    BY <1>4, Cases
  <2> QED
    BY <2>1 DEF LongNames
<1>7. CASE n = 7
  <2>1. Case(n).os = <<"-", "M">> /\ Case(n).hasarg = TRUE
    BY <1>7, Cases
  <2> QED
    BY <2>1 DEF Letters
<1>18. CASE n = 18
  <2>1. Case(n).os = <<"-", "m">> /\ Case(n).hasarg = TRUE
    BY <1>18, Cases
  <2> QED
    BY <2>1 DEF Letters
<1>24. CASE n = 24
  <2>1. Case(n).os = <<"-", "p">> /\ Case(n).hasarg = TRUE
    BY <1>24, Cases
  <2> QED
    BY <2>1 DEF Letters
<1>27. CASE n = 27
  <2>1. Case(n).os = <<"-", "-", "passphrase">> /\ Case(n).hasarg = TRUE
    BY <1>27, Cases
  <2> QED
    BY <2>1 DEF LongNames
<1>39. CASE n = 39
  <2>1. Case(n).os = <<"-", "r">> /\ Case(n).hasarg = TRUE
    BY <1>39, Cases
  <2> QED
    BY <2>1 DEF Letters
<1>42. CASE n = 42
  <2>1. Case(n).os = <<"-", "t">> /\ Case(n).hasarg = TRUE
    BY <1>42, Cases
  <2> QED
    BY <2>1 DEF Letters
<1>48. CASE n = 48
  <2>1. Case(n).os = <<"-", "v">> /\ Case(n).hasarg = FALSE
    BY <1>48, Cases
  <2> QED
    BY <2>1 DEF Letters
<1>51. CASE n = 51
  <2>1. Case(n).os = <<"-", "P">> /\ Case(n).hasarg = FALSE
    BY <1>51, Cases
  <2> QED
    BY <2>1 DEF Letters
<1> QED
  BY <1>1, <1>4, <1>7, <1>18, <1>24, <1>27, <1>39, <1>42, <1>48, <1>51 DEF CaseLines

LEMMA CaseForm ==
  ASSUME NEW n \in CaseLines
  PROVE  /\ Case(n).os \in Text /\ Case(n).os # Null /\ Case(n) # NoOpt
         /\ Short(Case(n).os) \/ (LongName(Case(n).os) /\ Case(n).hasarg)
         /\ Case(n).hasarg \in BOOLEAN
<1> DEFINE os == Case(n).os
<1>1. NoOpt.os = Null
  BY DEF NoOpt
<1>2. CASE \E x \in Letters : os = <<"-", x>> /\ Case(n).hasarg \in BOOLEAN
  <2>1. PICK x \in Letters : os = <<"-", x>> /\ Case(n).hasarg \in BOOLEAN
    BY <1>2
  <2>2. x # "-" /\ x # "=" /\ x \in Symbol
    BY <2>1 DEF Letters, Symbol
  <2> QED
    BY <1>1, <2>1, <2>2, Texts, Zenon
<1>3. CASE \E x \in LongNames : os = <<"-", "-", x>> /\ Case(n).hasarg = TRUE
  <2>1. PICK x \in LongNames : os = <<"-", "-", x>> /\ Case(n).hasarg = TRUE
    BY <1>3
  <2>2. x # "=" /\ x \in Symbol
    BY <2>1 DEF LongNames, Symbol
  <2> QED
    BY <1>1, <2>1, <2>2, Texts, Zenon
<1> QED
  BY <1>2, <1>3, CaseIs

LEMMA CaseApart ==
  ASSUME NEW c \in CaseLines, NEW j \in CaseLines, Case(c).os = Case(j).os
  PROVE  c = j
BY Cases DEF CaseLines

\* What is left of a sequence.
LEMMA FromAt ==
  ASSUME NEW Y, NEW s \in Seq(Y), NEW k \in Nat \ {0}
  PROVE  /\ From(s, k) \in Seq(Y)
         /\ k > Len(s) => From(s, k) = <<>>
         /\ k <= Len(s) => /\ From(s, k) # <<>> /\ Head(From(s, k)) = s[k] /\ s[k] \in Y
                           /\ Tail(From(s, k)) = From(s, k + 1)
         /\ k = 1 => From(s, k) = s
<1>1. Len(s) \in Nat
  OBVIOUS
<1>2. From(s, k) \in Seq(Y)
  BY DEF From
<1>3. k > Len(s) => From(s, k) = <<>>
  BY <1>1, SubSeqEmpty DEF From
<1>4. ASSUME k <= Len(s)
      PROVE  /\ From(s, k) # <<>> /\ Head(From(s, k)) = s[k] /\ s[k] \in Y
             /\ Tail(From(s, k)) = From(s, k + 1)
  <2>1. k \in 1..Len(s) /\ Len(s) \in k..Len(s)
    BY <1>1, <1>4
  <2>2. Head(SubSeq(s, k, Len(s))) = s[k] /\ Tail(SubSeq(s, k, Len(s))) = SubSeq(s, k + 1, Len(s))
    BY <2>1, HeadTailOfSubSeq
  <2>3. Len(From(s, k)) # 0
    BY <1>1, <1>4 DEF From
  <2>4. From(s, k) # <<>>
    BY <2>3
  <2>5. s[k] \in Y
    BY <2>1
  <2> QED
    BY <2>2, <2>4, <2>5, Zenon DEF From
<1>5. k = 1 => From(s, k) = s
  BY SubSeqFull DEF From
<1> QED
  BY <1>2, <1>3, <1>4, <1>5

LEMMA PrefixIs ==
  ASSUME NEW Y, NEW s \in Seq(Y), NEW t \in Seq(Y)
  PROVE  IsPrefix(s, t) <=> Len(s) <= Len(t) /\ \A k \in 1..Len(s) : s[k] = t[k]
<1> DEFINE u == SubSeq(t, 1, Len(s))
           v == SubSeq(s, 1, Len(s))
<1>1. Len(s) \in Nat /\ Len(t) \in Nat
  OBVIOUS
<1>2. v = s
  BY SubSeqFull
<1>3. CASE Len(s) <= Len(t)
  <2>1. u \in Seq(Y) /\ Len(u) = Len(s) /\ \A k \in 1..Len(s) : u[k] = t[k]
    BY <1>1, <1>3
  <2>2. IsPrefix(s, t) <=> s = u
    BY <1>2, <1>3, Zenon DEF IsPrefix
  <2> HIDE DEF u
  <2>3. s = u <=> \A k \in 1..Len(s) : s[k] = u[k]
    BY <2>1
  <2> QED
    BY <1>3, <2>1, <2>2, <2>3
<1> QED
  BY <1>3 DEF IsPrefix

-----------------------------------------------------------------------------
\* o is the option of the option string os, whether or not with "=".
Prefixed(o, os) ==
  /\ Len(o) <= Len(os) /\ \A k \in 1..Len(o) : o[k] = os[k]
  /\ Len(os) > Len(o) => os[Len(o) + 1] = "="
\* The table when the lines up to n were visited.
TableAt(n) ==
  /\ nopts = Default /\ opt_default = Default + 1
  /\ opt_missing = IF n > MissingArg THEN MissingArg ELSE Default + 1
  /\ opts = [c \in 0..(Default - 1) |-> IF c < n THEN Case(c) ELSE NoOpt]

\* No option is another with something behind it.
LEMMA MatchUnique ==
  ASSUME NEW c \in CaseLines, NEW j \in CaseLines, NEW os,
         Prefixed(Case(c).os, os), Prefixed(Case(j).os, os)
  PROVE  c = j
<1> DEFINE a == Case(c).os
           b == Case(j).os
<1>1. /\ a \in Text /\ b \in Text
      /\ Short(a) \/ LongName(a)
      /\ Short(b) \/ LongName(b)
  BY CaseForm
<1>2. a = b => c = j
  BY CaseApart
<1> HIDE DEF a, b
<1>3. Len(a) = Len(b) => a = b
  <2>1. Len(a) = Len(b) => \A k \in 1..Len(a) : a[k] = b[k]
    BY DEF Prefixed, a, b
  <2> QED
    BY <1>1, <2>1 DEF Text
<1>4. Len(a) = Len(b)
  <2>1. Len(a) \in {2, 3} /\ Len(b) \in {2, 3}
    BY <1>1 DEF Short, LongName
  <2>2. a[2] = os[2] /\ b[2] = os[2]
    BY <2>1 DEF Prefixed, a, b
  <2> QED
    BY <1>1, <2>1, <2>2 DEF Short, LongName
<1> QED
  BY <1>2, <1>3, <1>4

LEMMA MatchesIs ==
  ASSUME NEW n \in 0..Default + 1, TableAt(n), NEW os \in Text, NEW c \in 0..(Default - 1)
  PROVE  /\ Matches(c, os) <=> c < n /\ c \in CaseLines /\ Prefixed(Case(c).os, os)
         /\ c < n => opts[c] = Case(c)
<1>1. opts[c] = IF c < n THEN Case(c) ELSE NoOpt
  BY DEF TableAt
<1>2. NoOpt.os = Null
  BY DEF NoOpt
<1>3. c \in CaseLines => /\ Case(c).os # Null /\ Case(c).os \in Text
                         /\ IsPrefix(Case(c).os, os) <=>
                              /\ Len(Case(c).os) <= Len(os)
                              /\ \A k \in 1..Len(Case(c).os) : Case(c).os[k] = os[k]
  BY CaseForm, PrefixIs DEF Text
<1>4. c \notin CaseLines => Case(c) = NoOpt
  BY Cases DEF Default
<1>5. CASE ~(c < n)
  BY <1>1, <1>2, <1>5, Zenon DEF Matches
<1>6. CASE c < n /\ c \notin CaseLines
  BY <1>1, <1>2, <1>4, <1>6, Zenon DEF Matches
<1>7. CASE c < n /\ c \in CaseLines
  BY <1>1, <1>3, <1>7, Zenon DEF Matches, Prefixed
<1> QED
  BY <1>1, <1>5, <1>6, <1>7

\* searchopt finds the one there is, or none.
LEMMA SearchIs ==
  ASSUME NEW n \in 0..Default + 1, TableAt(n), NEW os \in Text
  PROVE  LET c == searchopt(os)
         IN \/ c = opt_default /\ \A k \in CaseLines : k < n => ~Prefixed(Case(k).os, os)
            \/ /\ c \in CaseLines /\ c < n /\ Prefixed(Case(c).os, os)
               /\ c # opt_default /\ c # opt_missing /\ opts[c] = Case(c)
<1> DEFINE M(k) == Matches(k, os)
           IsLeast(k) == M(k) /\ \A l \in 0..(k - 1) : ~M(l)
           w == CHOOSE k \in 0..(nopts - 1) : IsLeast(k)
<1>1. nopts = Default /\ opt_default = Default + 1 /\ opt_missing \in {MissingArg, Default + 1}
  BY DEF TableAt
<1>2. \A k \in 0..(Default - 1) : /\ M(k) <=> k < n /\ k \in CaseLines /\ Prefixed(Case(k).os, os)
                                  /\ k < n => opts[k] = Case(k)
  BY MatchesIs
<1>3. searchopt(os) = IF \E k \in 0..(nopts - 1) : M(k) THEN w ELSE opt_default
  BY Zenon DEF searchopt
<1>4. CaseLines \subseteq 0..(Default - 1) /\ MissingArg \notin CaseLines /\ Default + 1 \notin CaseLines
  BY DEF CaseLines, Default, MissingArg
<1>5. \A k, l \in CaseLines : Prefixed(Case(k).os, os) /\ Prefixed(Case(l).os, os) => k = l
  BY MatchUnique
<1> HIDE DEF M
<1>6. CASE \E k \in 0..(Default - 1) : M(k)
  <2>1. PICK k \in 0..(Default - 1) : M(k)
    BY <1>6
  <2>2. \A l \in 0..(k - 1) : l \in 0..(Default - 1) /\ l # k
    BY DEF Default
  <2>3. \A l \in 0..(k - 1) : ~M(l)
    BY <1>2, <1>5, <2>1, <2>2, Zenon
  <2>4. IsLeast(k) /\ k \in 0..(nopts - 1)
    BY <1>1, <2>1, <2>3
  <2> HIDE DEF IsLeast
  <2>5. w \in 0..(nopts - 1) /\ IsLeast(w)
    BY <2>4, Zenon
  <2>6. searchopt(os) = w
    BY <1>1, <1>3, <1>6, Zenon
  <2> HIDE DEF w
  <2>7. M(w) /\ w \in 0..(Default - 1)
    BY <1>1, <2>5, Zenon DEF IsLeast
  <2>8. w \in CaseLines /\ w < n /\ Prefixed(Case(w).os, os) /\ opts[w] = Case(w)
    BY <1>2, <2>7
  <2>9. w # opt_default /\ w # opt_missing
    BY <1>1, <1>4, <2>8
  <2> QED
    BY <2>6, <2>8, <2>9, Zenon
<1>7. CASE ~ \E k \in 0..(Default - 1) : M(k)
  <2>1. searchopt(os) = opt_default
    BY <1>1, <1>3, <1>7, Zenon
  <2> QED
    BY <1>2, <1>4, <1>7, <2>1
<1> QED
  BY <1>6, <1>7

(***************************************************************************)
(* The types and the table.                                                *)
(***************************************************************************)
Entries == {"tty_stdin", "stdin_once", "tty_once", "env", "file"}
Settings == [maxmem : Nat, maxmemfrac : 0..4, maxtime : Int, logN : Int, r : Int, p : Int,
             force : BOOLEAN, verbose : BOOLEAN, entry : {"UNSET"} \cup Entries]
CLTypes ==
  /\ argv \in Seq(Text) /\ optarg \in Text
  /\ optind \in Nat \ {0} /\ packedopts \in Nat
  /\ packedopts # 0 => optind <= Len(argv) /\ packedopts <= Len(argv[optind])
  /\ seen \in Seq({Case(n).os : n \in CaseLines} \X Text)

\* Until all lines were visited nothing was read.
TableInv ==
  /\ getopt_ln \in -1..(Default + 1) /\ initialized \in BOOLEAN
  /\ initialized <=> getopt_ln = Default + 1
  /\ getopt_ln = -1 => nopts = 0
  /\ getopt_ln # -1 => TableAt(getopt_ln)
  /\ ~initialized => cl_pc = "getopt" /\ seen = <<>> /\ argv = <<>> /\ optind = 1 /\ packedopts = 0
  /\ cl_pc # "abort"

LEMMA CLInitTable == CLInit => CLTypes /\ TableInv
<1> SUFFICES ASSUME CLInit PROVE CLTypes /\ TableInv
  OBVIOUS
<1>1. <<>> \in Seq(Text) /\ Len(<<>>) = 0 /\ <<>> \in Seq({Case(n).os : n \in CaseLines} \X Text)
  OBVIOUS
<1>2. CLTypes
  BY <1>1, Texts DEF CLInit, CLTypes
<1>3. getopt_ln = -1 /\ -1 \in -1..(Default + 1) /\ -1 # Default + 1
  BY DEF CLInit, Default
<1>4. /\ initialized = FALSE /\ nopts = 0 /\ cl_pc = "getopt" /\ seen = <<>> /\ argv = <<>>
      /\ optind = 1 /\ packedopts = 0
  BY DEF CLInit
<1>5. cl_pc # "abort"
  BY <1>4
<1> QED
  BY <1>2, <1>3, <1>4, <1>5, Zenon DEF TableInv

LEMMA RegisterOptTable == ASSUME CLTypes, TableInv, getopt_register_opt PROVE CLTypes' /\ TableInv'
<1> DEFINE n == getopt_ln
<1>1. /\ ~initialized /\ n' = n + 1 /\ Case(n) # NoOpt /\ cl_pc = "getopt"
      /\ cl_pc' = (IF Registrable(n) THEN cl_pc ELSE "abort")
      /\ opts' = [opts EXCEPT ![n] = Case(n)]
      /\ initialized' = initialized /\ nopts' = nopts /\ opt_missing' = opt_missing
      /\ opt_default' = opt_default /\ argv' = argv
      /\ optind' = optind /\ packedopts' = packedopts /\ optarg' = optarg /\ seen' = seen
  BY DEF getopt_register_opt, Jump, Exit
<1>2. n \in Int /\ n \in CaseLines
  BY <1>1, Cases DEF TableInv
<1>3. n \in 0..(Default - 1) /\ n # MissingArg /\ n # Default
  BY <1>2 DEF CaseLines, Default, MissingArg
<1>4. TableAt(n) /\ n \in 0..Default + 1
  BY <1>3 DEF TableInv, Default
<1>5. searchopt(Case(n).os) = opt_default
  <2> DEFINE o == Case(n).os
             c == searchopt(o)
  <2>1. o \in Text
    BY <1>2, CaseForm
  <2>2. Prefixed(o, o)
    <3>1. Len(o) \in Nat
      BY <2>1 DEF Text
    <3> QED
      BY <3>1 DEF Prefixed
  <2>3. \/ c = opt_default
        \/ c \in CaseLines /\ c < n /\ Prefixed(Case(c).os, o)
    BY <1>4, <2>1, SearchIs
  <2>4. c \in CaseLines /\ Prefixed(Case(c).os, o) => c = n
    BY <1>2, <2>2, MatchUnique
  <2> HIDE DEF o, c
  <2>5. c < n => c # n
    BY <1>3
  <2> QED
    BY <2>3, <2>4, <2>5 DEF c, o
<1>6. TableAt(getopt_ln)'
  <2>1. opts = [c \in 0..(Default - 1) |-> IF c < n THEN Case(c) ELSE NoOpt]
    BY <1>4 DEF TableAt
  <2>2. \A c \in 0..(Default - 1) : c < n' <=> c < n \/ c = n
    BY <1>1, <1>3 DEF Default
  <2>3. ~(n < n)
    BY <1>3
  <2>4. [opts EXCEPT ![n] = Case(n)] = [c \in 0..(Default - 1) |-> IF c < n' THEN Case(c) ELSE NoOpt]
    BY <1>3, <2>1, <2>2, <2>3, Zenon
  <2>5. opt_missing = IF n' > MissingArg THEN MissingArg ELSE Default + 1
    BY <1>1, <1>3, <1>4 DEF TableAt, MissingArg
  <2>6. nopts = Default /\ opt_default = Default + 1
    BY <1>4 DEF TableAt
  <2> QED
    BY <1>1, <2>4, <2>5, <2>6, Zenon DEF TableAt
<1>7. n' \in -1..(Default + 1) /\ n' # -1 /\ n' # Default + 1
  BY <1>1, <1>3 DEF Default
<1>8. TableInv'
  <2>1. cl_pc' = "getopt" /\ cl_pc' # "abort"
    <3>1. nopts # 0
      BY <1>4 DEF TableAt, Default
    <3>2. opts[n].os = Null
      <4>1. opts[n] = NoOpt
        BY <1>3, <1>4 DEF TableAt
      <4> QED
        BY <4>1 DEF NoOpt
    <3> QED
      BY <1>1, <1>5, <3>1, <3>2, Zenon DEF Registrable
  <2>2. seen = <<>> /\ argv = <<>> /\ optind = 1 /\ packedopts = 0 /\ initialized \in BOOLEAN
    BY <1>1 DEF TableInv
  <2> QED
    BY <1>1, <1>6, <1>7, <2>1, <2>2, Zenon DEF TableInv
<1> QED
  BY <1>1, <1>8 DEF CLTypes

LEMMA JumpKeeps ==
  ASSUME CLTypes, TableInv, Jump, argv' = argv, initialized' = initialized, cl_pc' = cl_pc,
         getopt_ln # Default, TableAt(getopt_ln)'
  PROVE  CLTypes' /\ TableInv'
<1>1. /\ ~initialized /\ getopt_ln' = getopt_ln + 1 /\ cl_pc = "getopt"
      /\ optind' = optind /\ packedopts' = packedopts /\ optarg' = optarg /\ seen' = seen
  BY DEF Jump
<1>2. getopt_ln \in -1..(Default + 1) /\ getopt_ln # Default + 1
  BY <1>1 DEF TableInv
<1>3. getopt_ln' \in -1..(Default + 1) /\ getopt_ln' # -1 /\ getopt_ln' # Default + 1
  BY <1>1, <1>2 DEF Default
<1>4. seen = <<>> /\ argv = <<>> /\ optind = 1 /\ packedopts = 0 /\ initialized \in BOOLEAN
  BY <1>1 DEF TableInv
<1>5. cl_pc # "abort"
  BY <1>1
<1>6. TableInv'
  BY <1>1, <1>3, <1>4, <1>5, Zenon DEF TableInv
<1> QED
  BY <1>1, <1>6 DEF CLTypes

LEMMA RegisterMissingTable ==
  ASSUME CLTypes, TableInv, getopt_register_missing PROVE CLTypes' /\ TableInv'
<1>1. /\ Jump /\ getopt_ln' = getopt_ln + 1 /\ getopt_ln = MissingArg /\ opt_missing' = getopt_ln
      /\ cl_pc' = cl_pc /\ initialized' = initialized /\ nopts' = nopts /\ opts' = opts
      /\ opt_default' = opt_default /\ argv' = argv
  BY DEF getopt_register_missing, Jump
<1>2. TableAt(getopt_ln) /\ getopt_ln # Default /\ getopt_ln' = 61 /\ MissingArg = 60
  BY <1>1 DEF TableInv, MissingArg, Default
<1>3. TableAt(getopt_ln)'
  <2>1. opts = [c \in 0..(Default - 1) |-> IF c < 60 THEN Case(c) ELSE NoOpt]
    BY <1>1, <1>2 DEF TableAt
  <2>2. \A c \in 0..(Default - 1) : c < 61 => c < 60 \/ c = 60
    BY DEF Default
  <2>3. Case(60) = NoOpt
    BY Cases DEF CaseLines
  <2>4. \A c \in 0..(Default - 1) : c < 60 => c < 61
    BY DEF Default
  <2>5. opts = [c \in 0..(Default - 1) |-> IF c < 61 THEN Case(c) ELSE NoOpt]
    BY <2>1, <2>2, <2>3, <2>4, Zenon
  <2>6. MissingArg = IF 61 > MissingArg THEN MissingArg ELSE Default + 1
    BY <1>2
  <2>7. nopts = Default /\ opt_default = Default + 1
    BY <1>2 DEF TableAt
  <2>8. opt_missing' = IF getopt_ln' > MissingArg THEN MissingArg ELSE Default + 1
    BY <1>1, <1>2, <2>6
  <2>9. opts' = [c \in 0..(Default - 1) |-> IF c < getopt_ln' THEN Case(c) ELSE NoOpt]
    BY <1>1, <1>2, <2>5, ZenonT(60)
  <2> QED
    BY <1>1, <2>7, <2>8, <2>9, Zenon DEF TableAt
<1> QED
  BY <1>1, <1>2, <1>3, JumpKeeps

LEMMA SetRangeTable ==
  ASSUME CLTypes, TableInv, getopt_setrange PROVE CLTypes' /\ TableInv'
<1>1. /\ Jump /\ getopt_ln' = getopt_ln + 1 /\ NoCase /\ nopts = 0
      /\ opts' = [c \in 0..(Default - 1) |-> NoOpt] /\ nopts' = Default
      /\ opt_missing' = Default + 1 /\ opt_default' = Default + 1
      /\ cl_pc' = cl_pc /\ initialized' = initialized /\ argv' = argv
  BY DEF getopt_setrange, Jump
<1>2. getopt_ln = -1 /\ getopt_ln' = 0 /\ getopt_ln # Default
  BY <1>1 DEF TableInv, TableAt, Default
<1>3. TableAt(getopt_ln)'
  <2>1. \A c \in 0..(Default - 1) : ~(c < 0)
    BY DEF Default
  <2>2. opts' = [c \in 0..(Default - 1) |-> IF c < 0 THEN Case(c) ELSE NoOpt]
    BY <1>1, <2>1, Zenon
  <2>3. ~(0 > MissingArg)
    BY DEF MissingArg
  <2> QED
    BY <1>1, <1>2, <2>2, <2>3, Zenon DEF TableAt
<1> QED
  BY <1>1, <1>2, <1>3, JumpKeeps

LEMMA SkipLineTable ==
  ASSUME CLTypes, TableInv, SkipLine PROVE CLTypes' /\ TableInv'
<1> DEFINE n == getopt_ln
<1>1. /\ Jump /\ ~initialized /\ n' = n + 1 /\ NoCase /\ nopts # 0
      /\ cl_pc' = cl_pc /\ initialized' = initialized /\ argv' = argv /\ nopts' = nopts /\ opts' = opts
      /\ opt_missing' = opt_missing /\ opt_default' = opt_default
  BY DEF SkipLine, Jump
<1>2. n # -1 /\ n \in -1..(Default + 1) /\ n # Default + 1
  BY <1>1 DEF TableInv
<1>3. TableAt(n)
  BY <1>2 DEF TableInv
<1>4. n \notin {MissingArg, Default} /\ Case(n) = NoOpt
  BY <1>1 DEF NoCase
<1>5. n \in 0..(Default - 1) /\ n # Default /\ n # MissingArg
  BY <1>2, <1>4 DEF Default
<1>6. TableAt(getopt_ln)'
  <2>1. opts = [c \in 0..(Default - 1) |-> IF c < n THEN Case(c) ELSE NoOpt]
    BY <1>3 DEF TableAt
  <2>2. \A c \in 0..(Default - 1) : c < n' <=> c < n \/ c = n
    BY <1>1, <1>5 DEF Default
  <2>3. opts = [c \in 0..(Default - 1) |-> IF c < n' THEN Case(c) ELSE NoOpt]
    BY <1>4, <2>1, <2>2, Zenon
  <2>4. opt_missing = IF n' > MissingArg THEN MissingArg ELSE Default + 1
    BY <1>1, <1>3, <1>5 DEF TableAt, MissingArg
  <2>5. nopts = Default /\ opt_default = Default + 1
    BY <1>3 DEF TableAt
  <2> QED
    BY <1>1, <2>3, <2>4, <2>5, Zenon DEF TableAt
<1> QED
  BY <1>1, <1>5, <1>6, JumpKeeps

LEMMA RegisteredTable ==
  ASSUME CLTypes, TableInv, Registered PROVE CLTypes' /\ TableInv'
<1> DEFINE n == getopt_ln
<1>1. /\ ~initialized /\ n' = n + 1 /\ n = Default /\ cl_pc = "getopt"
      /\ initialized' = TRUE /\ argv' \in CommandLines
      /\ cl_pc' = cl_pc /\ nopts' = nopts /\ opts' = opts
      /\ opt_missing' = opt_missing /\ opt_default' = opt_default
      /\ optind' = optind /\ packedopts' = packedopts /\ optarg' = optarg /\ seen' = seen
  BY DEF Registered, Jump
<1>2. TableAt(n) /\ packedopts = 0
  BY <1>1 DEF TableInv, Default
<1>3. argv' \in Seq(Text)
  <2>1. argv' \in Seq(Seq(STRING))
    BY <1>1, WordsAssumption
  <2>2. \A w \in Seq(STRING) : w \in Text
    BY DEF Text, Symbol
  <2> QED
    BY <2>1, <2>2
<1>4. n' = 64 /\ Default = 63
  BY <1>1 DEF Default
<1>5. TableAt(getopt_ln)'
  <2>1. \A c \in 0..(Default - 1) : (c < n' <=> c < n)
    BY <1>1, <1>4
  <2>2. opts = [c \in 0..(Default - 1) |-> IF c < n THEN Case(c) ELSE NoOpt]
    BY <1>2 DEF TableAt
  <2>3. opts = [c \in 0..(Default - 1) |-> IF c < n' THEN Case(c) ELSE NoOpt]
    BY <2>1, <2>2, Zenon
  <2>4. opt_missing = IF n' > MissingArg THEN MissingArg ELSE Default + 1
    BY <1>1, <1>2, <1>4 DEF TableAt, MissingArg
  <2>5. nopts = Default /\ opt_default = Default + 1
    BY <1>2 DEF TableAt
  <2> QED
    BY <1>1, <2>3, <2>4, <2>5, Zenon DEF TableAt
<1>6. TableInv'
  <2>1. n' \in -1..(Default + 1) /\ n' = Default + 1 /\ n' # -1
    BY <1>4
  <2>2. cl_pc' # "abort"
    BY <1>1
  <2> QED
    BY <1>1, <1>5, <2>1, <2>2, Zenon DEF TableInv
<1> QED
  BY <1>1, <1>2, <1>3, <1>6 DEF CLTypes

\* Once they are registered the options stay.
LEMMA TableStays ==
  ASSUME TableInv, cl_pc # "getopt" \/ initialized, getopt_ln' = getopt_ln, initialized' = initialized,
         opts' = opts, nopts' = nopts, opt_missing' = opt_missing, opt_default' = opt_default,
         cl_pc' # "abort"
  PROVE  TableInv'
<1>1. initialized /\ initialized \in BOOLEAN
  BY DEF TableInv
<1>2. getopt_ln # -1 => TableAt(getopt_ln)'
  BY Zenon DEF TableInv, TableAt
<1> QED
  BY <1>1, <1>2, Zenon DEF TableInv

\* The reference's options are the cases.
LEMMA OptionsAre ==
  /\ \A c \in CaseLines : /\ Case(c).hasarg => Takes(Case(c).os) /\ ~Flag(Case(c).os)
                          /\ ~Case(c).hasarg => Flag(Case(c).os) /\ ~Takes(Case(c).os)
  /\ \A os : Takes(os) \/ Flag(os) => \E c \in CaseLines : Case(c).os = os
<1>1. \A o : o \in Options <=> \E c \in CaseLines : o = Case(c)
  <2>1. ASSUME NEW c \in CaseLines PROVE Case(c) \in Options
    <3>1. c \in 1..Default
      BY DEF CaseLines, Default
    <3> QED
      BY <3>1, CaseForm DEF Options
  <2>2. ASSUME NEW o \in Options PROVE \E c \in CaseLines : o = Case(c)
    <3>1. PICK c \in 1..Default : o = Case(c) /\ o # NoOpt
      BY DEF Options
    <3>2. c \in CaseLines
      BY <3>1, Cases
    <3> QED
      BY <3>1, <3>2
  <2> QED
    BY <2>1, <2>2
<1>2. \A c, j \in CaseLines : Case(c).os = Case(j).os => c = j
  BY CaseApart
<1>3. \A os : /\ Takes(os) <=> \E c \in CaseLines : Case(c).os = os /\ Case(c).hasarg
              /\ Flag(os) <=> \E c \in CaseLines : Case(c).os = os /\ ~Case(c).hasarg
  BY <1>1, Zenon DEF Takes, Flag
<1>4. ASSUME NEW c \in CaseLines, Case(c).hasarg PROVE Takes(Case(c).os) /\ ~Flag(Case(c).os)
  <2>1. \A j \in CaseLines : Case(j).os = Case(c).os => Case(j).hasarg
    BY <1>2, <1>4, Zenon
  <2> QED
    BY <1>3, <1>4, <2>1, Zenon
<1>5. ASSUME NEW c \in CaseLines, ~Case(c).hasarg PROVE Flag(Case(c).os) /\ ~Takes(Case(c).os)
  <2>1. \A j \in CaseLines : Case(j).os = Case(c).os => ~Case(j).hasarg
    BY <1>2, <1>5, Zenon
  <2> QED
    BY <1>3, <1>5, <2>1, Zenon
<1>6. \A os : Takes(os) \/ Flag(os) => \E c \in CaseLines : Case(c).os = os
  BY <1>3, Zenon
<1> QED
  BY <1>4, <1>5, <1>6, Zenon

\* What is left to read, from the place at in the word ind.
LeftPacked(at, ind) == IF at # 0 THEN From(argv[ind], at) ELSE <<>>
LeftRest(at, ind) == IF at # 0 THEN From(argv, ind + 1) ELSE From(argv, ind)
Place(at, ind) ==
  /\ ind \in Nat \ {0} /\ at \in Nat
  /\ at # 0 => ind <= Len(argv) /\ at <= Len(argv[ind])

\* What getopt found is what o says.
FoundIs(o, c, arg, at, ind) ==
  \/ /\ o.is = "option" /\ c \in CaseLines /\ o.os = Case(c).os /\ o.arg = arg
     /\ o.packed = LeftPacked(at, ind) /\ o.rest = LeftRest(at, ind)
  \/ o.is = "missing" /\ c = opt_missing
  \/ o.is = "illegal" /\ c = opt_default
Found(o) ==
  /\ cl_pc' = "switch" /\ FoundIs(o, opt_found', optarg', packedopts', optind')
  /\ Place(packedopts', optind') /\ optarg' \in Text

\* Fields of what comes next.
LEMMA OptionIs ==
  ASSUME NEW os, NEW arg, NEW packed, NEW rest, NEW o, o = Option(os, arg, packed, rest)
  PROVE  o.is = "option" /\ o.os = os /\ o.arg = arg /\ o.packed = packed /\ o.rest = rest
BY DEF Option
LEMMA EndsIs ==
  ASSUME NEW why, NEW rest, NEW o, o = Ends(why, rest)
  PROVE  o.is = why /\ o.rest = rest
BY DEF Ends

\* An argument that is the next word, if there is one.
LEMMA NextWord ==
  ASSUME CLTypes, NEW c \in CaseLines, NEW ind \in Nat \ {0},
         cl_pc' = "switch", packedopts' = 0,
         IF ind <= Len(argv)
           THEN optarg' = argv[ind] /\ optind' = ind + 1 /\ opt_found' = c
           ELSE optarg' = Null /\ optind' = ind /\ opt_found' = opt_missing
  PROVE  LET rest == From(argv, ind)
         IN Found(IF rest = <<>> THEN Ends("missing", <<>>)
                    ELSE Option(Case(c).os, Head(rest), <<>>, Tail(rest)))
<1> DEFINE rest == From(argv, ind)
<1>1. argv \in Seq(Text) /\ Len(argv) \in Nat
  BY DEF CLTypes
<1>2. /\ ind > Len(argv) => rest = <<>>
      /\ ind <= Len(argv) => /\ rest # <<>> /\ Head(rest) = argv[ind] /\ argv[ind] \in Text
                             /\ Tail(rest) = From(argv, ind + 1)
  BY <1>1, FromAt
<1>3. /\ ind + 1 \in Nat \ {0} /\ 0 \in Nat
      /\ ind > Len(argv) \/ ind <= Len(argv)
      /\ ~(ind > Len(argv) /\ ind <= Len(argv))
  BY <1>1
<1> HIDE DEF rest
<1>4. CASE ind <= Len(argv)
  <2> DEFINE o == Option(Case(c).os, Head(rest), <<>>, Tail(rest))
  <2>1. /\ o.is = "option" /\ o.os = Case(c).os /\ o.arg = argv[ind] /\ o.packed = <<>>
        /\ o.rest = From(argv, ind + 1)
    <3>1. /\ o.is = "option" /\ o.os = Case(c).os /\ o.arg = Head(rest) /\ o.packed = <<>>
          /\ o.rest = Tail(rest)
      BY DEF Option
    <3> QED
      BY <1>2, <1>4, <3>1, Zenon
  <2> HIDE DEF o
  <2>2. FoundIs(o, c, argv[ind], 0, ind + 1)
    BY <2>1, Zenon DEF FoundIs, LeftPacked, LeftRest
  <2>3. Place(0, ind + 1)
    BY <1>3, Zenon DEF Place
  <2>4. Found(o)
    BY <1>2, <1>4, <2>2, <2>3, Zenon DEF Found
  <2> QED
    BY <1>2, <1>4, <2>4, Zenon DEF o, rest
<1>5. CASE ind > Len(argv)
  <2>1. /\ optarg' = Null /\ optind' = ind /\ opt_found' = opt_missing
    BY <1>3, <1>5
  <2>2. FoundIs(Ends("missing", <<>>), opt_missing, Null, 0, ind)
    BY EndsIs, Zenon DEF FoundIs
  <2>3. Place(0, ind)
    BY <1>3, Zenon DEF Place
  <2>4. Found(Ends("missing", <<>>))
    BY <2>1, <2>2, <2>3, Texts, Zenon DEF Found
  <2> QED
    BY <1>2, <1>5, <2>4, Zenon DEF rest
<1> QED
  BY <1>3, <1>4, <1>5

LEMMA ShortMatch ==
  ASSUME NEW c \in CaseLines, NEW x \in Symbol
  PROVE  Prefixed(Case(c).os, <<"-", x>>) <=> Case(c).os = <<"-", x>>
<1> DEFINE o == Case(c).os
           os == <<"-", x>>
<1>1. o \in Text /\ (Short(o) \/ LongName(o))
  BY CaseForm
<1>2. os \in Text /\ Len(os) = 2
  BY Texts
<1> HIDE DEF o, os
<1>3. ASSUME Prefixed(o, os) PROVE o = os
  <2>1. Len(o) = 2 /\ \A k \in 1..2 : o[k] = os[k]
    BY <1>1, <1>2, <1>3 DEF Prefixed, Short, LongName
  <2> QED
    BY <1>1, <1>2, <2>1 DEF Text
<1>4. Prefixed(os, os)
  BY <1>2 DEF Prefixed
<1> QED
  BY <1>3, <1>4 DEF o, os

\* A short option, with at and ind behind it.
LEMMA ShortFound ==
  ASSUME CLTypes, TableAt(Default + 1), NEW at, NEW ind, Place(at, ind), NEW x \in Symbol,
         ReturnOption(<<"-", x>>, at, ind)
  PROVE  Found(Packed(<<"-", x>>, LeftPacked(at, ind), LeftRest(at, ind)))
<1> DEFINE os == <<"-", x>>
           c == searchopt(os)
           more == LeftPacked(at, ind)
           rest == LeftRest(at, ind)
           o == Packed(os, more, rest)
<1>1. os \in Text /\ Len(os) = 2
  BY Texts
<1>2. Default + 1 \in 0..Default + 1 /\ \A k \in CaseLines : k < Default + 1
  BY DEF Default, CaseLines
<1>3. \/ c = opt_default /\ \A k \in CaseLines : Case(k).os # os
      \/ c \in CaseLines /\ Case(c).os = os /\ opts[c] = Case(c) /\ c # opt_default
  BY <1>1, <1>2, SearchIs, ShortMatch
<1>4. /\ cl_pc' = "switch"
      /\ IF c # opt_default /\ opts[c].hasarg
           THEN TakeArgument(c, os, at, ind)
           ELSE /\ optarg' = Null /\ packedopts' = at /\ optind' = ind
                /\ opt_found' = IF c = opt_default \/ Len(os) > Len(opts[c].os) THEN opt_default ELSE c
  BY Zenon DEF ReturnOption, Exit
<1>5. /\ at \in Nat /\ ind \in Nat \ {0} /\ argv \in Seq(Text) /\ Len(argv) \in Nat
      /\ at # 0 => ind <= Len(argv) /\ at <= Len(argv[ind])
  BY DEF Place, CLTypes
<1> HIDE DEF os, c
<1>6. CASE c = opt_default /\ \A k \in CaseLines : Case(k).os # os
  <2>1. ~Takes(os) /\ ~Flag(os)
    BY <1>6, OptionsAre
  <2>2. o = Ends("illegal", <<>>)
    BY <2>1 DEF Packed
  <2>3. /\ optarg' = Null /\ packedopts' = at /\ optind' = ind /\ opt_found' = opt_default
    BY <1>4, <1>6
  <2>4. FoundIs(o, opt_default, Null, at, ind)
    <3> HIDE DEF o
    <3>1. o.is = "illegal"
      BY <2>2 DEF Ends
    <3> QED
      BY <3>1, Zenon DEF FoundIs
  <2> QED
    BY <1>4, <2>3, <2>4, Texts, Zenon DEF Found, os
<1>7. CASE c \in CaseLines /\ Case(c).os = os /\ opts[c] = Case(c) /\ c # opt_default
  <2>1. CASE ~Case(c).hasarg
    <3>1. Flag(os)
      BY <1>7, <2>1, OptionsAre
    <3>2. o = Option(os, Null, more, rest)
      BY <3>1 DEF Packed
    <3>3. ~(Len(os) > Len(os))
      BY <1>1
    <3>4. optarg' = Null /\ packedopts' = at /\ optind' = ind /\ opt_found' = c
      BY <1>4, <1>7, <2>1, <3>3, Zenon
    <3>5. FoundIs(o, c, Null, at, ind)
      <4> HIDE DEF o, more, rest
      <4>1. o.is = "option" /\ o.os = os /\ o.arg = Null /\ o.packed = more /\ o.rest = rest
        BY <3>2 DEF Option
      <4> QED
        BY <1>7, <4>1, Zenon DEF FoundIs, more, rest
    <3> QED
      BY <1>4, <3>4, <3>5, Texts, Zenon DEF Found, os
  <2>2. CASE Case(c).hasarg
    <3>1. Takes(os) /\ ~Flag(os)
      BY <1>7, <2>2, OptionsAre
    <3>2. TakeArgument(c, os, at, ind)
      BY <1>4, <1>7, <2>2, Zenon
    <3>3. ~(Len(os) > Len(os))
      BY <1>1
    <3>4. o = IF more # <<>> THEN Option(os, more, <<>>, rest)
              ELSE IF rest = <<>> THEN Ends("missing", <<>>)
              ELSE Option(os, Head(rest), <<>>, Tail(rest))
      BY <3>1, Zenon DEF Packed
    <3>5. CASE at # 0
      <4>1. argv[ind] \in Text
        BY <1>5, <3>5
      <4>2. From(argv[ind], at) # <<>> /\ From(argv[ind], at) \in Text
        BY <1>5, <3>5, <4>1, FromAt DEF Text
      <4>3. more = From(argv[ind], at) /\ rest = From(argv, ind + 1)
        BY <3>5, Zenon DEF LeftPacked, LeftRest
      <4>4. o = Option(os, From(argv[ind], at), <<>>, From(argv, ind + 1))
        BY <3>4, <4>2, <4>3, Zenon
      <4>5. packedopts' = 0 /\ optarg' = From(argv[ind], at) /\ optind' = ind + 1 /\ opt_found' = c
        BY <3>2, <3>5, Zenon DEF TakeArgument, RestOf
      <4>6. FoundIs(o, c, From(argv[ind], at), 0, ind + 1)
        <5> DEFINE arg == From(argv[ind], at)
                   after == From(argv, ind + 1)
        <5> HIDE DEF o, arg, after
        <5>1. o.is = "option" /\ o.os = os /\ o.arg = arg /\ o.packed = <<>> /\ o.rest = after
          BY <4>4 DEF Option, arg, after
        <5> QED
          BY <1>7, <5>1, Zenon DEF FoundIs, LeftPacked, LeftRest, arg, after
      <4>7. Place(0, ind + 1)
        BY <1>5 DEF Place
      <4> QED
        BY <1>4, <4>2, <4>5, <4>6, <4>7, Zenon DEF Found, os
    <3>6. CASE at = 0
      <4>1. more = <<>> /\ rest = From(argv, ind)
        BY <3>6, Zenon DEF LeftPacked, LeftRest
      <4>2. /\ packedopts' = 0
            /\ IF ind <= Len(argv)
                 THEN optarg' = argv[ind] /\ optind' = ind + 1 /\ opt_found' = c
                 ELSE optarg' = Null /\ optind' = ind /\ opt_found' = opt_missing
        BY <1>7, <3>2, <3>3, <3>6, Zenon DEF TakeArgument
      <4>3. Found(IF From(argv, ind) = <<>> THEN Ends("missing", <<>>)
                  ELSE Option(Case(c).os, Head(From(argv, ind)), <<>>, Tail(From(argv, ind))))
        BY <1>4, <1>5, <1>7, <4>2, NextWord
      <4> QED
        BY <1>7, <3>4, <4>1, <4>3, Zenon DEF os
    <3> QED
      BY <3>5, <3>6
  <2> QED
    BY <2>1, <2>2
<1> QED
  BY <1>3, <1>6, <1>7

\* A match of a long option is up to the "=", or is the word.
LEMMA LongMatch ==
  ASSUME NEW c \in CaseLines, NEW word \in Text, IsLong(word), Prefixed(Case(c).os, word)
  PROVE  /\ Case(c).hasarg /\ Len(Case(c).os) = 3 /\ Case(c).os = SubSeq(word, 1, 3)
         /\ Len(word) = 3 => word = Case(c).os /\ Equals(word) = {}
         /\ Len(word) > 3 => Equals(word) # {} /\ Min(Equals(word)) = 4
<1> DEFINE o == Case(c).os
<1>1. o \in Text /\ (Short(o) \/ (LongName(o) /\ Case(c).hasarg))
  BY CaseForm
<1>2. Len(word) \in Nat /\ word[2] = "-"
  BY DEF IsLong, Text
<1> HIDE DEF o
<1>3. /\ Len(o) <= Len(word) /\ \A k \in 1..Len(o) : o[k] = word[k]
      /\ Len(word) > Len(o) => word[Len(o) + 1] = "="
  BY DEF Prefixed, o
<1>4. LongName(o) /\ Case(c).hasarg
  <2>1. o[2] = "-"
    BY <1>1, <1>2, <1>3 DEF Short, LongName
  <2> QED
    BY <1>1, <2>1 DEF Short
<1>5. Len(o) = 3 /\ word[3] # "="
  BY <1>3, <1>4 DEF LongName
<1>6. o = SubSeq(word, 1, 3)
  <2>1. /\ SubSeq(word, 1, 3) \in Text /\ Len(SubSeq(word, 1, 3)) = 3
        /\ \A k \in 1..3 : SubSeq(word, 1, 3)[k] = word[k]
    BY <1>2, <1>3, <1>5 DEF Text
  <2> QED
    BY <1>1, <1>3, <1>5, <2>1 DEF Text
<1>7. Len(word) = 3 => word = o /\ Equals(word) = {}
  <2>1. Len(word) = 3 => word = o
    BY <1>1, <1>3, <1>5 DEF Text
  <2>2. Len(word) = 3 => Equals(word) = {}
    <3>1. \A k \in 3..3 : k = 3
      OBVIOUS
    <3> QED
      BY <1>5, <3>1 DEF Equals
  <2> QED
    BY <2>1, <2>2
<1>8. ASSUME Len(word) > 3 PROVE Equals(word) # {} /\ Min(Equals(word)) = 4
  <2>1. 4 \in Equals(word)
    BY <1>2, <1>3, <1>5, <1>8 DEF Equals
  <2>2. \A k \in Equals(word) : k \in Int /\ k >= 3 /\ k # 3
    BY <1>2, <1>5 DEF Equals
  <2>3. Equals(word) \subseteq Int /\ \A k \in Equals(word) : 4 <= k
    BY <2>2
  <2> QED
    BY <2>1, <2>3, MinIs
<1> QED
  BY <1>4, <1>5, <1>6, <1>7, <1>8 DEF o

LEMMA LongNone ==
  ASSUME NEW c \in CaseLines, NEW word \in Text, ~Prefixed(Case(c).os, word)
  PROVE  /\ word # Case(c).os
         /\ Equals(word) # {} => SubSeq(word, 1, Min(Equals(word)) - 1) # Case(c).os
<1> DEFINE o == Case(c).os
           eq == Min(Equals(word))
<1>1. Len(word) \in Nat
  BY DEF Text
<1>2. word # o
  BY <1>1 DEF Prefixed
<1>3. ASSUME Equals(word) # {}, SubSeq(word, 1, eq - 1) = o PROVE FALSE
  <2>1. Equals(word) \subseteq Nat
    BY <1>1 DEF Equals
  <2>2. PICK m \in Equals(word) : \A y \in Equals(word) : m <= y
    BY <1>3, <2>1, LeastMember
  <2>3. eq = m
    BY <2>1, <2>2, MinIs
  <2>4. m \in 3..Len(word) /\ word[m] = "="
    BY <2>2 DEF Equals
  <2> DEFINE p == SubSeq(word, 1, m - 1)
  <2>5. Len(p) = m - 1 /\ \A k \in 1..m - 1 : p[k] = word[k]
    BY <1>1, <2>4 DEF Text
  <2>6. p = o
    BY <1>3, <2>3
  <2> HIDE DEF p
  <2>7. m - 1 <= Len(word) /\ (m - 1) + 1 = m
    BY <1>1, <2>4
  <2>8. Prefixed(p, word)
    BY <2>4, <2>5, <2>7 DEF Prefixed
  <2> QED
    BY <2>6, <2>8
<1> QED
  BY <1>2, <1>3

\* A long option; ind is behind it.
LEMMA LongFound ==
  ASSUME CLTypes, TableAt(Default + 1), NEW ind \in Nat \ {0}, NEW word \in Text, IsLong(word),
         Len(word) # 2, ReturnOption(word, 0, ind)
  PROVE  Found(Long(word, From(argv, ind)))
<1> DEFINE c == searchopt(word)
           rest == From(argv, ind)
           o == Long(word, rest)
           eq == Min(Equals(word))
           name == SubSeq(word, 1, eq - 1)
<1>1. Len(word) = 3 \/ Len(word) > 3
  <2>1. Len(word) \in Nat
    BY DEF Text
  <2>2. Len(word) >= 2
    BY DEF IsLong
  <2>3. \A n \in Nat : n >= 2 /\ n # 2 => n = 3 \/ n > 3
    OBVIOUS
  <2>4. Len(word) # 2
    OBVIOUS
  <2> QED
    BY <2>1, <2>2, <2>3, <2>4, Zenon
<1>2. Default + 1 \in 0..Default + 1 /\ \A k \in CaseLines : k < Default + 1
  BY DEF Default, CaseLines
<1>3. \/ c = opt_default /\ \A k \in CaseLines : ~Prefixed(Case(k).os, word)
      \/ c \in CaseLines /\ Prefixed(Case(c).os, word) /\ opts[c] = Case(c) /\ c # opt_default
  BY <1>2, SearchIs
<1>4. /\ cl_pc' = "switch"
      /\ IF c # opt_default /\ opts[c].hasarg
           THEN TakeArgument(c, word, 0, ind)
           ELSE /\ optarg' = Null /\ packedopts' = 0 /\ optind' = ind
                /\ opt_found' = IF c = opt_default \/ Len(word) > Len(opts[c].os) THEN opt_default ELSE c
  BY Zenon DEF ReturnOption, Exit
<1>5. o = IF Equals(word) # {}
            THEN IF Takes(name) THEN Option(name, From(word, eq + 1), <<>>, rest)
                 ELSE Ends("illegal", <<>>)
          ELSE IF Flag(word) THEN Option(word, Null, <<>>, rest)
          ELSE IF ~Takes(word) THEN Ends("illegal", <<>>)
          ELSE IF rest = <<>> THEN Ends("missing", <<>>)
          ELSE Option(word, Head(rest), <<>>, Tail(rest))
  BY Zenon DEF Long
<1>6. 0 \in Nat /\ Place(0, ind) /\ LeftPacked(0, ind) = <<>> /\ LeftRest(0, ind) = rest
  BY Zenon DEF Place, LeftPacked, LeftRest
<1> HIDE DEF c, o, rest
<1>7. CASE c = opt_default /\ \A k \in CaseLines : ~Prefixed(Case(k).os, word)
  <2>1. ~Takes(word) /\ ~Flag(word)
    BY <1>7, OptionsAre, LongNone
  <2>2. Equals(word) # {} => ~Takes(name)
    <3>1. Equals(word) # {} => \A k \in CaseLines : Case(k).os # name
      BY <1>7, LongNone
    <3> HIDE DEF name
    <3> QED
      BY <3>1, OptionsAre, Zenon
  <2> HIDE DEF name
  <2>3. o = Ends("illegal", <<>>)
    BY <1>5, <2>1, <2>2, Zenon
  <2>4. o.is = "illegal"
    BY <2>3 DEF Ends
  <2>5. optarg' = Null /\ packedopts' = 0 /\ optind' = ind /\ opt_found' = opt_default
    BY <1>4, <1>7, Zenon
  <2>6. FoundIs(o, opt_default, Null, 0, ind)
    BY <2>4, Zenon DEF FoundIs
  <2> QED
    BY <1>4, <1>6, <2>5, <2>6, Texts, Zenon DEF Found, o, rest
<1>8. CASE c \in CaseLines /\ Prefixed(Case(c).os, word) /\ opts[c] = Case(c) /\ c # opt_default
  <2>1. /\ Case(c).hasarg /\ Len(Case(c).os) = 3 /\ Case(c).os = SubSeq(word, 1, 3)
        /\ Len(word) = 3 => word = Case(c).os /\ Equals(word) = {}
        /\ Len(word) > 3 => Equals(word) # {} /\ eq = 4
    BY <1>8, LongMatch
  <2>2. TakeArgument(c, word, 0, ind)
    BY <1>4, <1>8, <2>1, Zenon
  <2>3. Takes(Case(c).os) /\ ~Flag(Case(c).os)
    BY <1>8, <2>1, OptionsAre
  <2>4. CASE Len(word) > 3
    <3> DEFINE arg == From(word, 5)
    <3>1. eq + 1 = 5 /\ eq - 1 = 3 /\ Equals(word) # {}
      BY <2>1, <2>4
    <3>2. name = Case(c).os
      BY <2>1, <3>1
    <3> HIDE DEF name, eq
    <3>3. o = Option(Case(c).os, arg, <<>>, rest)
      BY <1>5, <2>3, <3>1, <3>2, Zenon
    <3>4. Len(word) > Len(opts[c].os) /\ Len(opts[c].os) + 2 = 5
      BY <1>8, <2>1, <2>4
    <3>5. packedopts' = 0 /\ optarg' = arg /\ optind' = ind /\ opt_found' = c
      BY <2>2, <3>4, Zenon DEF TakeArgument
    <3>6. arg \in Text
      BY FromAt DEF Text
    <3> HIDE DEF arg
    <3>7. o.is = "option" /\ o.os = Case(c).os /\ o.arg = arg /\ o.packed = <<>> /\ o.rest = rest
      BY <3>3 DEF Option
    <3>8. FoundIs(o, c, arg, 0, ind)
      BY <1>6, <1>8, <3>7, Zenon DEF FoundIs
    <3> QED
      BY <1>4, <1>6, <3>5, <3>6, <3>8, Zenon DEF Found, o, rest
  <2>5. CASE Len(word) = 3
    <3>1. word = Case(c).os /\ Equals(word) = {}
      BY <2>1, <2>5
    <3>2. ~(Len(word) > Len(opts[c].os))
      BY <1>8, <2>1, <2>5
    <3>3. o = IF rest = <<>> THEN Ends("missing", <<>>) ELSE Option(Case(c).os, Head(rest), <<>>, Tail(rest))
      BY <1>5, <2>3, <3>1, Zenon
    <3>4. /\ packedopts' = 0
          /\ IF ind <= Len(argv)
               THEN optarg' = argv[ind] /\ optind' = ind + 1 /\ opt_found' = c
               ELSE optarg' = Null /\ optind' = ind /\ opt_found' = opt_missing
      BY <2>2, <3>2, Zenon DEF TakeArgument
    <3>5. Found(IF From(argv, ind) = <<>> THEN Ends("missing", <<>>)
                ELSE Option(Case(c).os, Head(From(argv, ind)), <<>>, Tail(From(argv, ind))))
      BY <1>4, <1>8, <3>4, NextWord
    <3> QED
      BY <3>3, <3>5, Zenon DEF o, rest
  <2> QED
    BY <1>1, <2>4, <2>5
<1> QED
  BY <1>3, <1>7, <1>8

LEMMA SaidTurns ==
  ASSUME NEW ws, NEW n \in Nat
  PROVE  /\ Said(ws, 0) = [options |-> <<>>, packed |-> <<>>, rest |-> ws]
         /\ Said(ws, n + 1) = ReadOption(Said(ws, n))
<1> DEFINE how == [kind |-> "words"]
           start == [options |-> <<>>, packed |-> <<>>, rest |-> ws]
           D(m) == CHOOSE s : s = [k \in 0..m |->
                     IF k = 0 THEN [options |-> <<>>, packed |-> <<>>, rest |-> ws]
                              ELSE ReadOption(s[k - 1])]
<1>1. \A x, k : Turn(how, x, k) = ReadOption(x)
  BY DEF Turn
<1> HIDE DEF how
<1>2. ASSUME NEW m \in Nat PROVE Taken(D(m), how, start, m) /\ Said(ws, m) = D(m)[m]
  <2>1. PICK g : Taken(g, how, start, m)
    BY Recursion
  <2>2. g = [k \in 0..m |-> IF k = 0 THEN start ELSE ReadOption(g[k - 1])]
    BY <1>1, <2>1, Zenon DEF Taken
  <2>3. D(m) = [k \in 0..m |-> IF k = 0 THEN start ELSE ReadOption(D(m)[k - 1])]
    BY <2>2, Zenon
  <2>4. Said(ws, m) = D(m)[m]
    BY Zenon DEF Said
  <2> HIDE DEF D, start
  <2>5. Taken(D(m), how, start, m)
    BY <1>1, <2>3, Zenon DEF Taken
  <2> QED
    BY <2>4, <2>5
<1> HIDE DEF D, start
<1>3. n + 1 \in Nat /\ n \in 0..(n + 1) /\ n + 1 \in 0..(n + 1) /\ n + 1 # 0 /\ (n + 1) - 1 = n
  OBVIOUS
<1>4. D(n + 1)[n] = D(n)[n]
  BY <1>2, <1>3, SameTurns
<1>5. D(n + 1)[n + 1] = Turn(how, D(n + 1)[n], n + 1)
  BY <1>2, <1>3, Zenon DEF Taken
<1>6. Said(ws, 0) = start
  <2>1. 0 \in Nat /\ 0 \in 0..0
    OBVIOUS
  <2>2. D(0)[0] = start
    BY <1>2, <2>1, Zenon DEF Taken
  <2> QED
    BY <1>2, <2>1, <2>2
<1>7. Said(ws, n + 1) = ReadOption(Said(ws, n))
  BY <1>1, <1>2, <1>3, <1>4, <1>5, Zenon
<1> QED
  BY <1>6, <1>7 DEF start

\* A symbol of a packed word.
LEMMA PackedFound ==
  ASSUME CLTypes, TableAt(Default + 1), optind <= Len(argv), NEW at \in Nat \ {0},
         at <= Len(argv[optind]),
         LET word == argv[optind]
         IN ReturnOption(<<"-", word[at]>>, IF at = Len(word) THEN 0 ELSE at + 1,
                                     IF at = Len(word) THEN optind + 1 ELSE optind)
  PROVE  LET word == argv[optind]
         IN Found(Packed(<<"-", word[at]>>, From(word, at + 1), From(argv, optind + 1)))
<1> DEFINE word == argv[optind]
           at2 == IF at = Len(word) THEN 0 ELSE at + 1
           ind2 == IF at = Len(word) THEN optind + 1 ELSE optind
<1>1. argv \in Seq(Text) /\ Len(argv) \in Nat /\ optind \in Nat \ {0}
  BY DEF CLTypes
<1>2. word \in Text /\ Len(word) \in Nat
  BY <1>1 DEF Text
<1>3. word[at] \in Symbol
  <2>1. at \in 1..Len(word)
    BY <1>2
  <2> QED
    BY <1>2, <2>1 DEF Text
<1>4. at = Len(word) => From(word, at + 1) = <<>>
  <2>1. at = Len(word) => at + 1 > Len(word) /\ at + 1 \in Nat \ {0}
    BY <1>2
  <2> QED
    BY <1>2, <2>1, FromAt DEF Text
<1>5. ReturnOption(<<"-", word[at]>>, at2, ind2)
  BY Zenon
<1>6. Place(at2, ind2) /\ (at = Len(word) => at2 = 0 /\ ind2 = optind + 1)
      /\ (at # Len(word) => at2 = at + 1 /\ at2 # 0 /\ ind2 = optind)
  <2>1. CASE at = Len(word)
    <3>1. at2 = 0 /\ ind2 = optind + 1 /\ optind + 1 \in Nat \ {0} /\ 0 \in Nat
      BY <1>1, <2>1
    <3> QED
      BY <2>1, <3>1, Zenon DEF Place
  <2>2. CASE at # Len(word)
    <3>1. at + 1 <= Len(word) /\ at + 1 \in Nat /\ at + 1 # 0
      <4>1. at <= Len(word)
        OBVIOUS
      <4> HIDE DEF word
      <4> QED
        BY <1>2, <2>2, <4>1
    <3>2. at2 = at + 1 /\ ind2 = optind
      BY <2>2
    <3>3. Place(at + 1, optind)
      BY <1>1, <3>1, Zenon DEF Place
    <3> QED
      BY <2>2, <3>1, <3>2, <3>3, Zenon
  <2> QED
    BY <2>1, <2>2
<1>7. LeftPacked(at2, ind2) = From(word, at + 1) /\ LeftRest(at2, ind2) = From(argv, optind + 1)
  <2>1. CASE at = Len(word)
    BY <1>4, <1>6, <2>1, Zenon DEF LeftPacked, LeftRest
  <2>2. CASE at # Len(word)
    BY <1>6, <2>2, Zenon DEF LeftPacked, LeftRest
  <2> QED
    BY <2>1, <2>2
<1> HIDE DEF at2, ind2, word
<1>8. Found(Packed(<<"-", word[at]>>, LeftPacked(at2, ind2), LeftRest(at2, ind2)))
  BY <1>3, <1>5, <1>6, ShortFound, Zenon
<1> QED
  BY <1>7, <1>8, Zenon DEF word

\* What getopt finds is what the words say.
NoMore(o) ==
  /\ cl_pc' = "parsed" /\ o.is = "parsed" /\ o.rest = From(argv, optind')
  /\ optind' \in Nat \ {0} /\ optarg' = Null /\ packedopts = 0 /\ packedopts' = 0

LEMMA GetoptFinds ==
  ASSUME CLTypes, TableAt(Default + 1), getopt
  PROVE  LET o == NextOption(LeftPacked(packedopts, optind), LeftRest(packedopts, optind))
         IN Found(o) \/ NoMore(o)
<1> DEFINE word == argv[optind]
           rest == From(argv, optind)
           next == From(argv, optind + 1)
           at == IF packedopts # 0 THEN packedopts ELSE 2
           o == NextOption(LeftPacked(packedopts, optind), LeftRest(packedopts, optind))
           Reads(k) == ReturnOption(<<"-", word[k]>>, IF k = Len(word) THEN 0 ELSE k + 1,
                                      IF k = Len(word) THEN optind + 1 ELSE optind)
<1>1. /\ argv \in Seq(Text) /\ Len(argv) \in Nat /\ optind \in Nat \ {0} /\ packedopts \in Nat
      /\ packedopts # 0 => optind <= Len(argv) /\ packedopts <= Len(word)
  BY DEF CLTypes
<1>2. /\ optind > Len(argv) => rest = <<>>
      /\ optind <= Len(argv) => rest # <<>> /\ Head(rest) = word /\ word \in Text /\ Tail(rest) = next
  BY <1>1, FromAt
<1>3. /\ optind > Len(argv) => ReturnNull(optind)
      /\ ~(optind > Len(argv)) =>
           IF packedopts # 0 \/ IsPacked(word) THEN Reads(at)
           ELSE IF IsLong(word)
             THEN IF Len(word) = 2 THEN ReturnNull(optind + 1) ELSE ReturnOption(word, 0, optind + 1)
           ELSE ReturnNull(optind)
  BY Zenon DEF getopt
<1>4. optind > Len(argv) \/ (optind <= Len(argv) /\ ~(optind > Len(argv)))
  BY <1>1
<1>5. optind + 1 \in Nat \ {0} /\ (optind > Len(argv) => ~(optind <= Len(argv)))
  BY <1>1
<1>6. \A k \in Nat \ {0} : Reads(k) /\ k <= Len(word) /\ optind <= Len(argv) =>
        Found(Packed(<<"-", word[k]>>, From(word, k + 1), next))
  BY PackedFound, Zenon
<1>7. ASSUME NEW n \in Nat \ {0}, NEW r, ReturnNull(n), packedopts = 0, r = From(argv, n),
             o = Ends("parsed", r)
      PROVE  NoMore(o)
  <2>1. o.is = "parsed" /\ o.rest = r
    <3> HIDE DEF o
    <3> QED
      BY <1>7 DEF Ends
  <2>2. cl_pc' = "parsed" /\ optind' = n /\ optarg' = Null /\ packedopts' = packedopts
    BY <1>7 DEF ReturnNull
  <2> HIDE DEF o
  <2> QED
    BY <1>7, <2>1, <2>2, Zenon DEF NoMore
<1>8. packedopts = 0 =>
        o = IF rest = <<>> THEN Ends("parsed", rest)
            ELSE IF Head(rest) = <<"-", "-">> THEN Ends("parsed", Tail(rest))
            ELSE IF IsLong(Head(rest)) THEN Long(Head(rest), Tail(rest))
            ELSE IF IsPacked(Head(rest))
              THEN Packed(<<"-", Head(rest)[2]>>, From(Head(rest), 3), Tail(rest))
            ELSE Ends("parsed", rest)
  BY Zenon DEF NextOption, LeftPacked, LeftRest
<1>9. CASE packedopts # 0
  <2> DEFINE left == From(word, packedopts)
  <2>1. optind <= Len(argv) /\ word \in Text /\ packedopts <= Len(word)
    BY <1>1, <1>2, <1>9
  <2>2. left # <<>> /\ Head(left) = word[packedopts] /\ Tail(left) = From(word, packedopts + 1)
    BY <1>1, <1>9, <2>1, FromAt DEF Text
  <2>3. LeftPacked(packedopts, optind) = left /\ LeftRest(packedopts, optind) = next
    BY <1>9, Zenon DEF LeftPacked, LeftRest
  <2>4. o = Packed(<<"-", Head(left)>>, Tail(left), next)
    BY <2>2, <2>3, Zenon DEF NextOption
  <2>5. at = packedopts
    BY <1>9
  <2> HIDE DEF Reads, o, left, at
  <2>6. Reads(packedopts)
    BY <1>3, <1>5, <1>9, <2>1, <2>5, Zenon
  <2>7. Found(Packed(<<"-", word[packedopts]>>, From(word, packedopts + 1), next))
    BY <1>1, <1>6, <1>9, <2>1, <2>6
  <2> QED
    BY <2>2, <2>4, <2>7, Zenon DEF o
<1>10. CASE packedopts = 0 /\ optind > Len(argv)
  <2>1. o = Ends("parsed", rest)
    BY <1>2, <1>8, <1>10, Zenon
  <2> QED
    BY <1>1, <1>3, <1>7, <1>10, <2>1, Zenon
<1>11. CASE packedopts = 0 /\ optind <= Len(argv)
  <2>1. /\ ~(optind > Len(argv)) /\ rest # <<>> /\ Head(rest) = word /\ word \in Text /\ Tail(rest) = next
        /\ Len(word) \in Nat
    BY <1>1, <1>2, <1>11 DEF Text
  <2>2. at = 2
    BY <1>11
  <2> HIDE DEF at, Reads, o
  <2>3. o = IF word = <<"-", "-">> THEN Ends("parsed", next)
            ELSE IF IsLong(word) THEN Long(word, next)
            ELSE IF IsPacked(word) THEN Packed(<<"-", word[2]>>, From(word, 3), next)
            ELSE Ends("parsed", rest)
    BY <1>8, <1>11, <2>1, Zenon
  <2>4. IF IsPacked(word) THEN Reads(2)
        ELSE IF IsLong(word)
          THEN IF Len(word) = 2 THEN ReturnNull(optind + 1) ELSE ReturnOption(word, 0, optind + 1)
        ELSE ReturnNull(optind)
    BY <1>3, <1>11, <2>1, <2>2, Zenon
  <2>5. IsPacked(word) => ~IsLong(word) /\ word # <<"-", "-">> /\ 2 <= Len(word)
    BY DEF IsPacked, IsLong
  <2>6. word = <<"-", "-">> => IsLong(word) /\ Len(word) = 2
    BY DEF IsLong
  <2>7. IsLong(word) /\ Len(word) = 2 => word = <<"-", "-">>
    <3>1. <<"-", "-">> \in Text
      BY Texts DEF Symbol
    <3> HIDE DEF word
    <3>2. ASSUME IsLong(word), Len(word) = 2 PROVE word = <<"-", "-">>
      BY <2>1, <3>1, <3>2 DEF IsLong, Text
    <3> QED
      BY <3>2
  <2>8. CASE IsPacked(word)
    <3>1. 2 \in Nat \ {0} /\ 2 + 1 = 3 /\ 2 <= Len(word)
      BY <2>5, <2>8
    <3>2. Reads(2)
      BY <2>4, <2>8, Zenon
    <3>3. Found(Packed(<<"-", word[2]>>, From(word, 3), next))
      BY <1>6, <1>11, <3>1, <3>2
    <3> QED
      BY <2>3, <2>5, <2>8, <3>3, Zenon DEF o
  <2>9. CASE IsLong(word) /\ Len(word) = 2
    <3>1. ReturnNull(optind + 1) /\ o = Ends("parsed", next)
      BY <2>3, <2>4, <2>5, <2>7, <2>9, Zenon
    <3> QED
      BY <1>5, <1>7, <1>11, <3>1, Zenon DEF o
  <2>10. CASE IsLong(word) /\ Len(word) # 2
    <3>1. ReturnOption(word, 0, optind + 1) /\ o = Long(word, next)
      BY <2>3, <2>4, <2>5, <2>6, <2>10, Zenon
    <3>2. Found(Long(word, next))
      BY <1>5, <2>1, <2>10, <3>1, LongFound
    <3> QED
      BY <3>1, <3>2, Zenon DEF o
  <2>11. CASE ~IsPacked(word) /\ ~IsLong(word)
    <3>1. ReturnNull(optind) /\ o = Ends("parsed", rest)
      BY <2>3, <2>4, <2>6, <2>11, Zenon
    <3> QED
      BY <1>1, <1>7, <1>11, <3>1, Zenon DEF o
  <2> QED
    BY <2>8, <2>9, <2>10, <2>11
<1> QED
  BY <1>4, <1>9, <1>10, <1>11

(***************************************************************************)
(* What getopt read, what it found, and what main made of it.              *)
(***************************************************************************)
Reader == Said(argv, Len(seen))
Upcoming == NextOption(Reader.packed, Reader.rest)
Refusals == {"bad_number", "bad_size", "bad_entry", "two_passphrases"}
ReadInv ==
  /\ cl_pc \in {"getopt", "switch", "parsed", "missing", "illegal"} \cup Refusals => seen = Reader.options
  /\ cl_pc = "getopt" => /\ Reader.packed = LeftPacked(packedopts, optind)
                         /\ Reader.rest = LeftRest(packedopts, optind)
  /\ cl_pc = "switch" => FoundIs(Upcoming, opt_found, optarg, packedopts, optind)
  /\ cl_pc \in {"missing", "illegal"} => Upcoming.is = cl_pc
  /\ cl_pc = "parsed" => Upcoming.is = "parsed" /\ Upcoming.rest = From(argv, optind)

\* The settings, and that -m 0 does not get past the checks.
SetInv == /\ set \in Settings
          /\ cl_pc \in {"enc", "dec", "info"} => set.maxmemfrac # 0
          /\ mode \in {"enc", "dec", "info"}

CLInv == CLTypes /\ TableInv /\ ReadInv /\ SetInv /\ SizeIsExact

LEMMA AsWritten == ASSUME TableInv, ReadInv PROVE OptionsAsWritten
BY Zenon DEF TableInv, ReadInv, OptionsAsWritten, Reader, Upcoming, Refusals

\* Before the first option.
LEMMA NothingRead ==
  ASSUME NEW ws \in Seq(Text)
  PROVE  /\ Said(ws, Len(<<>>)).options = <<>> /\ Said(ws, Len(<<>>)).packed = <<>>
         /\ Said(ws, Len(<<>>)).rest = ws /\ From(ws, 1) = ws
<1>1. Said(ws, 0) = [options |-> <<>>, packed |-> <<>>, rest |-> ws]
  BY SaidTurns
<1>2. Len(<<>>) = 0 /\ 1 \in Nat \ {0}
  OBVIOUS
<1>3. From(ws, 1) = ws
  BY <1>2, FromAt
<1> HIDE DEF From
<1> QED
  BY <1>1, <1>2, <1>3

LEMMA DefaultsTyped ==
  ASSUME NEW m \in {"enc", "dec", "info"}
  PROVE  Defaults(m) \in Settings
BY DEF Defaults, Settings, Entries

LEMMA CLInitInvariant == CLInit => CLInv
<1> SUFFICES ASSUME CLInit PROVE CLInv
  OBVIOUS
<1>1. /\ cl_pc = "getopt" /\ mode \in {"enc", "dec", "info"} /\ argv = <<>> /\ optind = 1 /\ packedopts = 0
      /\ seen = <<>> /\ set = Defaults(mode)
  BY DEF CLInit
<1>2. CLTypes /\ TableInv
  BY CLInitTable
<1>3. ReadInv
  <2>1. <<>> \in Seq(Text)
    OBVIOUS
  <2>2. seen = Reader.options /\ Reader.packed = <<>> /\ Reader.rest = From(argv, optind)
    BY <1>1, <2>1, NothingRead, Zenon DEF Reader
  <2>3. cl_pc \notin {"switch", "missing", "illegal", "parsed"}
    BY <1>1
  <2> QED
    BY <1>1, <2>2, <2>3, Zenon DEF ReadInv, LeftPacked, LeftRest
<1>4. SetInv
  <2>1. cl_pc \notin {"enc", "dec", "info"}
    BY <1>1
  <2> QED
    BY <1>1, <2>1, DefaultsTyped, Zenon DEF SetInv
<1>5. SizeIsExact
  BY <1>1, Zenon DEF SizeIsExact
<1> QED
  BY <1>2, <1>3, <1>4, <1>5 DEF CLInv

\* The lines that are visited before the words are read.
LEMMA JumpInvariant ==
  ASSUME CLInv, Jump, CLTypes', TableInv',
         argv' = argv \/ argv' \in Seq(Text), cl_pc' = cl_pc \/ cl_pc' = "abort"
  PROVE  CLInv'
<1>1. /\ ~initialized /\ cl_pc = "getopt"
      /\ optind' = optind /\ packedopts' = packedopts /\ seen' = seen /\ set' = set /\ mode' = mode
  BY DEF Jump
<1>2. /\ cl_pc' = "getopt" /\ seen = <<>> /\ optind = 1 /\ packedopts = 0 /\ argv \in Seq(Text)
  BY <1>1 DEF CLInv, TableInv, CLTypes
<1>3. argv' \in Seq(Text)
  BY <1>2
<1>4. ReadInv'
  <2>1. /\ (seen = Reader.options /\ Reader.packed = <<>> /\ Reader.rest = From(argv, optind))'
    BY <1>1, <1>2, <1>3, NothingRead, Zenon DEF Reader
  <2>2. cl_pc' \notin {"switch", "missing", "illegal", "parsed"}
    BY <1>2
  <2> QED
    BY <1>1, <1>2, <2>1, <2>2, Zenon DEF ReadInv, LeftPacked, LeftRest
<1>5. SetInv'
  <2>1. cl_pc' \notin {"enc", "dec", "info"}
    BY <1>2
  <2> QED
    BY <1>1, <2>1, Zenon DEF SetInv, CLInv
<1>6. SizeIsExact'
  BY <1>1, <1>2, Zenon DEF SizeIsExact
<1> QED
  BY <1>4, <1>5, <1>6 DEF CLInv

LEMMA RegisterInvariant ==
  ASSUME CLInv,
         \/ getopt_register_opt \/ getopt_register_missing \/ getopt_setrange
         \/ SkipLine \/ Registered
  PROVE  CLInv'
<1>1. CLTypes /\ TableInv
  BY DEF CLInv
<1>2. CLTypes' /\ TableInv'
  BY <1>1, RegisterOptTable, RegisterMissingTable, SetRangeTable, SkipLineTable,
     RegisteredTable
<1>3. Jump /\ (cl_pc' = cl_pc \/ cl_pc' = "abort")
  BY DEF getopt_register_opt, getopt_register_missing, getopt_setrange, SkipLine,
     Registered, Exit
<1>4. argv' \in Seq(Text)
  BY <1>2 DEF CLTypes
<1> QED
  BY <1>2, <1>3, <1>4, JumpInvariant

\* A call of getopt.
LEMMA GetoptInvariant ==
  ASSUME CLInv, getopt
  PROVE  CLInv'
<1> DEFINE o == NextOption(LeftPacked(packedopts, optind), LeftRest(packedopts, optind))
<1>1. CLTypes /\ TableInv /\ ReadInv /\ SetInv /\ SizeIsExact
  BY DEF CLInv
<1>2. /\ cl_pc = "getopt" /\ initialized /\ mode' = mode /\ argv' = argv /\ set' = set /\ seen' = seen
      /\ getopt_ln' = getopt_ln /\ initialized' = initialized /\ opts' = opts /\ nopts' = nopts
      /\ opt_missing' = opt_missing /\ opt_default' = opt_default
  BY DEF getopt, parser
<1>3. TableAt(Default + 1)
  <2>1. getopt_ln = Default + 1
    BY <1>1, <1>2, Zenon DEF TableInv
  <2>2. Default + 1 # -1
    BY DEF Default
  <2> QED
    BY <1>1, <2>1, <2>2, Zenon DEF TableInv
<1>4. Found(o) \/ NoMore(o)
  BY <1>1, <1>3, GetoptFinds
<1>5. Upcoming = o /\ seen = Reader.options
  BY <1>1, <1>2, Zenon DEF ReadInv, Upcoming
<1>6. Upcoming' = o /\ seen' = Reader'.options
  BY <1>2, <1>5, Zenon DEF Upcoming, Reader
<1> HIDE DEF o
<1>7. CLTypes'
  <2>1. argv \in Seq(Text) /\ seen \in Seq({Case(n).os : n \in CaseLines} \X Text)
    BY <1>1 DEF CLTypes
  <2>2. optarg' \in Text /\ Place(packedopts', optind')
    <3>1. 0 \in Nat
      OBVIOUS
    <3> QED
      BY <1>4, <3>1, Texts, Zenon DEF Found, NoMore, Place
  <2> QED
    BY <1>2, <2>1, <2>2, Zenon DEF CLTypes, Place
<1>8. cl_pc' \in {"switch", "parsed"}
  BY <1>4 DEF Found, NoMore
<1>9. TableInv'
  <2>1. cl_pc' # "abort"
    BY <1>8
  <2> QED
    BY <1>1, <1>2, <2>1, TableStays
<1>10. ReadInv'
  <2>1. CASE Found(o)
    <3>1. cl_pc' = "switch" /\ FoundIs(o, opt_found', optarg', packedopts', optind')
      BY <2>1 DEF Found
    <3>2. FoundIs(Upcoming, opt_found, optarg, packedopts, optind)'
      BY <1>2, <1>6, <3>1, Zenon DEF FoundIs, LeftPacked, LeftRest
    <3>3. cl_pc' \notin {"getopt", "missing", "illegal", "parsed"}
      BY <3>1
    <3> QED
      BY <1>6, <3>1, <3>2, <3>3, Zenon DEF ReadInv
  <2>2. CASE NoMore(o)
    <3>1. cl_pc' = "parsed" /\ o.is = "parsed" /\ o.rest = From(argv, optind')
      BY <2>2 DEF NoMore
    <3>2. cl_pc' \notin {"getopt", "switch", "missing", "illegal"}
      BY <3>1
    <3>3. (Upcoming.is = "parsed" /\ Upcoming.rest = From(argv, optind))'
      BY <1>2, <1>6, <3>1, Zenon
    <3> QED
      BY <1>6, <3>1, <3>2, <3>3, Zenon DEF ReadInv
  <2> QED
    BY <1>4, <2>1, <2>2
<1>11. SetInv'
  <2>1. cl_pc' \notin {"enc", "dec", "info"}
    BY <1>8
  <2> QED
    BY <1>1, <1>2, <2>1, Zenon DEF SetInv
<1>12. SizeIsExact'
  <2>1. cl_pc' \notin {"bad_size", "getopt"}
    BY <1>8
  <2> QED
    BY <2>1, Zenon DEF SizeIsExact
<1> QED
  BY <1>7, <1>9, <1>10, <1>11, <1>12 DEF CLInv

\* getopt_lookup: an option that reached its case is the one that is said.
LEMMA FoundCase ==
  ASSUME CLInv, cl_pc = "switch"
  PROVE  /\ initialized /\ TableAt(Default + 1)
         /\ opt_found \in CaseLines =>
              /\ Upcoming.is = "option" /\ Upcoming.os = Case(opt_found).os /\ Upcoming.arg = optarg
              /\ Upcoming.packed = LeftPacked(packedopts, optind)
              /\ Upcoming.rest = LeftRest(packedopts, optind)
         /\ opt_found = opt_missing => Upcoming.is = "missing"
         /\ opt_found = opt_default => Upcoming.is = "illegal"
<1>1. TableInv /\ ReadInv
  BY DEF CLInv
<1>2. initialized
  BY <1>1 DEF TableInv
<1>3. TableAt(Default + 1)
  <2>1. getopt_ln = Default + 1
    BY <1>1, <1>2, Zenon DEF TableInv
  <2>2. Default + 1 # -1
    BY DEF Default
  <2> QED
    BY <1>1, <2>1, <2>2, Zenon DEF TableInv
<1>4. opt_missing = MissingArg /\ opt_default = Default + 1
  <2>1. Default + 1 > MissingArg
    BY DEF Default, MissingArg
  <2> QED
    BY <1>3, <2>1 DEF TableAt
<1>5. opt_missing \notin CaseLines /\ opt_default \notin CaseLines /\ opt_missing # opt_default
  BY <1>4 DEF Default, MissingArg, CaseLines
<1>6. FoundIs(Upcoming, opt_found, optarg, packedopts, optind)
  BY <1>1, Zenon DEF ReadInv
<1> QED
  BY <1>2, <1>3, <1>5, <1>6, Zenon DEF FoundIs

\* A case adds the option to what main acted on.
LEMMA CaseReads ==
  ASSUME CLInv, NEW n \in CaseLines, At(n), cl_pc' \in {"getopt"} \cup Refusals,
         getopt_ln' = getopt_ln, initialized' = initialized, opts' = opts, nopts' = nopts,
         opt_missing' = opt_missing, opt_default' = opt_default,
         argv' = argv, optind' = optind, packedopts' = packedopts, optarg' = optarg
  PROVE  /\ CLTypes' /\ TableInv' /\ ReadInv'
         /\ seen' # <<>> /\ seen'[Len(seen')] = <<Case(n).os, optarg>> /\ optarg \in Text
<1> DEFINE said0 == <<Case(n).os, optarg>>
           o == Upcoming
<1>1. CLTypes /\ TableInv /\ ReadInv
  BY DEF CLInv
<1>2. cl_pc = "switch" /\ opt_found = n /\ seen' = Append(seen, said0)
  BY DEF At, getopt_lookup
<1>3. /\ initialized /\ o.is = "option" /\ o.os = Case(n).os /\ o.arg = optarg
      /\ o.packed = LeftPacked(packedopts, optind) /\ o.rest = LeftRest(packedopts, optind)
  BY <1>2, FoundCase, Zenon
<1>4. /\ seen \in Seq({Case(k).os : k \in CaseLines} \X Text) /\ optarg \in Text
      /\ said0 \in {Case(k).os : k \in CaseLines} \X Text
  BY <1>1 DEF CLTypes
<1> HIDE DEF said0
<1>5. /\ seen' \in Seq({Case(k).os : k \in CaseLines} \X Text)
      /\ Len(seen') = Len(seen) + 1 /\ Len(seen) \in Nat /\ seen'[Len(seen')] = said0
  <2> DEFINE T == {Case(k).os : k \in CaseLines} \X Text
  <2> HIDE DEF T
  <2>1. \A s \in Seq(T), e \in T : /\ Append(s, e) \in Seq(T) /\ Len(Append(s, e)) = Len(s) + 1
                                   /\ Len(s) \in Nat /\ Append(s, e)[Len(s) + 1] = e
    OBVIOUS
  <2>2. seen \in Seq(T) /\ said0 \in T
    BY <1>4 DEF T
  <2>3. /\ Append(seen, said0) \in Seq(T) /\ Len(Append(seen, said0)) = Len(seen) + 1
        /\ Len(seen) \in Nat /\ Append(seen, said0)[Len(seen) + 1] = said0
    BY <2>1, <2>2, Zenon
  <2>4. /\ seen' \in Seq(T) /\ Len(seen') = Len(seen) + 1 /\ seen'[Len(seen) + 1] = said0
    BY <1>2, <2>3, Zenon
  <2> QED
    BY <2>3, <2>4, Zenon DEF T
<1>6. seen' # <<>>
  <2>1. Len(<<>>) = 0
    OBVIOUS
  <2>2. Len(seen') # 0
    BY <1>5
  <2> QED
    BY <2>1, <2>2, Zenon
<1>7. CLTypes'
  BY <1>1, <1>5 DEF CLTypes
<1>8. cl_pc' # "abort" /\ cl_pc' \notin {"switch", "parsed", "missing", "illegal"}
  BY DEF Refusals
<1>9. TableInv'
  BY <1>1, <1>2, <1>3, <1>8, TableStays
<1>10. Said(argv, Len(seen) + 1) = ReadOption(Reader)
  BY <1>5, SaidTurns DEF Reader
<1>11. ReadOption(Reader) = [options |-> Append(Reader.options, said0), packed |-> o.packed, rest |-> o.rest]
  BY <1>3, Zenon DEF ReadOption, Upcoming, said0
<1>12. Reader' = [options |-> Append(seen, said0), packed |-> o.packed, rest |-> o.rest]
  <2>1. seen = Reader.options
    BY <1>1, <1>2, Zenon DEF ReadInv
  <2> QED
    BY <1>5, <1>10, <1>11, <2>1, Zenon DEF Reader
<1>13. (Reader.options = seen /\ Reader.packed = LeftPacked(packedopts, optind)
        /\ Reader.rest = LeftRest(packedopts, optind))'
  <2>1. Reader'.options = Append(seen, said0) /\ Reader'.packed = o.packed /\ Reader'.rest = o.rest
    <3> HIDE DEF o
    <3> QED
      BY <1>12
  <2> QED
    BY <1>2, <1>3, <2>1, Zenon DEF LeftPacked, LeftRest
<1>14. ReadInv'
  BY <1>8, <1>13, Zenon DEF ReadInv
<1> QED
  BY <1>4, <1>5, <1>6, <1>7, <1>9, <1>14 DEF said0

\* A case other than that of -M.
LEMMA CaseInvariant ==
  ASSUME CLInv, NEW n \in CaseLines, n # 7, At(n), cl_pc' \in {"getopt"} \cup Refusals,
         set' \in Settings, UNCHANGED <<mode, parser, scan>>
  PROVE  CLInv'
<1>1. /\ getopt_ln' = getopt_ln /\ initialized' = initialized /\ opts' = opts /\ nopts' = nopts
      /\ opt_missing' = opt_missing /\ opt_default' = opt_default /\ mode' = mode
      /\ argv' = argv /\ optind' = optind /\ packedopts' = packedopts /\ optarg' = optarg
  BY DEF parser, scan
<1>2. /\ CLTypes' /\ TableInv' /\ ReadInv'
      /\ seen' # <<>> /\ seen'[Len(seen')] = <<Case(n).os, optarg>> /\ optarg \in Text
  BY <1>1, CaseReads
<1>3. SetInv'
  <2>1. cl_pc' \notin {"enc", "dec", "info"}
    BY DEF Refusals
  <2> QED
    BY <1>1, <2>1, Zenon DEF SetInv, CLInv
<1>4. SizeIsExact'
  <2>1. Case(n).os # <<"-", "M">>
    <3>1. Case(7).os = <<"-", "M">> /\ 7 \in CaseLines
      BY Cases DEF CaseLines
    <3> QED
      BY <3>1, CaseApart
  <2>2. seen'[Len(seen')][1] # <<"-", "M">>
    <3>1. seen'[Len(seen')][1] = Case(n).os
      BY <1>2
    <3> QED
      BY <2>1, <3>1
  <2> QED
    BY <2>2, Zenon DEF SizeIsExact
<1> QED
  BY <1>2, <1>3, <1>4 DEF CLInv

LEMMA CaseFlagInvariant == ASSUME CLInv, CaseFlag PROVE CLInv'
<1>1. set \in Settings
  BY DEF CLInv, SetInv
<1>2. 1 \in CaseLines /\ 48 \in CaseLines /\ 1 # 7 /\ 48 # 7
  BY DEF CaseLines
<1>3. cl_pc' \in {"getopt"} \cup Refusals /\ UNCHANGED <<mode, parser, scan>>
  BY DEF CaseFlag, Break
<1>4. set' \in Settings
  BY <1>1 DEF CaseFlag, Settings
<1> QED
  BY <1>2, <1>3, <1>4, CaseInvariant DEF CaseFlag

LEMMA NumberInvariant ==
  ASSUME CLInv, NEW n \in CaseLines, n # 7, NEW of, NEW min, NEW max, NEW name,
         Number(n, of, min, max, name),
         \A t \in DOMAIN of : of[t] >= min /\ of[t] <= max => [set EXCEPT ![name] = of[t]] \in Settings
  PROVE  CLInv'
<1>1. set \in Settings
  BY DEF CLInv, SetInv
<1>2. /\ At(n)
      /\ \/ ParseNum(of, optarg, min, max) /\ set' = [set EXCEPT ![name] = of[optarg]] /\ Break
         \/ Die("bad_number")
  BY Zenon DEF Number
<1>3. set' \in Settings
  BY <1>1, <1>2, Zenon DEF ParseNum, Die
<1>4. cl_pc' \in {"getopt"} \cup Refusals /\ UNCHANGED <<mode, parser, scan>>
  BY <1>2 DEF Break, Die, Refusals
<1> QED
  BY <1>2, <1>3, <1>4, CaseInvariant

LEMMA CaseNumberInvariant == ASSUME CLInv, CaseNumber PROVE CLInv'
<1>1. set \in Settings
  BY DEF CLInv, SetInv
<1>2. /\ \A x \in Int : /\ [set EXCEPT !["logN"] = x] \in Settings
                        /\ [set EXCEPT !["p"] = x] \in Settings
                        /\ [set EXCEPT !["r"] = x] \in Settings
                        /\ [set EXCEPT !["maxtime"] = x] \in Settings
      /\ \A x \in 0..4 : [set EXCEPT !["maxmemfrac"] = x] \in Settings
  BY <1>1 DEF Settings
<1>3. /\ \A t \in DOMAIN IntOf : IntOf[t] \in Int
      /\ \A t \in DOMAIN FracOf : FracOf[t] \in Int
  BY NumbersAssumption, Zenon
<1>4. \A t \in DOMAIN FracOf : FracOf[t] >= 0 /\ FracOf[t] <= MaxFrac => FracOf[t] \in 0..4
  BY <1>3 DEF MaxFrac
<1>5. 4 \in CaseLines /\ 24 \in CaseLines /\ 39 \in CaseLines /\ 42 \in CaseLines /\ 18 \in CaseLines
      /\ 4 # 7 /\ 24 # 7 /\ 39 # 7 /\ 42 # 7 /\ 18 # 7
  BY DEF CaseLines
<1> DEFINE Stored(name) == \A t \in DOMAIN IntOf : [set EXCEPT ![name] = IntOf[t]] \in Settings
<1>6. Stored("logN") /\ Stored("p") /\ Stored("r") /\ Stored("maxtime")
  BY <1>2, <1>3, Zenon
<1>7. ASSUME NEW n \in CaseLines, n # 7, NEW min, NEW max, NEW name, Stored(name),
              Number(n, IntOf, min, max, name)
       PROVE  CLInv'
  <2>1. \A t \in DOMAIN IntOf :
          IntOf[t] >= min /\ IntOf[t] <= max => [set EXCEPT ![name] = IntOf[t]] \in Settings
    BY <1>7, Zenon
  <2> QED
    BY <1>7, <2>1, NumberInvariant
<1> HIDE DEF Stored
<1>8. CASE Number(4, IntOf, 10, 40, "logN")
  BY <1>5, <1>6, <1>7, <1>8
<1>9. CASE Number(24, IntOf, 1, 2048, "p")
  BY <1>5, <1>6, <1>7, <1>9
<1>10. CASE Number(39, IntOf, 1, 32, "r")
  BY <1>5, <1>6, <1>7, <1>10
<1>11. CASE Number(42, IntOf, 0, Infinity, "maxtime")
  BY <1>5, <1>6, <1>7, <1>11
<1>12. CASE Number(18, FracOf, 0, MaxFrac, "maxmemfrac")
  BY <1>2, <1>4, <1>5, <1>12, NumberInvariant
<1> QED
  BY <1>8, <1>9, <1>10, <1>11, <1>12 DEF CaseNumber

LEMMA EntryTyped == \A text : EntryOf(text) # "invalid" => EntryOf(text) \in Entries
<1> USE DEF Entries
<1> TAKE text
<1>1. DOMAIN entries = {"tty_stdin", "stdin_once", "tty_once"}
  BY DEF entries
<1>2. CASE \E e \in DOMAIN entries : entries[e] = text
  <2>1. EntryOf(text) = CHOOSE e \in DOMAIN entries : entries[e] = text
    BY <1>2, Zenon DEF EntryOf
  <2>2. EntryOf(text) \in DOMAIN entries
    BY <1>2, <2>1, Zenon
  <2> QED
    BY <1>1, <2>2
<1>3. CASE ~ \E e \in DOMAIN entries : entries[e] = text
  <2>1. EntryOf(text) \in {"env", "file", "invalid"}
    BY <1>3, Zenon DEF EntryOf
  <2> QED
    BY <2>1
<1> QED
  BY <1>2, <1>3

LEMMA CasePassphraseInvariant == ASSUME CLInv, CasePassphrase PROVE CLInv'
<1>1. set \in Settings
  BY DEF CLInv, SetInv
<1>2. 27 \in CaseLines /\ 51 \in CaseLines /\ 27 # 7 /\ 51 # 7
  BY DEF CaseLines
<1>3. At(27) \/ At(51)
  BY Zenon DEF CasePassphrase
<1>4. cl_pc' \in {"getopt"} \cup Refusals /\ UNCHANGED <<mode, parser, scan>>
  BY DEF CasePassphrase, Break, Die, Refusals
<1>5. \/ set' = set \/ set' = [set EXCEPT !.entry = "stdin_once"]
      \/ EntryOf(optarg) # "invalid" /\ set' = [set EXCEPT !.entry = EntryOf(optarg)]
  BY Zenon DEF CasePassphrase, Die
<1>6. \A x \in Entries : [set EXCEPT !.entry = x] \in Settings
  BY <1>1 DEF Settings, Entries
<1>7. set' \in Settings
    <2>1. "stdin_once" \in Entries
    BY DEF Entries
  <2> QED
    BY <1>1, <1>5, <1>6, <2>1, EntryTyped, Zenon
<1> QED
  BY <1>2, <1>3, <1>4, <1>7, CaseInvariant

\* -M: what humansize_parse makes of the argument.
LEMMA CaseMaxmemInvariant == ASSUME CLInv, CaseMaxmem PROVE CLInv'
<1> DEFINE size == humansize_parse(optarg)
           refused == size = -1 \/ size > SIZE_MAX
           valid == \E n \in 1..Len(optarg) : IsSize(optarg, n) /\ Product(optarg, n) <= SIZE_MAX
<1>1. /\ At(7)
      /\ IF refused THEN Die("bad_size") ELSE set' = [set EXCEPT !.maxmem = size] /\ Break
  BY Zenon DEF CaseMaxmem
<1>2. optarg \in Seq(Symbol) /\ set \in Settings
  BY DEF CLInv, CLTypes, SetInv, Text
<1>3. /\ refused => ~valid
      /\ ~refused => /\ valid /\ size \in Nat
                     /\ \E n \in 1..Len(optarg) : IsSize(optarg, n) /\ size = Product(optarg, n)
  BY <1>2, ParseExact
<1> HIDE DEF size, refused, valid
<1>4. /\ refused => cl_pc' = "bad_size" /\ set' = set
      /\ ~refused => cl_pc' = "getopt" /\ set' = [set EXCEPT !.maxmem = size]
      /\ getopt_ln' = getopt_ln /\ initialized' = initialized /\ opts' = opts /\ nopts' = nopts
      /\ opt_missing' = opt_missing /\ opt_default' = opt_default /\ mode' = mode
      /\ argv' = argv /\ optind' = optind /\ packedopts' = packedopts /\ optarg' = optarg
  BY <1>1 DEF Die, Break, parser, scan
<1>5. cl_pc' \in {"getopt"} \cup Refusals /\ 7 \in CaseLines
  BY <1>4 DEF Refusals, CaseLines
<1>6. /\ CLTypes' /\ TableInv' /\ ReadInv'
      /\ seen' # <<>> /\ seen'[Len(seen')] = <<Case(7).os, optarg>> /\ optarg \in Text
  BY <1>1, <1>4, <1>5, CaseReads
<1>7. ~refused => set' \in Settings /\ set'.maxmem = size
  BY <1>2, <1>3, <1>4 DEF Settings
<1>8. SetInv'
  <2>1. cl_pc' \notin {"enc", "dec", "info"}
    BY <1>4
  <2> QED
    BY <1>2, <1>4, <1>7, <2>1, Zenon DEF SetInv, CLInv
<1>9. SizeIsExact'
  <2> DEFINE last == seen'[Len(seen')][2]
  <2>1. last = optarg
    BY <1>6
  <2> HIDE DEF last
  <2>2. cl_pc' = "bad_size" => refused
    BY <1>4
  <2>3. cl_pc' = "getopt" => ~refused
    BY <1>4
  <2> DEFINE fits == \E n \in 1..Len(last) : IsSize(last, n) /\
                       Value(last, n) * Multiplier(last, n) <= SIZE_MAX
  <2>4. fits <=> valid
    BY <2>1, Zenon DEF valid, Product
  <2>5. ~refused => \E n \in 1..Len(last) : /\ IsSize(last, n)
                                            /\ set'.maxmem = Value(last, n) * Multiplier(last, n)
    BY <1>3, <1>7, <2>1, Zenon DEF Product
  <2>6. /\ cl_pc' = "bad_size" => ~fits
        /\ cl_pc' = "getopt" => /\ fits
                                /\ \E n \in 1..Len(last) :
                                     /\ IsSize(last, n)
                                     /\ set'.maxmem = Value(last, n) * Multiplier(last, n)
    BY <1>3, <2>2, <2>3, <2>4, <2>5, Zenon
  <2> QED
    BY <2>6, Zenon DEF SizeIsExact, last
<1> QED
  BY <1>6, <1>8, <1>9 DEF CLInv

\* Nothing more is read.
LEMMA ReadingEnds ==
  ASSUME CLInv, cl_pc \in {"switch", "parsed"},
         cl_pc' \notin {"getopt", "switch", "parsed", "bad_size", "abort"},
         getopt_ln' = getopt_ln, initialized' = initialized, opts' = opts, nopts' = nopts,
         opt_missing' = opt_missing, opt_default' = opt_default,
         argv' = argv, optind' = optind, packedopts' = packedopts, optarg' = optarg, seen' = seen
  PROVE  /\ CLTypes' /\ TableInv' /\ SizeIsExact'
         /\ seen = Reader.options /\ Reader' = Reader /\ Upcoming' = Upcoming
<1>1. CLTypes /\ TableInv /\ ReadInv
  BY DEF CLInv
<1>2. CLTypes'
  BY <1>1 DEF CLTypes
<1>3. TableInv'
  BY <1>1, TableStays
<1>4. SizeIsExact'
  BY Zenon DEF SizeIsExact
<1>5. seen = Reader.options
  BY <1>1 DEF ReadInv
<1>6. Reader' = Reader /\ Upcoming' = Upcoming
  BY Zenon DEF Reader, Upcoming
<1> QED
  BY <1>2, <1>3, <1>4, <1>5, <1>6

LEMMA CaseUsageInvariant == ASSUME CLInv, CaseUsage PROVE CLInv'
<1>1. /\ cl_pc = "switch" /\ seen' = seen /\ set' = set /\ mode' = mode
      /\ getopt_ln' = getopt_ln /\ initialized' = initialized /\ opts' = opts /\ nopts' = nopts
      /\ opt_missing' = opt_missing /\ opt_default' = opt_default
      /\ argv' = argv /\ optind' = optind /\ packedopts' = packedopts /\ optarg' = optarg
      /\ \/ opt_found = opt_missing /\ cl_pc' = "missing"
         \/ opt_found = opt_default /\ cl_pc' = "illegal"
  BY DEF CaseUsage, Die, parser, scan
<1>2. cl_pc' \in {"missing", "illegal"}
  BY <1>1
<1>3. /\ CLTypes' /\ TableInv' /\ SizeIsExact'
      /\ seen = Reader.options /\ Reader' = Reader /\ Upcoming' = Upcoming
  BY <1>1, <1>2, ReadingEnds
<1>4. Upcoming.is = cl_pc'
  <2>1. /\ opt_found = opt_missing => Upcoming.is = "missing"
        /\ opt_found = opt_default => Upcoming.is = "illegal"
    BY <1>1, FoundCase, Zenon
  <2>2. CASE opt_found = opt_missing /\ cl_pc' = "missing"
    BY <2>1, <2>2
  <2>3. CASE opt_found = opt_default /\ cl_pc' = "illegal"
    BY <2>1, <2>3
  <2> QED
    BY <1>1, <2>2, <2>3
<1>5. ReadInv'
  <2>1. cl_pc' \notin {"getopt", "switch", "parsed"}
    BY <1>2
  <2> QED
    BY <1>1, <1>3, <1>4, <2>1, Zenon DEF ReadInv
<1>6. SetInv'
  <2>1. cl_pc' \notin {"enc", "dec", "info"}
    BY <1>2
  <2> QED
    BY <1>1, <2>1, Zenon DEF SetInv, CLInv
<1> QED
  BY <1>3, <1>5, <1>6 DEF CLInv

LEMMA ChecksInvariant == ASSUME CLInv, Checks PROVE CLInv'
<1> DEFINE entry == IF set.entry = "UNSET" THEN "tty_stdin" ELSE set.entry
<1>1. SetInv /\ set \in Settings /\ mode \in {"enc", "dec", "info"}
  BY DEF CLInv, SetInv
<1>2. /\ cl_pc = "parsed" /\ seen' = seen /\ mode' = mode
      /\ getopt_ln' = getopt_ln /\ initialized' = initialized /\ opts' = opts /\ nopts' = nopts
      /\ opt_missing' = opt_missing /\ opt_default' = opt_default
      /\ argv' = argv /\ optind' = optind /\ packedopts' = packedopts /\ optarg' = optarg
  BY DEF Checks, parser, scan
<1>3. \/ cl_pc' = "usage" /\ set' = set
      \/ /\ ~Refused(From(argv, optind)) /\ cl_pc' = mode
         /\ set' = [set EXCEPT !.entry = IF @ = "UNSET" THEN "tty_stdin" ELSE @]
  BY DEF Checks
<1>4. cl_pc' \in {"usage", "enc", "dec", "info"}
  BY <1>1, <1>3
<1>5. CLTypes' /\ TableInv' /\ SizeIsExact'
  BY <1>2, <1>4, ReadingEnds
<1>6. ReadInv'
  <2>1. cl_pc' \notin {"getopt", "switch", "parsed", "missing", "illegal"} \cup Refusals
    BY <1>4 DEF Refusals
  <2> QED
    BY <2>1, Zenon DEF ReadInv
<1>7. SetInv'
  <2>1. CASE cl_pc' = "usage" /\ set' = set
    BY <1>1, <1>2, <2>1 DEF SetInv
  <2>2. CASE /\ ~Refused(From(argv, optind)) /\ cl_pc' = mode
             /\ set' = [set EXCEPT !.entry = IF @ = "UNSET" THEN "tty_stdin" ELSE @]
    <3>1. set.maxmemfrac # 0
      BY <2>2, Zenon DEF Refused
    <3>2. set' \in Settings /\ set'.maxmemfrac = set.maxmemfrac
      <4>1. set' = [set EXCEPT !.entry = entry]
        BY <2>2
      <4>2. entry \in {"UNSET"} \cup Entries
        BY <1>1 DEF Settings, Entries
      <4> HIDE DEF entry
      <4> QED
        BY <1>1, <4>1, <4>2 DEF Settings
    <3> QED
      BY <1>1, <1>2, <3>1, <3>2, Zenon DEF SetInv
  <2> QED
    BY <1>3, <2>1, <2>2
<1> QED
  BY <1>5, <1>6, <1>7 DEF CLInv

\* The parser is left.
LEMMA CLDoneInvariant == ASSUME CLInv, cl_pc # "getopt", CLDone PROVE CLInv'
<1>1. /\ cl_pc' = "left" /\ mode' = "info" /\ argv' = <<>> /\ optind' = 1
      /\ packedopts' = 0 /\ optarg' = Null /\ set' = Defaults("info") /\ seen' = <<>>
      /\ getopt_ln' = getopt_ln /\ initialized' = initialized /\ opts' = opts /\ nopts' = nopts
      /\ opt_missing' = opt_missing /\ opt_default' = opt_default
  BY DEF CLDone, parser
<1>2. /\ cl_pc' \notin {"getopt", "switch", "parsed", "missing", "illegal"} \cup Refusals
      /\ cl_pc' \notin {"enc", "dec", "info", "abort"} /\ mode' \in {"enc", "dec", "info"}
  BY <1>1 DEF Refusals
<1>3. CLTypes'
  <2>1. /\ <<>> \in Seq(Text) /\ <<>> \in Seq({Case(n).os : n \in CaseLines} \X Text)
        /\ 1 \in Nat \ {0} /\ 0 \in Nat
    OBVIOUS
  <2> QED
    BY <1>1, <2>1, Texts, Zenon DEF CLTypes
<1>4. TableInv'
  BY <1>1, <1>2, TableStays DEF CLInv
<1>5. ReadInv'
  BY <1>2, Zenon DEF ReadInv
<1>6. SetInv'
  BY <1>1, <1>2, DefaultsTyped, Zenon DEF SetInv
<1>7. SizeIsExact'
  BY <1>1, Zenon DEF SizeIsExact
<1> QED
  BY <1>3, <1>4, <1>5, <1>6, <1>7 DEF CLInv

LEMMA CLStutters == CLInv /\ UNCHANGED clvars => CLInv'
<1> SUFFICES ASSUME CLInv, UNCHANGED clvars PROVE CLInv'
  OBVIOUS
<1>1. /\ cl_pc' = cl_pc /\ mode' = mode /\ set' = set /\ seen' = seen /\ opt_found' = opt_found
      /\ getopt_ln' = getopt_ln /\ initialized' = initialized /\ opts' = opts /\ nopts' = nopts
      /\ opt_missing' = opt_missing /\ opt_default' = opt_default
      /\ argv' = argv /\ optind' = optind /\ packedopts' = packedopts /\ optarg' = optarg
  BY DEF clvars, parser, scan
<1>2. CLTypes'
  BY <1>1 DEF CLInv, CLTypes
<1>3. TableInv'
  BY <1>1, Zenon DEF CLInv, TableInv, TableAt
<1>4. ReadInv'
  BY <1>1, Zenon DEF CLInv, ReadInv, Reader, Upcoming, FoundIs, LeftPacked, LeftRest
<1>5. SetInv' /\ SizeIsExact'
  BY <1>1, Zenon DEF CLInv, SetInv, SizeIsExact
<1> QED
  BY <1>2, <1>3, <1>4, <1>5 DEF CLInv

LEMMA CLNextInvariant == CLInv /\ CLNext => CLInv'
BY RegisterInvariant, GetoptInvariant, CaseFlagInvariant, CaseNumberInvariant,
   CaseMaxmemInvariant,
   CasePassphraseInvariant, CaseUsageInvariant, ChecksInvariant DEF CLNext

(***************************************************************************)
(* A run up to its first derived key (Startup).                            *)
(***************************************************************************)
LEMMA MSInitInvariant == MSInit => MemInv
<1> SUFFICES ASSUME MSInit PROVE MemInv
  OBVIOUS
<1>1. ms_pc = "idle"
  BY DEF MSInit
<1>2. ms_pc \notin Probing /\ ms_pc # "limited"
  BY <1>1 DEF Probing, Probes
<1> QED
  BY <1>2 DEF MemInv, LimitIsMemory

LEMMA MSStutters == MemInv /\ UNCHANGED msvars => MemInv'
<1> SUFFICES ASSUME MemInv, UNCHANGED msvars PROVE MemInv'
  OBVIOUS
<1>1. /\ ms_pc' = ms_pc /\ maxmem' = maxmem /\ maxmemfrac' = maxmemfrac /\ limit' = limit
      /\ memlimit' = memlimit /\ said' = said
  BY DEF msvars, argvars, memvars
<1>2. Known' = Known
  BY <1>1, Zenon DEF Known
<1>3. \A p : Counted(p)' = Counted(p) /\ ToldTrue(p)' = ToldTrue(p)
  BY <1>1, <1>2, Zenon DEF Counted, Bogus, Amount, ToldTrue
<1>4. LimitIsMemory'
  BY <1>1, <1>2, <1>3, Zenon DEF MemInv, LimitIsMemory
<1>5. (ms_pc \in Probing => Probed)'
  BY <1>1, <1>3, Zenon DEF MemInv, Probed
<1> QED
  BY <1>4, <1>5 DEF MemInv

\* What the command line asks for.
Asks == phase \in {"passphrase", "memory"} => asked.frac \in 1..4 /\ asked.mem \in Nat
StartupInv == CLInv /\ PassInv /\ MemInv /\ Asks

LEMMA StartupInit == Init => StartupInv
<1> SUFFICES ASSUME Init PROVE StartupInv
  OBVIOUS
<1>1. CLInv /\ PassInv /\ MemInv
  BY CLInitInvariant, PPInitInvariant, MSInitInvariant DEF Init
<1>2. Asks
  BY DEF Init, Asks
<1> QED
  BY <1>1, <1>2 DEF StartupInv

LEMMA StartupNext == StartupInv /\ [Next]_vars => StartupInv'
<1> SUFFICES ASSUME StartupInv, [Next]_vars PROVE StartupInv'
  OBVIOUS
<1>1. CLInv /\ PassInv /\ MemInv /\ Asks
  BY DEF StartupInv
<1>2. /\ UNCHANGED clvars => CLInv'
      /\ UNCHANGED ppvars => PassInv'
      /\ UNCHANGED msvars => MemInv'
  BY <1>1, CLStutters, PPStutters, MSStutters
<1>3. PPDone => PassInv'
  BY PPCallInvariant DEF PPDone
<1>4. MSDone => MemInv'
  <2> SUFFICES ASSUME MSDone PROVE MemInv'
    OBVIOUS
  <2>1. "idle" \in {"idle", "getres"} /\ MSAt("idle", 0, 0)
    BY DEF MSDone
  <2> QED
    BY <2>1, MSAtStep
<1>5. phase' = phase /\ asked' = asked => Asks'
  BY <1>1 DEF Asks
<1>6. phase' \notin {"passphrase", "memory"} => Asks'
  BY DEF Asks
<1>7. \A speed : Exits(speed) => Asks'
  BY <1>6 DEF Exits
<1> USE DEF StartupInv
<1>8. CASE Parse
  BY <1>1, <1>2, <1>5, <1>8, CLNextInvariant DEF Parse
<1>9. CASE Leave
  <2>1. cl_pc # "getopt"
    BY <1>9 DEF Leave
  <2> QED
    BY <1>1, <1>2, <1>7, <1>9, <2>1, CLDoneInvariant DEF Leave
<1>10. CASE ToPassphrase
  <2>1. CLInv'
    <3>1. cl_pc # "getopt"
      BY <1>10 DEF ToPassphrase
    <3> QED
      BY <1>1, <1>10, <3>1, CLDoneInvariant DEF ToPassphrase
  <2>2. CASE /\ phase' = "passphrase" /\ asked' = Asked
             /\ PPCall(Asked.method, Asked.once) /\ UNCHANGED msvars
    <3>1. PassInv'
      BY <2>2, PPCallInvariant
    <3>2. Asks'
      <4>1. set \in Settings /\ set.maxmemfrac # 0
        BY <1>1, <1>10 DEF CLInv, SetInv, ToPassphrase
      <4>2. Asked.frac = set.maxmemfrac /\ Asked.mem = set.maxmem
        BY DEF Asked
      <4>3. set.maxmemfrac \in 0..4 /\ set.maxmem \in Nat
        BY <4>1 DEF Settings
      <4>4. \A x \in 0..4 : x # 0 => x \in 1..4
        OBVIOUS
      <4>5. Asked.frac \in 1..4 /\ Asked.mem \in Nat
        BY <4>1, <4>2, <4>3, <4>4, Zenon
      <4> QED
        BY <2>2, <4>5, Zenon DEF Asks
    <3> QED
      BY <1>2, <2>1, <2>2, <3>1, <3>2
  <2>3. CASE Exits(<<>>) /\ UNCHANGED <<ppvars, msvars>>
    BY <1>2, <1>7, <2>1, <2>3
  <2> QED
    BY <1>10, <2>2, <2>3 DEF ToPassphrase
<1>11. CASE Pass
  BY <1>1, <1>2, <1>5, <1>11, PPNextInvariant DEF Pass
<1>12. CASE NoPassphrase
  BY <1>2, <1>3, <1>7, <1>12 DEF NoPassphrase
<1>13. CASE ToMemory
  <2>1. CLInv' /\ PassInv'
    BY <1>2, <1>3, <1>13 DEF ToMemory
  <2>2. CASE /\ phase' = "memory" /\ MSAt("usermem", asked.frac, asked.mem)
             /\ UNCHANGED <<asked, opps>>
    <3>1. asked.frac \in 1..4 /\ asked.mem \in Nat
      BY <1>1, <1>13 DEF ToMemory, Asks
    <3>2. MemInv'
      BY <2>2, <3>1, MSAtStep
    <3> QED
      BY <2>1, <2>2, <3>1, <3>2 DEF Asks
  <2>3. CASE Exits(<<>>) /\ UNCHANGED msvars
    BY <1>2, <1>7, <2>1, <2>3
  <2> QED
    BY <1>13, <2>2, <2>3 DEF ToMemory
<1>14. CASE Memory
  BY <1>1, <1>2, <1>5, <1>14, MemlimitStep DEF Memory
<1>15. CASE NoMemory
  BY <1>2, <1>4, <1>7, <1>15 DEF NoMemory
<1>16. CASE ToSpeed
  <2>1. MSAt("getres", 0, 0) /\ phase' = "speed" /\ UNCHANGED <<clvars, ppvars>>
    BY <1>16 DEF ToSpeed
  <2>2. MemInv'
    BY <2>1, MSAtStep
  <2> QED
    BY <1>2, <1>6, <2>1, <2>2
<1>17. CASE Speed
  BY <1>1, <1>2, <1>5, <1>17, SpeedStep DEF Speed
<1>18. CASE Time \/ TimeOfDay
  <2>1. (Tick \/ SetBack) /\ Clocks
    BY <1>18 DEF Time, TimeOfDay, Tick, SetBack
  <2>2. MemInv'
    BY <1>1, <2>1, SpeedStep
  <2> QED
    BY <1>2, <1>5, <1>18, <2>2 DEF Time, TimeOfDay
<1>19. CASE Measured
  BY <1>2, <1>4, <1>7, <1>19 DEF Measured
<1>20. CASE UNCHANGED vars
  BY <1>2, <1>5, <1>20 DEF vars
<1> QED
  BY <1>8, <1>9, <1>10, <1>11, <1>12, <1>13, <1>14, <1>15, <1>16, <1>17, <1>18, <1>19, <1>20
  DEF Next, Steps

LEMMA StartupInvariant == Spec => []StartupInv
BY StartupInit, StartupNext, PTL DEF Spec

\* memtouse: whatever the probes are told, in any order and whether they answer
\* or not, and for any widths of size_t and the file's numbers, the limit it
\* returns is the fraction asked for of the least amount told, or --maxmem if
\* that is less, and at least a mebibyte.
THEOREM MemoryAsTold == Spec => []LimitIsMemory
<1>1. StartupInv => LimitIsMemory
  BY DEF StartupInv, MemInv
<1> QED
  BY <1>1, StartupInvariant, PTL

\* passphrase_entry_readpass and the readers it calls: for any characters, any
\* length of line and any buffer, the passphrase that main goes on with is what
\* the bytes of its source determine, a confirmed line is the same line twice, and
\* what is refused has no passphrase to give.  All sources that take a line
\* of characters alone give it as it is; where CR or NUL are among the bytes the sources
\* differ as PassphraseIsLine says.
THEOREM PassphraseTaken == Spec => []PassphraseIsLine
<1>1. StartupInv => PassphraseIsLine
  BY DEF StartupInv, PassInv
<1> QED
  BY <1>1, StartupInvariant, PTL

\* humansize_parse under -M: for any digits, prefixes and SIZE_MAX, main takes the
\* number that is written times its prefix, or refuses it because it is no size
\* or because size_t does not hold it.
THEOREM SizesExact == Spec => []SizeIsExact
<1>1. StartupInv => SizeIsExact
  BY DEF StartupInv, CLInv
<1> QED
  BY <1>1, StartupInvariant, PTL

\* getopt.c under main's switch: for any command line, of any length, main acts
\* on exactly the options that are written and their arguments, in order, and
\* leaves the words that are left; and no option is registered twice, out of its
\* slot or outside the registration.
THEOREM OptionsRead == Spec => []OptionsAsWritten
<1>1. StartupInv => OptionsAsWritten
  BY AsWritten DEF StartupInv, CLInv
<1> QED
  BY <1>1, StartupInvariant, PTL

(***************************************************************************)
(* Signals and the terminal (ReadPass).                                    *)
(***************************************************************************)
\* The places where every signal is caught, and those of the two loops of
\* resetsigs.
Catching == {"echo_off", "read", "confirm", "restore", "err3", "err2"}
Resetting == {"reset", "reset_failed"}
Raising == {"raise", "raise_failed"}
Outside == {"idle", "open", "clear", "copy", "zero", "err1"}

\* The disposition of each signal, in the order of badsigs.
Dispositioned ==
  /\ pc \in Outside \cup Raising => disp = orig
  /\ pc = "install" =>
       \A k \in 1..NSIGS : disp[badsigs[k]] = IF k < i THEN "handle" ELSE orig[badsigs[k]]
  /\ pc \in Catching => \A k \in 1..NSIGS : disp[badsigs[k]] = "handle"
  /\ pc \in Resetting =>
       \A k \in 1..NSIGS : disp[badsigs[k]] = IF k < i THEN orig[badsigs[k]] ELSE "handle"

\* Nothing stops or kills the process while every signal is caught.
Uninterrupted == pc \in Catching => running

\* The terminal echoes except between EchoOff and Restore, and term_old says so.
Echoes ==
  unrestored \/ /\ termOld
                /\ pc \in {"read", "confirm", "restore", "err3"} => echo \/ usingtty
                /\ pc \notin {"read", "confirm", "restore", "err3"} => echo

\* gotsig says which signals came, those that the second loop has passed apart.
Recorded ==
  /\ pc \in Outside => pending = {}
  /\ pc \in {"install"} \cup Catching \cup Resetting => \A s \in Sigs : s \in pending <=> gotsig[s]
  /\ pc \in Raising =>
       \A k \in 1..NSIGS : badsigs[k] \in pending <=> k >= i /\ gotsig[badsigs[k]]

RPInv == TypeOK /\ Dispositioned /\ Uninterrupted /\ Echoes /\ Recorded

-----------------------------------------------------------------------------
\* The signals have numbers, at least one, and each only one.
LEMMA Numbered ==
  /\ NSIGS \in Nat \ {0}
  /\ DOMAIN badsigs = 1..NSIGS
  /\ \A k \in 1..NSIGS : badsigs[k] \in Sigs
  /\ \A s \in Sigs : \E k \in 1..NSIGS : s = badsigs[k]
  /\ \A k, l \in 1..NSIGS : badsigs[k] = badsigs[l] => k = l
BY SignalsAssumption DEF NSIGS, Sigs

\* The invariant holds before the first call.
LEMMA RPInitInvariant == RPInit => RPInv
<1> SUFFICES ASSUME RPInit PROVE RPInv
  OBVIOUS
<1>1. TypeOK
  <2>1. Flags
    BY DEF RPInit, Flags
  <2> QED
    BY <2>1, Numbered, BoundsAssumption DEF RPInit, TypeOK, PCs, Dispositions
<1>2. Dispositioned /\ Uninterrupted /\ Echoes /\ Recorded
  BY DEF RPInit, Dispositioned, Uninterrupted, Echoes, Recorded, Raising, Catching,
     Resetting
<1> QED
  BY <1>1, <1>2 DEF RPInv

\* Starting a call preserves the invariant.
LEMMA CallPreserves == RPInv /\ Call => RPInv'
<1> SUFFICES ASSUME RPInv, Call PROVE RPInv'
  OBVIOUS
<1>1. TypeOK'
  BY Numbered, BoundsAssumption DEF RPInv, Call, Goto, terminal, signals, history, TypeOK,
     Flags, PCs
<1>2. Dispositioned'
  BY DEF RPInv, Call, Goto, signals, Dispositioned, Outside, Catching, Resetting
<1>3. Uninterrupted'
  BY DEF Call, running, Uninterrupted
<1>4. Echoes'
  BY DEF RPInv, Call, terminal, history, Echoes
<1>5. Recorded'
  BY DEF RPInv, Call, Goto, history, Recorded, Outside, Raising, Catching, Resetting
<1> QED
  BY <1>1, <1>2, <1>3, <1>4, <1>5 DEF RPInv

\* Opening the terminal preserves the invariant.
LEMMA OpenPreserves == RPInv /\ Open => RPInv'
<1> SUFFICES ASSUME RPInv, Open PROVE RPInv'
  OBVIOUS
<1>1. TypeOK'
  <2>1. Flags'
    BY DEF RPInv, TypeOK, Flags, Open, args, history
  <2> QED
    BY <2>1, Numbered DEF RPInv, Open, Goto, args, signals, buffers, history, TypeOK, PCs
<1>2. Dispositioned'
  BY DEF RPInv, Open, Goto, signals, Dispositioned, Outside, Catching, Resetting
<1>3. Uninterrupted'
  BY DEF Open, running, Uninterrupted
<1>4. Echoes'
  BY DEF RPInv, Open, history, Echoes
<1>5. Recorded'
  BY DEF RPInv, Open, Goto, history, Recorded, Outside, Raising, Catching, Resetting
<1> QED
  BY <1>1, <1>2, <1>3, <1>4, <1>5 DEF RPInv

\* Forgetting the signals of the last call preserves the invariant.
LEMMA ClearPreserves == RPInv /\ Clear => RPInv'
<1> SUFFICES ASSUME RPInv, Clear PROVE RPInv'
  OBVIOUS
<1>1. TypeOK'
  BY Numbered DEF RPInv, Clear, ClearGotsig, Goto, args, terminal, buffers, history, TypeOK,
     Flags, PCs
<1>2. Dispositioned'
  BY DEF RPInv, Clear, Goto, Dispositioned, Outside, Catching, Resetting
<1>3. Uninterrupted'
  BY DEF Clear, running, Uninterrupted
<1>4. Echoes'
  BY DEF RPInv, Clear, terminal, history, Echoes
<1>5. Recorded'
  BY Numbered DEF RPInv, Clear, ClearGotsig, history, Recorded, Outside
<1> QED
  BY <1>1, <1>2, <1>3, <1>4, <1>5 DEF RPInv

\* Catching a signal preserves the invariant.
LEMMA InstallPreserves == RPInv /\ Install => RPInv'
<1> SUFFICES ASSUME RPInv, Install PROVE RPInv'
  OBVIOUS
<1>1. TypeOK'
  BY Numbered DEF RPInv, Install, Saves, Goto, args, terminal, buffers, history, TypeOK,
     Flags, PCs, Dispositions, Dispositioned
<1>2. Dispositioned'
  BY Numbered DEF RPInv, Install, Goto, TypeOK, Dispositioned, Outside, Raising
<1>3. Uninterrupted'
  BY DEF Install, running, Uninterrupted
<1>4. Echoes'
  BY DEF RPInv, Install, terminal, history, Echoes
<1>5. Recorded'
  BY DEF RPInv, Install, Goto, history, Recorded, Outside, Raising
<1> QED
  BY <1>1, <1>2, <1>3, <1>4, <1>5 DEF RPInv

\* Turning the echo off preserves the invariant.
LEMMA EchoOffPreserves == RPInv /\ EchoOff => RPInv'
<1> SUFFICES ASSUME RPInv, EchoOff PROVE RPInv'
  OBVIOUS
<1>1. TypeOK'
  <2>1. Flags'
    BY DEF RPInv, TypeOK, Flags, EchoOff, args, history
  <2> QED
    BY <2>1, Numbered DEF RPInv, EchoOff, Goto, args, signals, buffers, history, TypeOK, PCs
<1>2. Dispositioned'
  BY DEF RPInv, EchoOff, Goto, signals, Dispositioned, Outside, Raising, Catching
<1>3. Uninterrupted'
  BY DEF EchoOff, running, Uninterrupted
<1>4. Echoes'
  BY DEF RPInv, EchoOff, Goto, history, Echoes
<1>5. Recorded'
  BY Numbered DEF RPInv, EchoOff, Goto, signals, history, Recorded, Outside, Catching
<1> QED
  BY <1>1, <1>2, <1>3, <1>4, <1>5 DEF RPInv

\* Reading a line preserves the invariant.
LEMMA ReadPreserves == RPInv /\ Read => RPInv'
<1> SUFFICES ASSUME RPInv, Read PROVE RPInv'
  OBVIOUS
<1>1. TypeOK'
  BY Numbered DEF RPInv, Read, ReadFails, Goto, args, terminal, signals, history, TypeOK,
     Flags, PCs
<1>2. Dispositioned'
  BY DEF RPInv, Read, ReadFails, Goto, signals, Dispositioned, Outside, Raising, Catching
<1>3. Uninterrupted'
  BY DEF Read, running, Uninterrupted
<1>4. Echoes'
  BY DEF RPInv, Read, ReadFails, Goto, terminal, history, Echoes
<1>5. Recorded'
  BY Numbered DEF RPInv, Read, ReadFails, Goto, signals, history, Recorded, Outside,
     Catching
<1> QED
  BY <1>1, <1>2, <1>3, <1>4, <1>5 DEF RPInv

\* Reading the line again preserves the invariant.
LEMMA ConfirmPreserves == RPInv /\ Confirm => RPInv'
<1> SUFFICES ASSUME RPInv, Confirm PROVE RPInv'
  OBVIOUS
<1>1. TypeOK'
  <2>1. Flags'
    BY DEF RPInv, TypeOK, Flags, Confirm, args, terminal, history
  <2> QED
    BY <2>1, Numbered DEF RPInv, Confirm, Confirmed, Goto, args, signals, history, TypeOK,
       PCs
<1>2. Dispositioned'
  BY DEF RPInv, Confirm, Confirmed, Goto, signals, Dispositioned, Outside, Raising, Catching
<1>3. Uninterrupted'
  BY DEF Confirm, running, Uninterrupted
<1>4. Echoes'
  BY DEF RPInv, Confirm, Confirmed, Goto, terminal, history, Echoes
<1>5. Recorded'
  BY Numbered DEF RPInv, Confirm, Confirmed, Goto, signals, history, Recorded, Outside,
     Catching
<1> QED
  BY <1>1, <1>2, <1>3, <1>4, <1>5 DEF RPInv

\* Turning the echo on preserves the invariant.
LEMMA RestorePreserves == RPInv /\ Restore => RPInv'
<1> SUFFICES ASSUME RPInv, Restore PROVE RPInv'
  OBVIOUS
<1>1. TypeOK'
  <2>1. Flags'
    BY DEF RPInv, TypeOK, Flags, Restore, SetEcho, args, history
  <2> QED
    BY <2>1, Numbered DEF RPInv, Restore, Goto, args, signals, buffers, history, TypeOK, PCs
<1>2. Dispositioned'
  BY DEF RPInv, Restore, Goto, signals, Dispositioned, Outside, Raising, Catching
<1>3. Uninterrupted'
  BY DEF Restore, running, Uninterrupted
<1>4. Echoes'
  BY DEF RPInv, Restore, SetEcho, history, Echoes
<1>5. Recorded'
  BY Numbered DEF RPInv, Restore, Goto, signals, history, Recorded, Outside, Catching
<1> QED
  BY <1>1, <1>2, <1>3, <1>4, <1>5 DEF RPInv

\* Closing the terminal after an error preserves the invariant.
LEMMA Err2Preserves == RPInv /\ Err2 => RPInv'
<1> SUFFICES ASSUME RPInv, Err2 PROVE RPInv'
  OBVIOUS
<1>1. TypeOK'
  <2>1. Flags'
    BY DEF RPInv, TypeOK, Flags, Err2, args, history
  <2> QED
    BY <2>1, Numbered DEF RPInv, Err2, Goto, args, signals, buffers, history, TypeOK, PCs
<1>2. Dispositioned'
  BY DEF RPInv, Err2, Goto, signals, Dispositioned, Outside, Raising, Catching
<1>3. Uninterrupted'
  BY DEF Err2, running, Uninterrupted
<1>4. Echoes'
  BY DEF RPInv, Err2, history, Echoes
<1>5. Recorded'
  BY Numbered DEF RPInv, Err2, Goto, signals, history, Recorded, Outside, Catching
<1> QED
  BY <1>1, <1>2, <1>3, <1>4, <1>5 DEF RPInv

\* Restoring a disposition preserves the invariant.
LEMMA ResetPreserves == RPInv /\ Reset => RPInv'
<1> SUFFICES ASSUME RPInv, Reset PROVE RPInv'
  OBVIOUS
<1>1. TypeOK'
  BY Numbered DEF RPInv, Reset, Goto, args, terminal, buffers, history, TypeOK, Flags, PCs,
     Dispositions
<1>2. Dispositioned'
  BY Numbered DEF RPInv, Reset, Goto, TypeOK, Dispositioned, Catching, Resetting
<1>3. Uninterrupted'
  BY DEF Reset, running, Uninterrupted
<1>4. Echoes'
  BY DEF RPInv, Reset, terminal, history, Echoes
<1>5. Recorded'
  BY Numbered DEF RPInv, Reset, Goto, history, Recorded, Outside, Raising, Resetting
<1> QED
  BY <1>1, <1>2, <1>3, <1>4, <1>5 DEF RPInv

\* Sending a signal again preserves the invariant.
LEMMA RaisePreserves == RPInv /\ Raise => RPInv'
<1> SUFFICES ASSUME RPInv, Raise PROVE RPInv'
  OBVIOUS
<1>1. TypeOK'
  BY Numbered DEF RPInv, Raise, Acts, Goto, args, terminal, signals, buffers, TypeOK, Flags,
     PCs
<1>2. Dispositioned'
  BY DEF RPInv, Raise, Goto, signals, Dispositioned, Raising, Catching, Resetting
<1>3. Uninterrupted'
  BY DEF Raise, Goto, Uninterrupted, Catching
<1>4. Echoes'
  BY DEF RPInv, Raise, terminal, Echoes
<1>5. Recorded'
  BY Numbered DEF RPInv, Raise, Raised, Goto, signals, TypeOK, Recorded, Raising, Catching,
     Resetting
<1> QED
  BY <1>1, <1>2, <1>3, <1>4, <1>5 DEF RPInv

\* Copying the passphrase preserves the invariant.
LEMMA CopyPreserves == RPInv /\ Copy => RPInv'
<1> SUFFICES ASSUME RPInv, Copy PROVE RPInv'
  OBVIOUS
<1>1. TypeOK'
  <2>1. Flags'
    BY DEF RPInv, TypeOK, Flags, Copy, args, history
  <2> QED
    BY <2>1, Numbered DEF RPInv, Copy, Goto, args, signals, history, TypeOK, PCs
<1>2. Dispositioned'
  BY DEF RPInv, Copy, Goto, signals, Dispositioned, Outside, Catching, Resetting
<1>3. Uninterrupted'
  BY DEF Copy, running, Uninterrupted
<1>4. Echoes'
  BY DEF RPInv, Copy, history, Echoes
<1>5. Recorded'
  BY DEF RPInv, Copy, Goto, history, Recorded, Outside, Raising, Catching, Resetting
<1> QED
  BY <1>1, <1>2, <1>3, <1>4, <1>5 DEF RPInv

\* Returning preserves the invariant.
LEMMA ReturnPreserves == RPInv /\ Return => RPInv'
<1> SUFFICES ASSUME RPInv, Return PROVE RPInv'
  OBVIOUS
<1>1. TypeOK'
  BY Numbered DEF RPInv, Return, Zeroes, Goto, args, terminal, signals, history, TypeOK,
     Flags, PCs
<1>2. Dispositioned'
  BY DEF RPInv, Return, Goto, signals, Dispositioned, Outside, Catching, Resetting
<1>3. Uninterrupted'
  BY DEF Return, running, Uninterrupted
<1>4. Echoes'
  BY DEF RPInv, Return, terminal, history, Echoes
<1>5. Recorded'
  BY DEF RPInv, Return, Goto, history, Recorded, Outside, Raising, Catching, Resetting
<1> QED
  BY <1>1, <1>2, <1>3, <1>4, <1>5 DEF RPInv

\* A signal that is caught preserves the invariant.
LEMMA CaughtPreserves == ASSUME NEW s \in Sigs, RPInv, Caught(s) PROVE RPInv'
<1>1. TypeOK'
  <2>1. Flags'
    BY DEF RPInv, TypeOK, Flags, Caught, Catch, args
  <2> QED
    BY <2>1, BoundsAssumption DEF RPInv, Caught, Catch, args, buffers, TypeOK
<1>2. Dispositioned'
  BY DEF RPInv, Caught, Catch, Dispositioned
<1>3. Uninterrupted'
  BY DEF Caught, Catch, running, Uninterrupted
<1>4. Echoes'
  BY DEF RPInv, Caught, Catch, Echoes
<1>5. Recorded'
  BY DEF RPInv, Caught, Catch, TypeOK, Recorded, Dispositioned
<1> QED
  BY <1>1, <1>2, <1>3, <1>4, <1>5 DEF RPInv

\* A signal that interrupts a read preserves the invariant.
LEMMA ReadInterruptedPreserves == ASSUME NEW s \in Sigs, RPInv, ReadInterrupted(s) PROVE RPInv'
<1>1. TypeOK'
  <2>1. Flags'
    BY DEF RPInv, TypeOK, Flags, ReadInterrupted, Catch, args
  <2> QED
    BY <2>1, Numbered, BoundsAssumption DEF RPInv, ReadInterrupted, Catch, Goto, args,
       buffers, TypeOK, PCs
<1>2. Dispositioned'
  BY DEF RPInv, ReadInterrupted, Catch, Goto, Dispositioned, Outside, Raising, Catching
<1>3. Uninterrupted'
  BY DEF ReadInterrupted, Catch, running, Uninterrupted
<1>4. Echoes'
  BY DEF RPInv, ReadInterrupted, Catch, Goto, Echoes
<1>5. Recorded'
  BY Numbered DEF RPInv, ReadInterrupted, Catch, Goto, TypeOK, Recorded, Outside, Catching
<1> QED
  BY <1>1, <1>2, <1>3, <1>4, <1>5 DEF RPInv

\* A signal that interrupts tcsetattr preserves the invariant.
LEMMA RestoreInterruptedPreserves == ASSUME NEW s \in Sigs, RPInv, RestoreInterrupted(s) PROVE RPInv'
<1>1. TypeOK'
  <2>1. Flags'
    BY DEF RPInv, TypeOK, Flags, RestoreInterrupted, Catch, args
  <2> QED
    BY <2>1, Numbered, BoundsAssumption DEF RPInv, RestoreInterrupted, Catch, Goto, args,
       buffers, TypeOK, PCs
<1>2. Dispositioned'
  BY DEF RPInv, RestoreInterrupted, Catch, Goto, Dispositioned, Outside, Raising, Catching
<1>3. Uninterrupted'
  BY DEF RestoreInterrupted, Catch, running, Uninterrupted
<1>4. Echoes'
  BY DEF RestoreInterrupted, Echoes
<1>5. Recorded'
  BY Numbered DEF RPInv, RestoreInterrupted, Catch, Goto, TypeOK, Recorded, Outside,
     Catching
<1> QED
  BY <1>1, <1>2, <1>3, <1>4, <1>5 DEF RPInv

\* A signal that is not caught preserves the invariant.
LEMMA UncaughtPreserves == ASSUME NEW s \in Sigs, RPInv, Uncaught(s) PROVE RPInv'
<1>1. TypeOK'
  <2>1. Flags'
    BY DEF RPInv, TypeOK, Flags, Uncaught, args, terminal, history
  <2> QED
    BY <2>1, BoundsAssumption DEF RPInv, Uncaught, Acts, args, signals, buffers, history,
       TypeOK
<1>2. Dispositioned'
  BY DEF RPInv, Uncaught, signals, Dispositioned
<1>3. Uninterrupted'
  BY Numbered DEF RPInv, Uncaught, Dispositioned, Uninterrupted
<1>4. Echoes'
  BY DEF RPInv, Uncaught, terminal, history, Echoes
<1>5. Recorded'
  BY DEF RPInv, Uncaught, signals, history, Recorded
<1> QED
  BY <1>1, <1>2, <1>3, <1>4, <1>5 DEF RPInv

\* SIGCONT preserves the invariant.
LEMMA ContinuePreserves == RPInv /\ Continue => RPInv'
<1> SUFFICES ASSUME RPInv, Continue PROVE RPInv'
  OBVIOUS
<1>1. TypeOK'
  BY DEF RPInv, Continue, args, terminal, signals, buffers, history, TypeOK, Flags
<1>2. Dispositioned'
  BY DEF RPInv, Continue, signals, Dispositioned
<1>3. Uninterrupted'
  BY DEF Continue, running, Uninterrupted
<1>4. Echoes'
  BY DEF RPInv, Continue, terminal, history, Echoes
<1>5. Recorded'
  BY DEF RPInv, Continue, signals, history, Recorded
<1> QED
  BY <1>1, <1>2, <1>3, <1>4, <1>5 DEF RPInv

-----------------------------------------------------------------------------
\* The invariant is inductive.
LEMMA RPNextPreserves == RPInv /\ [RPNext]_rpvars => RPInv'
<1> SUFFICES ASSUME RPInv, [RPNext]_rpvars PROVE RPInv'
  OBVIOUS
<1>1. CASE RPSteps
  BY <1>1, OpenPreserves, ClearPreserves, InstallPreserves, EchoOffPreserves, ReadPreserves,
     ConfirmPreserves, RestorePreserves, Err2Preserves, ResetPreserves, RaisePreserves,
     CopyPreserves, ReturnPreserves DEF RPSteps
<1>2. CASE Signal
  BY <1>2, CaughtPreserves, ReadInterruptedPreserves, RestoreInterruptedPreserves,
     UncaughtPreserves DEF Signal
<1>3. CASE Call \/ Continue
  BY <1>3, CallPreserves, ContinuePreserves
<1>4. CASE UNCHANGED rpvars
  BY <1>4 DEF rpvars, args, terminal, signals, buffers, history, running, RPInv, TypeOK,
     Flags,
     Dispositioned, Uninterrupted, Echoes, Recorded
<1> QED
  BY <1>1, <1>2, <1>3, <1>4 DEF RPNext

\* The invariant holds in every state.
LEMMA RPInvariant == RPSpec => []RPInv
BY RPInitInvariant, RPNextPreserves, PTL DEF RPSpec

\* Types hold; what resetsigs restores is never the handler of readpass.
THEOREM TypeCorrect == RPSpec => []TypeOK
<1>1. RPInv => TypeOK
  BY DEF RPInv
<1> QED
  BY <1>1, RPInvariant, PTL

\* The user is left with an echoing terminal whenever readpass is not reading,
\* however the call ends, unless the restoring call itself was interrupted.
THEOREM EchoComesBack == RPSpec => []EchoRestored
<1>1. ASSUME RPInv PROVE EchoRestored
  BY <1>1 DEF RPInv, Uninterrupted, Echoes, Catching, EchoRestored
<1> QED
  BY <1>1, RPInvariant, PTL

\* resetsigs delivers every signal that the handler recorded.
THEOREM SignalsDelivered == RPSpec => []NoSignalLost
<1>1. RPInv => NoSignalLost
  BY DEF RPInv, Dispositioned, Recorded, Outside, NoSignalLost
<1> QED
  BY <1>1, RPInvariant, PTL

\* resetsigs delivers nothing that did not come during this call.
THEOREM SignalsReal == RPSpec => NothingSpurious
<1>1. ASSUME RPInv, [RPNext]_rpvars, pc \in Raising, sent' = sent, status' \notin {status, "running"}
      PROVE  badsigs[i] \in pending
  <2>1. ASSUME NEW s \in Sigs
        PROVE  ~Caught(s) /\ ~Uncaught(s) /\ ~ReadInterrupted(s) /\ ~RestoreInterrupted(s)
    BY <1>1 DEF Caught, Catch, Uncaught, ReadInterrupted, RestoreInterrupted, RPInv, TypeOK
  <2>2. ~Continue /\ ~UNCHANGED rpvars
    BY <1>1 DEF Continue, rpvars
  <2>3. ~Call /\ ~Open /\ ~Clear /\ ~Install /\ ~EchoOff /\ ~Read /\ ~Confirm /\ ~Restore
    BY <1>1 DEF Call, Open, Clear, Install, EchoOff, Read, Confirm, Restore
  <2>4. ~Err2 /\ ~Reset /\ ~Copy /\ ~Return
    BY <1>1 DEF Err2, Reset, Copy, Return
  <2>5. Raise
    BY <1>1, <2>1, <2>2, <2>3, <2>4 DEF RPNext, RPSteps, Signal
  <2>6. gotsig[badsigs[i]]
    BY <1>1, <2>5 DEF Raise, Raised
  <2> QED
    BY <1>1, <2>6 DEF RPInv, TypeOK, Recorded
<1>2. RPInv /\ [RPNext]_rpvars
        => [(pc \in {"raise", "raise_failed"} /\ sent' = sent /\ status' \notin {status, "running"})
              => badsigs[i] \in pending]_rpvars
  BY <1>1 DEF Raising
<1> QED
  BY <1>2, RPInvariant, PTL DEF RPSpec, NothingSpurious
=============================================================================
