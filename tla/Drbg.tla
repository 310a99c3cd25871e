--------------------------------- MODULE Drbg ---------------------------------
(***************************************************************************)
(* Random numbers: crypto_entropy_read (crypto_entropy.c), the HMAC_DRBG   *)
(* of SP 800-90 kept in static variables between calls, and entropy_read   *)
(* (entropy.c), which seeds it from /dev/urandom: every call to the system *)
(* may fail, and read may return less than it was asked for.               *)
(*                                                                         *)
(* What HMAC computes is new each time: Key and V are numbers that no      *)
(* earlier computation had.                                                *)
(***************************************************************************)
EXTENDS Integers

CONSTANTS
  RESEED_INTERVAL,    \* 256
  GENERATE_MAXLEN,    \* 65536
  HashLen,            \* the length of V: 32
  InstantiateLen,     \* the length of the first seed: 48
  ReseedLen,          \* and of the others: 32
  Rdrand,             \* the CPU has RDRAND
  MaxRequest,         \* bound: length of a request
  MaxCalls            \* bound: calls of crypto_entropy_read

ASSUME LengthsAssumption ==
  /\ {RESEED_INTERVAL, GENERATE_MAXLEN, HashLen, InstantiateLen, ReseedLen} \subseteq Nat \ {0}
  /\ Rdrand \in BOOLEAN /\ MaxRequest \in Nat /\ MaxCalls \in Nat

VARIABLES
  pc,
  instantiated, Key, V, reseed_counter,   \* the statics
  buflen,      \* what is left of the request
  rc,
  fd,          \* "none", "open", "closed", or "unspecified" after EINTR
  er,          \* the cookie of the entropy reader is allocated
  got, want,   \* bytes of seed_material that are filled, and its length
  calls,
  fresh,       \* history: computations of HMAC
  spent,       \* history: the values of Key that output was made with
  since,       \* history: outputs generated since the last whole seed
  shortSeed    \* history: a seed was mixed in that was not whole

generator == <<instantiated, Key, V, reseed_counter>>
reader == <<fd, er, got, want>>
history == <<fresh, spent, since, shortSeed>>
drbgvars == <<pc, generator, buflen, rc, reader, calls, history>>

-----------------------------------------------------------------------------
Goto(where) == pc' = where /\ UNCHANGED rc
Return(code) == pc' = "idle" /\ rc' = code

DrbgInit ==
  /\ pc = "idle" /\ instantiated = FALSE /\ Key = 0 /\ V = 0 /\ reseed_counter = 0
  /\ buflen = 0 /\ rc = "OK"
  /\ fd = "none" /\ er = FALSE /\ got = 0 /\ want = 0 /\ calls = 0
  /\ fresh = 0 /\ spent = {} /\ since = 0 /\ shortSeed = FALSE

Call ==
  /\ pc = "idle" /\ calls < MaxCalls
  /\ \E n \in 0..MaxRequest : buflen' = n
  /\ calls' = calls + 1 /\ rc' = "OK"
  /\ IF instantiated THEN pc' = "loop" /\ UNCHANGED want
                     ELSE pc' = "open" /\ want' = InstantiateLen
  /\ got' = 0
  /\ UNCHANGED <<generator, fd, er, fresh, spent, since, shortSeed>>

\* entropy_read_init allocates the cookie ...
NewReader ==
  /\ pc = "open"
  /\ \/ Return("error") /\ UNCHANGED er
     \/ Goto("device") /\ er' = TRUE
  /\ UNCHANGED <<generator, buflen, fd, got, want, calls, history>>

\* ... and opens the device, or frees the cookie again.
Open ==
  /\ pc = "device"
  /\ \/ Return("error") /\ er' = FALSE /\ UNCHANGED fd
     \/ Goto("fill") /\ fd' = "open" /\ UNCHANGED er
  /\ UNCHANGED <<generator, buflen, got, want, calls, history>>

Filled(n) == n = want

\* entropy_read_fill: read until the buffer is full; EINTR is a failure too.
Fill ==
  /\ pc = "fill"
  /\ \/ \E n \in 1..(want - got) :
          /\ got' = got + n
          /\ Goto(IF Filled(got') THEN "done" ELSE "fill")
     \/ UNCHANGED got /\ Goto("failed")
  /\ UNCHANGED <<generator, buflen, fd, er, want, calls, history>>

\* entropy_read_done: closes until that does not say EINTR, after which the
\* descriptor may be closed already and another close says EBADF.
CloseAgain ==
  /\ pc \in {"done", "failed"}
  /\ fd \in {"open", "unspecified"}
  /\ fd' \in {"unspecified", "closed"}
  /\ UNCHANGED <<pc, rc, generator, buflen, er, got, want, calls, history>>

FreesReader_OnSuccess(ok) == er' = ~ok          \* mutant: keeps it when close fails
FreesReader(ok) == er' = FALSE

Close ==
  /\ pc \in {"done", "failed"}
  /\ \E ok \in BOOLEAN :
       /\ ok => fd # "closed"
       /\ fd' = "closed"
       /\ FreesReader(ok)
       /\ IF ok /\ pc = "done" THEN Goto("mix") ELSE Return("error")
  /\ UNCHANGED <<generator, buflen, got, want, calls, history>>
-----------------------------------------------------------------------------
\* n rounds of update: each makes a new Key and a new V.
Updated(rounds) ==
  /\ Key' = fresh + 2 * rounds - 1
  /\ V' = fresh + 2 * rounds
  /\ fresh' = fresh + 2 * rounds

MixRounds(rdrand) == IF rdrand THEN 4 ELSE 2

\* The rest of instantiate or reseed; RDRAND may fail, and need not succeed.
Mix ==
  /\ pc = "mix"
  /\ \E rdrand \in {FALSE, Rdrand} : Updated(MixRounds(rdrand))
  /\ reseed_counter' = 1
  /\ instantiated' = TRUE
  /\ since' = 0
  /\ shortSeed' = (shortSeed \/ got < want)
  /\ Goto("loop")
  /\ UNCHANGED <<buflen, reader, calls, spent>>

NeedsReseed_Late == reseed_counter > RESEED_INTERVAL + 1   \* mutant
NeedsReseed == reseed_counter > RESEED_INTERVAL

Reseed ==
  /\ pc = "loop" /\ buflen > 0 /\ NeedsReseed
  /\ want' = ReseedLen /\ got' = 0
  /\ Goto("open")
  /\ UNCHANGED <<generator, buflen, fd, er, calls, history>>

bytes_to_provide == IF buflen > GENERATE_MAXLEN THEN GENERATE_MAXLEN ELSE buflen
Blocks(n) == (n + HashLen - 1) \div HashLen

EndsWithUpdate_Not(k) ==                        \* mutant: does not mix up the state
  V' = fresh + k /\ fresh' = fresh + k /\ UNCHANGED Key
EndsWithUpdate(k) == Key' = fresh + k + 1 /\ V' = fresh + k + 2 /\ fresh' = fresh + k + 2

\* generate: a V for each block of the output, then update(NULL, 0).
Generate ==
  /\ pc = "loop" /\ buflen > 0 /\ ~NeedsReseed
  /\ EndsWithUpdate(Blocks(bytes_to_provide))
  /\ reseed_counter' = reseed_counter + 1
  /\ spent' = spent \cup {Key}
  /\ since' = since + 1
  /\ buflen' = buflen - bytes_to_provide
  /\ UNCHANGED <<pc, rc, instantiated, reader, calls, shortSeed>>

Finish ==
  /\ pc = "loop" /\ buflen = 0
  /\ Return("OK")
  /\ UNCHANGED <<generator, buflen, reader, calls, history>>

Steps == NewReader \/ Open \/ Fill \/ CloseAgain \/ Close \/ Mix \/ Reseed \/ Generate \/ Finish
DrbgNext == Call \/ Steps

DrbgSpec == DrbgInit /\ [][DrbgNext]_drbgvars
-----------------------------------------------------------------------------
\* All output comes from a state that a whole seed was mixed into, at most
\* RESEED_INTERVAL outputs earlier, whatever reseeding failed in between.
OutputIsSeeded == since <= RESEED_INTERVAL /\ (spent # {} => instantiated /\ ~shortSeed)

\* Who sees the state between two calls cannot compute what was output: the Key
\* that made it is gone.
OutputNotRecoverable == pc = "idle" /\ instantiated => Key \notin spent

\* However a call ends, no descriptor and no memory of the reader stays behind.
ReaderReleased == pc \in {"idle", "mix", "loop"} => fd \in {"none", "closed"} /\ ~er
=============================================================================
