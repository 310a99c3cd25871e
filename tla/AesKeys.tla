------------------------------- MODULE AesKeys --------------------------------
(***************************************************************************)
(* Which AES runs (crypto_aes.c, crypto_aes_aesni.c, crypto_aes_arm.c, and *)
(* hwaccel of crypto_aesctr.c): two statics are set when they are first    *)
(* needed, and an expanded key is an opaque pointer to whatever the chosen *)
(* implementation made of it.  The arithmetic of AES is not modelled: of an *)
(* encryption only which round keys it applies, in which order; an         *)
(* implementation that is not sound fails its test vectors.                *)
(***************************************************************************)
EXTENDS Integers, Sequences

CONSTANTS Keys,      \* places of the client for an expanded key
          Streams    \* and for an AES-CTR stream

VARIABLES
  build,       \* the hardware code compiled in: "aesni", "arm" or "none"
  aes_offered, \* whether the CPU has its instructions
  aes_sound,   \* which of that code and OpenSSL ("software") compute AES
  aes_hw,      \* hwaccel of crypto_aes.c
  ctr_hw,      \* hwaccel of crypto_aesctr.c
  aborted,
  key,         \* key[k]: [by, len, rkeys], NoKey if there is none
  stream_key,  \* stream_key[s]: the key of a stream, "none" if there is none
  used         \* every use of a key: [len, maker, reader, applied]

machine == <<build, aes_offered, aes_sound>>
statics == <<aes_hw, ctr_hw>>
keyvars == <<machine, statics, aborted, key, stream_key, used>>

-----------------------------------------------------------------------------
NoKey == [by |-> "none", len |-> 0, nr |-> 0]
UpTo(a, b) == [n \in 1..(b - a + 1) |-> a + n - 1]      \* <<a, ..., b>>

\* The implementations: a key of len bytes expanded, and a block encrypted
\* under it, as the round keys that are applied, from kexp->rkeys[0] on.
crypto_aes_key_expand_aesni(len) ==
  [by |-> "aesni", len |-> len, nr |-> IF len = 16 THEN 10 ELSE 14]
crypto_aes_encrypt_block_aesni(kexp) ==
  UpTo(0, 9) \o (IF kexp.nr > 10 THEN UpTo(10, 13) ELSE <<>>) \o <<kexp.nr>>

crypto_aes_key_expand_arm(len) ==
  [by |-> "arm", len |-> len, nr |-> IF len = 16 THEN 10 ELSE 14]
crypto_aes_encrypt_block_arm(kexp) ==
  UpTo(0, 8) \o (IF kexp.nr > 10 THEN UpTo(9, 12) ELSE <<>>) \o <<kexp.nr - 1, kexp.nr>>

\* OpenSSL's AES_set_encrypt_key and AES_encrypt.
AES_set_encrypt_key(len) ==
  [by |-> "software", len |-> len, nr |-> IF len = 16 THEN 10 ELSE 14]
AES_encrypt(kexp) == UpTo(0, kexp.nr)

Expand(h, len) == CASE h = "aesni" -> crypto_aes_key_expand_aesni(len)
                    [] h = "arm" -> crypto_aes_key_expand_arm(len)
                    [] OTHER -> AES_set_encrypt_key(len)
Encrypt(h, kexp) == CASE h = "aesni" -> crypto_aes_encrypt_block_aesni(kexp)
                      [] h = "arm" -> crypto_aes_encrypt_block_arm(kexp)
                      [] OTHER -> AES_encrypt(kexp)

KInit ==
  /\ build \in {"aesni", "arm", "none"}
  /\ aes_offered \in BOOLEAN
  /\ aes_sound \in SUBSET {"hardware", "software"}
  /\ aes_hw = "unset" /\ ctr_hw = "unset" /\ aborted = FALSE
  /\ key = [k \in Keys |-> NoKey]
  /\ stream_key = [s \in Streams |-> "none"]
  /\ used = {}

\* functest of the hardware code: it expands keys, and malloc may fail.
HardwarePasses == {FALSE} \cup IF "hardware" \in aes_sound THEN {TRUE} ELSE {}
OpensslPasses == "software" \in aes_sound

\* hwaccel_init: the values hwaccel may get, "abort" when OpenSSL is wrong.
Chosen ==
  {IF aes_offered /\ passes THEN build
   ELSE IF OpensslPasses THEN "software" ELSE "abort" : passes \in HardwarePasses}
aes_hwaccel_init_Again ==                                   \* mutant: tests every time
  IF build = "none" THEN {"software"} ELSE Chosen
aes_hwaccel_init ==
  IF build = "none" THEN {"software"}
  ELSE IF aes_hw = "unset" THEN Chosen ELSE {aes_hw}

Abort == aborted' = TRUE /\ UNCHANGED <<machine, statics, key, stream_key, used>>

\* The code that an expanded key is given to.
Reader == IF build # "none" /\ aes_hw = build THEN build ELSE "software"
Use(k, reader, applied) ==
  used' = used \cup {[len |-> key[k].len, maker |-> key[k].by, reader |-> reader,
                      applied |-> applied]}

\* crypto_aes_key_expand into the place k.
crypto_aes_key_expand(k) ==
  /\ ~aborted /\ key[k] = NoKey
  /\ \E h \in aes_hwaccel_init :
       IF h = "abort" THEN Abort
       ELSE /\ aes_hw' = h
            /\ \/ \E len \in {16, 32} : key' = [key EXCEPT ![k] = Expand(h, len)]
               \/ UNCHANGED key                         \* malloc fails
            /\ UNCHANGED <<machine, ctr_hw, aborted, stream_key, used>>

crypto_aes_encrypt_block(k) ==
  /\ ~aborted /\ key[k] # NoKey
  /\ Use(k, Reader, Encrypt(Reader, key[k]))
  /\ UNCHANGED <<machine, statics, aborted, key, stream_key>>

\* crypto_aes_key_free, which zeroes as many bytes as the struct it takes it for.
crypto_aes_key_free(k) ==
  /\ ~aborted /\ key[k] # NoKey /\ \A s \in Streams : stream_key[s] # k
  /\ Use(k, Reader, <<>>)
  /\ key' = [key EXCEPT ![k] = NoKey]
  /\ UNCHANGED <<machine, statics, aborted, stream_key>>

\* crypto_aesctr_init, whose hwaccel_init asks crypto_aes_can_use_intrinsics.
crypto_aesctr_init(s, k) ==
  /\ ~aborted /\ key[k] # NoKey /\ stream_key[s] = "none"
  /\ \/ UNCHANGED <<statics, aborted, stream_key>>          \* malloc fails
     \/ \E h \in (IF ctr_hw = "unset" THEN aes_hwaccel_init ELSE {ctr_hw}) :
          IF h = "abort"
            THEN aborted' = TRUE /\ UNCHANGED <<statics, stream_key>>
            ELSE /\ ctr_hw' = h
                 /\ aes_hw' = IF ctr_hw = "unset" THEN h ELSE aes_hw
                 /\ stream_key' = [stream_key EXCEPT ![s] = k]
                 /\ UNCHANGED aborted
  /\ UNCHANGED <<machine, key, used>>

\* crypto_aesctr_stream: requests of a block or more go by the static of
\* crypto_aesctr.c, blocks made one at a time by that of crypto_aes.c.
crypto_aesctr_stream(s) ==
  /\ ~aborted /\ stream_key[s] # "none"
  /\ \E long \in BOOLEAN :
       LET h == IF long /\ ctr_hw \in {"aesni", "arm"} THEN ctr_hw ELSE Reader
       IN  Use(stream_key[s], h, Encrypt(h, key[stream_key[s]]))
  /\ UNCHANGED <<machine, statics, aborted, key, stream_key>>

crypto_aesctr_free(s) ==
  /\ ~aborted /\ stream_key[s] # "none"
  /\ stream_key' = [stream_key EXCEPT ![s] = "none"]
  /\ UNCHANGED <<machine, statics, aborted, key, used>>

KNext ==
  \/ \E k \in Keys : \/ crypto_aes_key_expand(k) \/ crypto_aes_encrypt_block(k)
                     \/ crypto_aes_key_free(k)
                     \/ \E s \in Streams : crypto_aesctr_init(s, k)
  \/ \E s \in Streams : crypto_aesctr_stream(s) \/ crypto_aesctr_free(s)
KSpec == KInit /\ [][KNext]_keyvars
-----------------------------------------------------------------------------
Sound(reader) == (IF reader = "software" THEN "software" ELSE "hardware") \in aes_sound

\* Every key is read, and zeroed, by the code that expanded it; a block goes
\* through all 11 or 15 round keys in their order (FIPS 197, 5.1); and the code
\* passed its test, unless the build has nothing to choose and tests nothing.
BlocksAreAes ==
  \A u \in used :
    /\ u.maker = u.reader
    /\ u.applied = <<>> \/ u.applied = UpTo(0, IF u.len = 16 THEN 10 ELSE 14)
    /\ build # "none" => Sound(u.reader)
=============================================================================
