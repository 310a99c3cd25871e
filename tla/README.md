# scrypt: a TLA+ development

This directory is a TLA+ model of the scrypt encryption utility (`src/`): modules
translated from its C sources, configurations that check them with TLC on small
instances, and proofs that TLAPS checks for every value of the constants.

## 1. The system

scrypt is one single-threaded process.  What makes it hard is not threads but
streams that are cut in arbitrary pieces, failures in the middle of an
operation, files that other processes change meanwhile, signals, state kept
between calls, and arithmetic at its limits.

### Components, their state and their operations

| component | state | operations | hard because of | correct if |
|---|---|---|---|---|
| command (`main.c`) | the two `FILE`s, the cookie, `rc` | `main`, `scrypt_mode_enc_dec`, `open_output`, `same_file`, `scrypt_mode_info` | paths relinked by others between the check and the use; buffered output failing at `fclose`; which clean-up runs on which error | the input survives; a rejected file changes nothing; exit status 0 means a delivered output |
| decryption (`scryptenc.c`) | retained tail `buf`, HMAC context, spool, cookie | `scryptdec_file_prep`, `_copy`, `_cookie_free`, `scryptdec_file` | the authenticator is the last 32 bytes of a stream of unknown length; the input may change while it is read; each step may fail | nothing is released before all of it is authenticated; what is released is that |
| encryption (`scryptenc.c`) | HMAC context, AES-CTR stream, output | `scryptenc_file`, `scryptenc_buf`, `scryptdec_buf` | a partial output must never be taken for a whole one | success means a whole output; only such an output decrypts |
| parameters (`scryptenc.c`, `memlimit.c`) | none | `memtouse`, `pickparams`, `checkparams`, `display_params` | widths, floors and divisions at their limits | the limits are kept and used up; what was picked decrypts again |
| CPU speed (`scryptenc_cpuperf.c`, `monoclock.c`) | clock, counters | `scryptenc_cpuperf` | loops that end only if the clock moves | it ends with a positive speed or an error |
| passphrase entry (`readpass.c`, `readpass_file.c`, `passphrase_entry.c`) | signal dispositions, `gotsig`, terminal mode | `readpass`, `readpass_file` | a signal at any point; length limits and line ends | the terminal echoes again, no signal is lost, a passphrase is what its source's bytes say |
| scrypt KDF (`crypto_scrypt.c`, `crypto_scrypt_smix*.c`) | self-tested implementation, buffers | `crypto_scrypt`, `smix` | allocation failures, the loop unrolled over two buffers, broken implementations | it derives what the reference derives, or fails |
| random numbers (`entropy.c`, `crypto_entropy.c`) | descriptor, `Key`, `V`, `reseed_counter` | `entropy_read`, `crypto_entropy_read` | short reads, `EINTR`, reseeding at a limit | output is from a whole and recent seed and cannot be computed later |
| AES-CTR (`crypto_aesctr*.c`) | `bytectr`, `buf`, `pblk` | `_init`, `_init2`, `_stream`, `_free` | chunking, three implementations, a partly initialized counter | byte k is covered by byte k of the keystream |
| SHA-256 and HMAC (`sha256.c`) | count, buffer | `Update`, `Final` | chunking, padding at block boundaries | cuts do not matter |
| hardware selection (`sha256.c`, `crypto_aes.c`, `crypto_aesctr.c`) | `hwaccel` statics | `hwaccel_init` | tests that run the code being selected | only what passes its test is used |
| option parser (`getopt.c`) | `optind`, `packedopts`, registration | `getopt`, `getopt_lookup`, ... | registration by `longjmp`, several options packed in a word | each option is seen once, in order |
| number parsing (`humansize.c`, `parsenum.h`) | none | `humansize_parse`, `PARSENUM` | overflow, truncation | a number is exact or refused |

`main` parses the options, opens the input, reads the passphrase and then
encrypts or decrypts; these call the parameters (which call the CPU speed), the
KDF, the random numbers, HMAC and AES-CTR.  All interaction is by calls in one
thread.  What is shared with the outside is the file system, the terminal,
signals, clocks and memory: in the models these act between any two steps.

`PROJECT.json` lists every component with its status, and under `hazards` what a
test would hardly reach, with the properties that cover it.

## 2. Modules

| module | models | its variables and actions |
|---|---|---|
| `CtrStream` | what a stream cipher promises: the next bytes are covered by the next bytes of the keystream | specification only |
| `AesCtr` | `crypto_aesctr*.c` | `bytectr`, `pblk` and `buf` are the fields of the struct; the actions are `init`, `init2`, the call, the bytes that complete a block, the generic loop, the AESNI and ARM loops with their locals, the rest, `free` |
| `AuthRelease` | what decryption promises: accept a whole authentic ciphertext, then release its decryption from the beginning | specification only |
| `ScryptDec` | `scryptdec_file_prep`, `_copy`, `_cookie_free`, `scryptdec_file` | the cookie and its spool, the input and the tail held back; one action per turn of each loop; a failing preparation goes to the label `err1`, which frees; `Rewrite` is another process changing the input |
| `ScryptEnc` | `scryptenc_file`, `scryptenc_buf`, `scryptdec_buf` | as above; an output is a sequence of cells that say what wrote them; `DecBuf` gives an output, a beginning of it or an alteration to `scryptdec_buf` |
| `ScryptCmd` | `main.c` after option parsing | life of input, output, passphrase and cookie; what the output path names; what each object was given; `Relink` is another process |
| `ReadPass` | `readpass.c` | dispositions, `gotsig`, echo, both buffers; `Signal` may come between any two steps, and inside a read or a `tcsetattr` |
| `Params` | `memtouse`, `pickparams`, `checkparams`, `display_params`, `scryptdec_file_printparams`, the checks of `crypto_scrypt` | limits, parameters, and the file that carries them from an encryption to decryptions elsewhere |
| `Drbg` | `crypto_entropy.c`, `entropy.c` | the statics of the generator, the reader's descriptor and cookie; every call to the system may fail |
| `Sha256` | `sha256.c` up to `SHA256_Final`, and its choice of a transform | the context as `count`, `state`, `buf`; `Update` by its loop over blocks and its rest, `Pad` with its one or two blocks; the statics of `hwaccel_init`, whose test runs the transform being chosen |
| `Hmac` | `HMAC_SHA256_*`, `PBKDF2_SHA256` | what each of the two contexts has absorbed; long keys are hashed first; one action per iteration and per block of the derived key |
| `AesKeys` | `crypto_aes.c`, its AESNI and ARM variants, and the choice of `crypto_aesctr.c` | the keys that are expanded, by which implementation; the round keys a block meets; `free` |
| `Crypto` | the three above as one specification | `part` says which of them a behaviour is of |
| `Widths` | operators on integers of a bounded width | no state |
| `CommandLine` | `getopt.c`, the loop of `main`, `humansize_parse`, `PARSENUM`, `passphrase_entry_parse` | the statics `packedopts`, `optind`, `opt_found`; one action per call of `GETOPT` and per case of the switch; a word is a sequence of characters |
| `Passphrase` | `passphrase_entry_readpass`, `readpass`, `readpass_file`, byte by byte | the bytes a terminal, a file or a variable yields, the buffer of `MAXPASSLEN`, the length limit, the confirmation, the cut of a line, the stripping of a file |
| `Measure` | `memlimit.c`, `scryptenc_cpuperf.c`, `monoclock.c` | the limits as they are probed one after the other; both loops over a clock that `Tick` and `SetBack` move |
| `Startup` | `main` to the first derived key | composes the three above: what the command line asked is what each next part starts from; a part may end the run |
| `Kdf` | `crypto_scrypt.c`, `crypto_scrypt_smix.c`, and the reference `crypto_scrypt-ref.c` | `smix_func`, the three regions of memory and what they hold; one action per turn of the unrolled loops, one per allocation with the label its failure goes to, and one per label; `RefBlockMix` and `BlockMix` are the two ways to order the chunks of a block |

`M_proofs` holds the theorems about `M`, `MCM` the instance that TLC checks.
`Crypto_proofs` also holds those about the generator (`Drbg`), and
`Startup_proofs` those about `ReadPass`.

The abstractions they share: HMAC and the generator are ideal (equal results come
only of equal inputs, and nobody else computes them); a byte is a member of a
small set tied to its place in its stream; wording and logging are left out;
every `malloc`, `fread`, `fwrite`, `close` or clock may fail in each of the ways
the code distinguishes.  `AesCtr` justifies what `ScryptDec` and `ScryptEnc` take
for granted, that a byte encrypted at place k decrypts only at place k, however
both sides cut their streams.  `Sha256` and `Hmac` justify the ideal
HMAC as far as a model can: a digest is of the message however it is cut, and an
HMAC or a derived key is the one the standards define over such digests.
`ScryptCmd` takes from `ScryptDec` that nothing is
written before preparation succeeds (`NoUnauthenticatedPlaintext`), and from
`ScryptEnc` and `ScryptDec` that a success has written everything.

## 3. Runs

Each run below is a question; `PROJECT.json` names a mutant of the code for each
property, and with it the run finds the property violated.

| run | shows | bounds, and why they are enough |
|---|---|---|
| `aesctr` | order of the keystream, refinement of `CtrStream` | blocks of 2 bytes, a counter byte with 3 values, 14 bytes: requests end in and at the ends of blocks in every combination, and the low byte wraps twice |
| `scryptdec` | no unauthenticated plaintext, whole copies, read errors reject, calls that fail leave no cookie, spool or keys, good files are accepted, refinement of `AuthRelease`, every call returns | 2-cell authenticators and blocks; three ciphertexts of 0, 1 and 3 cells so that the tail straddles reads; inputs whole, cut, extended, altered, exchanged |
| `scryptenc` | success is a whole output, only that decrypts and to what was encrypted, keys are zeroed, read errors fail | headers good and bad in each part; inputs of 0 to 4 bytes around the block of 2 |
| `scryptcmd` | the input is intact, rejected files touch nothing, exit 0 means delivered, everything is released once | two existing files and a new one, a device, a pipe; two blocks of output so that the first may be delivered and the second not |
| `readpass` | echo restored, no signal lost or made up, a call ends | one fatal and one stopping signal (the code treats all its signals as one of these kinds), three signals in two calls, so that one may be left over from the first |
| `params` | shifts defined, limits kept and used up, picked parameters decrypt, the display is right | the code's floors (2^20 bytes, 2^15 operations); 64-bit limits scaled down so that all are reached and TLC's integers hold each product; values on both sides of each boundary |
| `drbg` | output is from a whole and recent seed, is not recoverable, the reader and its cookie are released | interval 2, output of 4, blocks of 2, requests up to 9: three outputs in a request, so that a reseed falls inside one |
| `crypto` | a digest is of the message, an HMAC and a derived key are what RFC 2104 and RFC 8018 define, a block goes through AES with its own key | blocks of 5 bytes, 2 of them for the count, messages up to 23 bytes in any pieces: padding takes one block and two, and fills the last one exactly; two hardware transforms, each offered or not and sound or not; HMAC keys below, at and above a block of 5; derived keys of 0 to 5 bytes over digests of 2, one to three iterations; two AES keys and two streams |
| `startup` | options are found as written, a size is exact or refused, exactly which bytes of a source give which passphrase, the memory limit is what the system and the user allow, the start of a run ends | all command lines of one and two words, and three with a given last, over flags, packed options, options with an argument in the same word or the next, and sizes on both sides of each limit; 16-bit `UINT64_MAX` and 15-bit `SIZE_MAX`, so that products and digits overflow; passphrases around `MAXPASSLEN` = 3; clocks of resolution 1 and 2; one set-back |
| `kdf` | keys are what the reference derives, each label frees what is held there | N in {2, 4, 8}, r and p in {1, 2}; each loop turns once, twice and four times; any implementation may be broken |

Deadlock is not checked where a bound on calls (`MaxCalls`) or the end of the
process stops the system.

Two runs show by a counterexample that a sentence of the documentation is not what
the code does (`findings`): `readpass_doc` (signals can be re-sent with the echo
still off) and `params_doc` (`-M` below 1 MiB is not the most memory used).

Four more findings are about properties that hold, where something else in the
repository says what they rule out:

- `RejectedTouchesNothing` (`scryptcmd`): `scrypt.1` says in its section on `dec`
  (lines 69-73) that scrypt truncates outfile before it reads infile; the code
  reads and authenticates all of it first (`main.c`, 244-262).
- `NoUnauthenticatedPlaintext` (`scryptdec`): `scrypt.1`, lines 213-216, says that
  `dec` may produce output before it determines that the input is corrupt; the code
  decrypts only what is wholly authenticated.
- `PassphraseIsLine` (`startup`), twice: `readpass_file` refuses a CR inside its line
  because cutting there is not "safe to pick silently", and `readpass` cuts there;
  `readpass` refuses a NUL "rather than silently treating the following bytes as
  absent" (the test's words), and `readpass_file` does that.  The property says
  exactly what each source does with such bytes.

### Fairness

Liveness is stated where an environment that keeps changing things could keep
a call from ending.  `WF_vars(Steps)` says that a process which can take a step
of the call it is in takes one: nothing else runs in it.  It includes that calls
to the system return, and in `ReadPass` that a user who is asked answers or ends
the input; `WF_vars(Continue)` says that a stopped process is continued.  A call
of `readpass` that asks for confirmation need not end, since the user may
mistype for ever, and the property leaves it out.

In `Startup` two parties move: the process (`WF_vars(Steps)`) and time
(`WF_vars(Time)`): the clock ticks at last, however long it stood still, since
it is the hardware's.  Without the second the loops of `scryptenc_cpuperf` need
not end, and neither would they in the code.  A clock that is set back for ever
would keep them too: `MaxSetBacks` bounds that.  `StartupEnds` leaves out, again,
the user who mistypes for ever (`[]<><<Mismatch>>_vars`).  `AesCtr`, `Crypto`,
`Kdf`, `Params`, `Drbg`, `ScryptEnc` and `ScryptCmd` state no fairness; that a call
of AES-CTR, when it is back at its client, has covered all of its bytes is
the theorem `CallsComplete`.

## 4. Proofs

| module | theorems | the inductive invariant |
|---|---|---|
| `AesCtr_proofs` | `TypeCorrect`, `KeystreamCorrect`, `CallsComplete`, `StreamRefines` | the counter bytes in `pblk` are those of the last block generated unless none was; `buf` holds that block; whole-block loops run at a block boundary, and the wide loops' locals say what the struct will say after them |
| `ScryptDec_proofs` | `TypeCorrect`, `AuthenticatedRelease`, `WholeCopy`, `ReadErrorsReject`, `NothingLeft`, `GoodAccepted`, `DecRefines` | what was read is what is hashed followed by what is held back; the spool is what was hashed; a valid cookie's spool is authentic; the output is the decryption of the spool up to the copy's place.  `Undisturbed`, for `GoodAccepted`: in a call that nothing disturbed, what is hashed followed by what is held back is the input as far as it was read, in order, and an authenticator's length is held back unless nothing is hashed |
| `ScryptEnc_proofs` | `TypeCorrect`, `SuccessWhole`, `OnlyWholeDecrypts`, `KeysAreZeroed`, `ReadErrorsFail` | `Produced`: what was hashed is the header and the encryption of what was read, and the output is that as far as it was written; `Partial`: an output that is not whole is a beginning of one; `Reading`: a read error is not forgotten.  `OnlyWhole`: what `scryptdec_buf` accepts is a whole output, since the authenticator of a beginning is not where it looks |
| `ScryptCmd_proofs` | `TypeCorrect`, `InputKept`, `RejectedChangesNothing`, `StatusCorrect`, `EverythingReleased` | `Held`: what is open and allocated at each place; `NothingBefore`, `OnlyOpened`, `Compared`: a file is touched only after it was opened and found not to be the input; `AuthenticFirst`: when decrypting, only after preparation succeeded; `Status`: what `rc` and the buffered output say of each other |
| `Params_proofs` | `TypeCorrect`, `ShiftsAreDefined`, `LimitsKept`, `StrongestPicked`, `SameLimitsSuffice`, `InfoCorrect` | `FileSane`, `FromFile`: what a file says was picked or chosen within the checks; `Places`, `Limited`, `Looping`, `Picked`: what the tests so far established.  The arithmetic is one lemma, that `q <= a \div b` is `b * q <= a`, so that products replace the code's nested divisions |
| `Startup_proofs`, of `ReadPass` | `TypeCorrect`, `EchoComesBack`, `SignalsDelivered`, `SignalsReal` | `Dispositioned`: which handlers are installed, by the loops' index; `Uninterrupted`: nothing stops or kills while all are caught; `Echoes`: the terminal echoes but between two places, unless restoring failed; `Recorded`: what came and was not passed on is in `gotsig` |
| `Startup_proofs`, of `Startup` | `OptionsRead`, `SizesExact`, `PassphraseTaken`, `MemoryAsTold` | `CLInv`: `TableInv`, the lines of the switch that are registered so far, and all of them once initialized; `ReadInv`, what main has seen is `Said(argv, Len(seen))`, and the packed word and `optind` are what is left to read; `SetInv`, the types of the settings.  `PassInv`: the buffer holds the line that was typed, with its LF or, at the limit, without a last CR; a second line is held the same way while it is compared.  The lemmas `ReadsLine`, `CutIs` (of a line) and `StripsEnd`, `StripIsEnd` (of a file) say what cutting and stripping make of that; `MemInv`: a limit is what its probe was told, cut to a `size_t`, or none; `Asks`: what the command line hands on is a fraction of 1/8 to 4/8 and a number |
| `Crypto_proofs`, of `Drbg` | `Seeded`, `NotRecoverable`, `Released` | the counter is one more than the outputs since the last seed; only a whole seed leaves the reader; Keys grow, so that the present one is none of the used |
| `Crypto_proofs`, of `Crypto` | `DigestCorrect`, `MacCorrect`, `Pbkdf2Correct`, `AesCorrect`, `ChoiceCorrect` | `ShaInv`: the compressed bytes are the message's, a whole number of blocks; the buffer holds those that follow; after padding, the block is the last of the padded message; a transform that was chosen passed a test that runs it.  HMAC: each context has absorbed its pad and then what was fed.  PBKDF2: `U` is the turn's, `T` holds the cells that occur an odd number of times in the turns so far, and the derived key is right up to the present block.  AES: a static is set once and agrees with the other; every key there is was expanded by what was chosen, and a stream's key outlives the stream |
| `Kdf_proofs` | `Derives`, `Frees` | at each turn of the unrolled loops, `X` or `Y` is the reference's block of that turn, and `V` holds its first blocks; the implementation that is chosen passed the self-test; taking two chunks a turn writes the chunks that the reference sorts afterwards; what is held at each place, labels included, is what that label and those after it free |

In each, the invariant is the conjunction of those parts, a lemma for the initial
states and one per action show it inductive, and the theorems follow from it.
The properties are not inductive by themselves: that the output is right says
nothing of the counter that will make the next byte, that a failed decryption has
touched no file says nothing of which places come before the first write, and
that the options seen so far were written says nothing of where the next one
starts.

Several properties compare a loop of the code with a function defined by
recursion: `Said` reads a command line option by option, `Value` reads digits,
PBKDF2's `U`, the blocks of the KDF, `SizeStep` over a text.  The library's
induction theorems cannot be used, since they take an operator; instead
`Induction`, of a set of numbers, is proved from the least member that every
nonempty set of numbers has (`WFMin` over `NatLessThanWellFounded`), and a
lemma in each module (`Recursion` in `Kdf_proofs` and its like) shows by it that
a function defined turn by turn exists and satisfies its equation.  Then the
invariant takes one turn of the loop to one turn of the function.

`OptionsRead` has two halves.  One is that `searchopt`, which takes the first
registered option that the word begins with and that ends there or at a `=`, finds
exactly what `NextOption` says: the option whose name is the word, or the word up to
its first `=`; no other one matches.  The
other is that one call of `getopt` uses up exactly the characters of that option
and its argument.  `SizesExact` has the overflow checks of `humansize_parse` as
its core: the parser may refuse early in the middle of the digits, and the lemmas
show that more digits only make the number larger.  In `MemoryAsTold` the order in
which the probes answer drops out, because each is corrected on its own and the
least is taken.

The assumptions are those of the modules, and TLC evaluates them in every run:
block and authenticator lengths are positive, a byte has more than one value, an
authenticator has its length, limits are positive numbers, names of devices and
pipes are not those of files, the list of signals names each once and is not
empty, words are sequences of characters, digits, prefixes, `B` and the blank are
distinct and a prefix is at least 2, units of memory are not zero, `N` is even and
at least 2 (`crypto_scrypt` refuses everything that is not a power of 2), the
operations on chunks yield chunks, and `Pow2` yields positive numbers and doubles
(which is what defines it).  For `Params` the constants may be the code's own
64-bit limits, which TLC's integers cannot hold.  A refinement is proved as a
theorem about the abstract specification, every step of the detailed one being a
step of it or a stutter.  The type invariants of the modules with a proof module
are proved and not repeated in the runs.

All invariants and action properties that the passing runs check are theorems.
Only model-checked are the liveness properties (`CallReturns`, `CallEnds`,
`StartupEnds`): TLAPS has no means for `ENABLED` and fairness.

## 5. What is not modelled

- The arithmetic of the compression functions of SHA-256, of AES and of
  salsa20/8 with their vector variants: straight lines of word operations that
  known-answer tests decide.  They are uninterpreted functions or ideal.
- CPU feature detection: one `cpuid` or `getauxval` behind a cache; the models
  take any set of features.
- The rounding of doubles in `pickparams`, `checkparams` and `memtouse`, but for
  `SIZE_MAX` becoming 2^64 there.
- A standard output that the shell redirected onto the input: `same_file` is asked
  only of an output that is named.
- In `getopt.c`, a reset through `optreset` after the first call (scrypt never asks for
  one), the asserts of `getopt_lookup` and the check of the form of registered names.
- Whether `insecure_memzero` of the passphrase buffers leaves no copy: `ReadPass` has
  the buffers, no property is about them.
- Wording of messages, byte helpers (`sysendian.h`, `insecure_memzero`, which appear
  as the steps of their callers), `asprintf`.
- Tests, benchmarks and the build.  A choice the build makes is left open in the
  models where behaviour depends on it.

What a reader of the code may want to know, and the models show:

- `memlimit.c` takes the least of what it is told.  That half of the physical pages
  are assumed to be available, whatever `HW_USERMEM` says, is not applied where the
  number of pages was clamped to `SIZE_MAX`; and a `sysctl` that answers with four
  bytes counts as no limit, as its comment explains.
- `monoclock.c` is modelled with the assumption that `clock_getres` succeeds for the
  clocks for which `clock_gettime` does.
- In `Passphrase`, a read error after the line of a passphrase file looks like its
  end, and a file of 2047 characters and a line end is refused where the terminal
  accepts the line.  What the sources do with a CR or a NUL is in the findings
  (section 3).

## 6. Plan

Done: all components of section 1, in this order: `AesCtr`, `ScryptDec` (the core
promise), `ScryptEnc`, `ScryptCmd`, `ReadPass`, `Params`, `Drbg`, `Kdf`; then `Sha256`,
`Hmac`, `AesKeys` with their composition `Crypto`, and `CommandLine`, `Passphrase`,
`Measure` with theirs, `Startup`; proofs of the invariants of `AesCtr`, `ScryptDec`,
`ScryptEnc`, `ScryptCmd`, `ReadPass`, `Params`, `Drbg` and `Sha256`, then of `Hmac`,
`AesKeys`, `Kdf`, `CommandLine`, `Passphrase` and `Measure`.

Left:

1. `ScryptCmd` composed with `AuthRelease` and `ReadPass`, in place of the steps that
   stand for them.
