----------------------------- MODULE CommandLine ------------------------------
(***************************************************************************)
(* The command line: getopt (libcperciva/util/getopt.c and getopt.h), the  *)
(* option loop of main and its checks, and the numbers in the arguments    *)
(* (humansize_parse, PARSENUM).                                            *)
(*                                                                         *)
(* A word is a sequence of symbols: the characters that getopt and the     *)
(* parsers look at, and names and numbers they only compare or pass on.    *)
(* The texts that strtod and strtoumax take for a number are constants.    *)
(***************************************************************************)
EXTENDS Widths, Sequences, SequencesExt

CONSTANTS
  CommandLines,   \* bound: the words that follow enc, dec or info
  IntOf, FracOf,  \* the integer, or the fraction in eighths, of a text that is one
  Digit,          \* Digit[x]: the value of the symbol x, if it is a digit
  Prefix          \* Prefix[x]: the multiplier of the SI prefix x

ASSUME WordsAssumption == \A ws \in CommandLines : ws \in Seq(Seq(STRING))
ASSUME NumbersAssumption ==
  /\ \A x \in DOMAIN Prefix : Prefix[x] \in 2..UINT64_MAX
  /\ \A x \in DOMAIN Digit : Digit[x] \in 0..9
  /\ DOMAIN Digit \cap DOMAIN Prefix = {} /\ {" ", "B"} \cap (DOMAIN Digit \cup DOMAIN Prefix) = {}
  /\ \A t \in DOMAIN IntOf : IntOf[t] \in Int
  /\ \A t \in DOMAIN FracOf : FracOf[t] \in Int

VARIABLES
  cl_pc,
  mode,          \* "enc", "dec" or "info"
  getopt_ln,     \* the next case to jump into while options are registered, less getopt_ln_min
  initialized, opts, nopts, opt_missing, opt_default, opt_found,   \* statics of getopt.c
  argv, optind, packedopts, optarg,      \* packedopts: place in argv[optind], 0 for NULL
  set,           \* the variables of main that options set
  seen           \* every option that reached its case, with its argument

parser == <<getopt_ln, initialized, opts, nopts, opt_missing, opt_default>>
scan == <<opt_found, argv, optind, packedopts, optarg>>
clvars == <<cl_pc, mode, parser, scan, set, seen>>

-----------------------------------------------------------------------------
Null == <<"NULL">>
NoOpt == [os |-> Null, hasarg |-> FALSE]

\* The cases of main's switch, by their distance in lines from GETOPT_SWITCH.
Case(n) ==
  CASE n = 1 -> [os |-> <<"-", "f">>, hasarg |-> FALSE]
    [] n = 4 -> [os |-> <<"-", "-", "logN">>, hasarg |-> TRUE]
    [] n = 7 -> [os |-> <<"-", "M">>, hasarg |-> TRUE]
    [] n = 18 -> [os |-> <<"-", "m">>, hasarg |-> TRUE]
    [] n = 24 -> [os |-> <<"-", "p">>, hasarg |-> TRUE]
    [] n = 27 -> [os |-> <<"-", "-", "passphrase">>, hasarg |-> TRUE]
    [] n = 39 -> [os |-> <<"-", "r">>, hasarg |-> TRUE]
    [] n = 42 -> [os |-> <<"-", "t">>, hasarg |-> TRUE]
    [] n = 48 -> [os |-> <<"-", "v">>, hasarg |-> FALSE]
    [] n = 51 -> [os |-> <<"-", "P">>, hasarg |-> FALSE]
    [] OTHER -> NoOpt
MissingArg == 60
Default == 63

Defaults(m) ==
  [maxmem |-> 0, maxmemfrac |-> IF m = "enc" THEN 1 ELSE 4, maxtime |-> IF m = "enc" THEN 5 ELSE 300,
   logN |-> 0, r |-> 0, p |-> 0, force |-> FALSE, verbose |-> FALSE, entry |-> "UNSET"]

CLInit ==
  /\ cl_pc = "getopt" /\ mode \in {"enc", "dec", "info"}
  /\ getopt_ln = -1 /\ initialized = FALSE /\ opts = <<>> /\ nopts = 0
  /\ opt_missing = 0 /\ opt_default = 0 /\ opt_found = -1
  /\ argv = <<>> /\ optind = 1 /\ packedopts = 0 /\ optarg = Null
  /\ set = Defaults(mode) /\ seen = <<>>

\* "<option>\0 or <option>=": the first slot that matches os.
Matches(i, os) ==
  /\ opts[i].os # Null /\ IsPrefix(opts[i].os, os)
  /\ Len(os) > Len(opts[i].os) => os[Len(opts[i].os) + 1] = "="
searchopt(os) ==
  IF \E i \in 0..(nopts - 1) : Matches(i, os)
    THEN CHOOSE i \in 0..(nopts - 1) : Matches(i, os) /\ \A k \in 0..(i - 1) : ~Matches(k, os)
    ELSE opt_default

Exit(where) == cl_pc' = where

\* GETOPT_SWITCH before getopt is initialized: jump to the line getopt_ln, and
\* back.  The words of the command line are looked at when all were visited.
Jump ==
  /\ cl_pc = "getopt" /\ ~initialized /\ getopt_ln' = getopt_ln + 1
  /\ UNCHANGED <<mode, opt_found, optind, packedopts, optarg, set, seen>>

\* What getopt_register_opt asserts of its slot, and that no slot has the name.
\* The form of the names is that of Case, and the asserts of getopt_lookup and of
\* GETOPT_OPTARG repeat what getopt has just stored: they are not modelled.
Registrable(n) == nopts # 0 /\ opts[n].os = Null /\ searchopt(Case(n).os) = opt_default

getopt_register_opt ==
  /\ Jump /\ Case(getopt_ln) # NoOpt
  /\ IF Registrable(getopt_ln) THEN UNCHANGED cl_pc ELSE Exit("abort")
  /\ opts' = [opts EXCEPT ![getopt_ln] = Case(getopt_ln)]
  /\ UNCHANGED <<initialized, nopts, opt_missing, opt_default, argv>>

getopt_register_missing ==
  /\ Jump /\ getopt_ln = MissingArg
  /\ opt_missing' = getopt_ln
  /\ UNCHANGED <<cl_pc, initialized, opts, nopts, opt_default, argv>>

NoCase == getopt_ln \notin {MissingArg, Default} /\ Case(getopt_ln) = NoOpt

\* default:, the first time and later.
getopt_setrange ==
  /\ Jump /\ NoCase /\ nopts = 0
  /\ opts' = [i \in 0..(Default - 1) |-> NoOpt] /\ nopts' = Default
  /\ opt_missing' = Default + 1 /\ opt_default' = Default + 1
  /\ UNCHANGED <<cl_pc, initialized, argv>>
SkipLine ==
  /\ Jump /\ NoCase /\ nopts # 0
  /\ UNCHANGED <<cl_pc, initialized, opts, nopts, opt_missing, opt_default, argv>>

Registered ==
  /\ Jump /\ getopt_ln = Default
  /\ initialized' = TRUE /\ argv' \in CommandLines
  /\ UNCHANGED <<cl_pc, opts, nopts, opt_missing, opt_default>>

-----------------------------------------------------------------------------
IsLong(word) == Len(word) >= 2 /\ word[1] = "-" /\ word[2] = "-"
IsPacked(word) == Len(word) >= 2 /\ word[1] = "-" /\ word[2] # "-"
From(word, k) == SubSeq(word, k, Len(word))

\* An option that takes an argument: the rest of the packed word, what is
\* behind "=", or the next word; at and ind are packedopts and optind so far.
RestOf_Skips(ind) == ind + 2                          \* mutant: the next word is lost
RestOf(ind) == ind + 1
TakeArgument(i, os, at, ind) ==
  LET olen == Len(opts[i].os) IN
  /\ packedopts' = 0
  /\ IF at # 0
       THEN optarg' = From(argv[ind], at) /\ optind' = RestOf(ind) /\ opt_found' = i
     ELSE IF Len(os) > olen
       THEN optarg' = From(os, olen + 2) /\ optind' = ind /\ opt_found' = i
     ELSE IF ind <= Len(argv)
       THEN optarg' = argv[ind] /\ optind' = ind + 1 /\ opt_found' = i
     ELSE optarg' = Null /\ optind' = ind /\ opt_found' = opt_missing

\* The option string os was found.
ReturnOption(os, at, ind) ==
  /\ Exit("switch")
  /\ LET i == searchopt(os) IN
     IF i # opt_default /\ opts[i].hasarg
       THEN TakeArgument(i, os, at, ind)
       ELSE /\ optarg' = Null /\ packedopts' = at /\ optind' = ind
            /\ opt_found' = IF i = opt_default \/ Len(os) > Len(opts[i].os)   \* --foo=bar
                              THEN opt_default ELSE i

ReturnNull(ind) ==
  cl_pc' = "parsed" /\ optind' = ind /\ optarg' = Null /\ UNCHANGED <<opt_found, packedopts>>

\* A call of getopt once options are registered.
getopt ==
  /\ cl_pc = "getopt" /\ initialized
  /\ IF optind > Len(argv) THEN ReturnNull(optind)
     ELSE LET word == argv[optind]
              at == IF packedopts # 0 THEN packedopts ELSE 2
          IN IF packedopts # 0 \/ IsPacked(word)
               THEN ReturnOption(<<"-", word[at]>>, IF at = Len(word) THEN 0 ELSE at + 1,
                           IF at = Len(word) THEN optind + 1 ELSE optind)
             ELSE IF IsLong(word)
               THEN IF Len(word) = 2 THEN ReturnNull(optind + 1)
                      ELSE ReturnOption(word, 0, optind + 1)
             ELSE ReturnNull(optind)
  /\ UNCHANGED <<mode, parser, argv, set, seen>>
-----------------------------------------------------------------------------
(* humansize_parse: /[0-9]+ ?[kMGTPE]?B?/.                                  *)
Wraps_Sum(size, d) == 10 * size > UINT64_MAX          \* mutant: only the product is checked
Wraps(size, d) == size > UINT64_MAX \div 10 \/ 10 * size > UINT64_MAX - d
SizeStep(s, x) ==
  IF s.state = -1 THEN s
  ELSE IF s.state <= 1 /\ x \in DOMAIN Digit
    THEN IF Wraps(s.size, Digit[x]) THEN [s EXCEPT !.state = -1]
         ELSE [s EXCEPT !.state = 1, !.size = (10 * s.size + Digit[x]) % (UINT64_MAX + 1)]
  ELSE IF s.state = 0 THEN [s EXCEPT !.state = -1]
  ELSE IF s.state <= 2 /\ x = " " THEN [s EXCEPT !.state = 3]
  ELSE IF s.state <= 3 /\ x \in DOMAIN Prefix
    THEN [s EXCEPT !.state = 4, !.multiplier = Prefix[x]]
  ELSE IF s.state <= 4 /\ x = "B" THEN [s EXCEPT !.state = 5]
  ELSE [s EXCEPT !.state = -1]

humansize_parse(text) ==
  LET s[k \in 0..Len(text)] == IF k = 0 THEN [state |-> 0, size |-> 0, multiplier |-> 1]
                               ELSE SizeStep(s[k - 1], text[k])
      end == s[Len(text)]
  IN IF end.state <= 0 \/ end.size > UINT64_MAX \div end.multiplier THEN -1
     ELSE (end.size * end.multiplier) % (UINT64_MAX + 1)

\* PARSENUM: the number must be there, and within its limits; errno is set
\* for anything else, NaN and -1 for an unsigned variable among it.
ParseNum(of, text, min, max) == text \in DOMAIN of /\ of[text] >= min /\ of[text] <= max

\* passphrase_entry_parse: "method:arg".
entries == [tty_stdin |-> <<"dev:", "tty-stdin">>, stdin_once |-> <<"dev:", "stdin-once">>,
            tty_once |-> <<"dev:", "tty-once">>]
EntryOf(text) ==
  IF \E e \in DOMAIN entries : entries[e] = text THEN CHOOSE e \in DOMAIN entries : entries[e] = text
  ELSE IF text # <<>> /\ text[1] = "env:" THEN "env"
  ELSE IF text # <<>> /\ text[1] = "file:" THEN "file"
  ELSE "invalid"
-----------------------------------------------------------------------------
(* The cases.                                                               *)
getopt_lookup(n) == cl_pc = "switch" /\ opt_found = n
At(n) == getopt_lookup(n) /\ seen' = Append(seen, <<Case(n).os, optarg>>)
Break == cl_pc' = "getopt" /\ UNCHANGED <<mode, parser, scan>>
Die(why) == cl_pc' = why /\ UNCHANGED <<mode, parser, scan, set>>

CaseFlag ==
  \/ At(1) /\ set' = [set EXCEPT !.force = TRUE] /\ Break
  \/ At(48) /\ set' = [set EXCEPT !.verbose = TRUE] /\ Break

\* PARSENUM and its GETOPT_PARSENUM_WITHIN_UNSIGNED.
Number(n, of, min, max, name) ==
  /\ At(n)
  /\ IF ParseNum(of, optarg, min, max)
       THEN set' = [set EXCEPT ![name] = of[optarg]] /\ Break ELSE Die("bad_number")

MaxFrac_One == 8                                     \* mutant: -m may be 1.0
MaxFrac == 4                                         \* 0.5
Infinity == 2 ^ 30                                   \* bound: more than any number there is

CaseNumber ==
  \/ Number(4, IntOf, 10, 40, "logN") \/ Number(24, IntOf, 1, 2048, "p")
  \/ Number(39, IntOf, 1, 32, "r") \/ Number(42, IntOf, 0, Infinity, "maxtime")
  \/ Number(18, FracOf, 0, MaxFrac, "maxmemfrac")

CaseMaxmem ==
  /\ At(7)
  /\ LET size == humansize_parse(optarg) IN
     IF size = -1 \/ size > SIZE_MAX THEN Die("bad_size")
       ELSE set' = [set EXCEPT !.maxmem = size] /\ Break

CasePassphrase ==
  \/ /\ At(27) \/ At(51)
     /\ set.entry # "UNSET" /\ Die("two_passphrases")
  \/ /\ At(51) /\ set.entry = "UNSET"
     /\ set' = [set EXCEPT !.entry = "stdin_once"] /\ Break
  \/ /\ At(27) /\ set.entry = "UNSET"
     /\ IF EntryOf(optarg) = "invalid" THEN Die("bad_entry")
          ELSE set' = [set EXCEPT !.entry = EntryOf(optarg)] /\ Break

\* GETOPT_MISSING_ARG and GETOPT_DEFAULT; there is no case opt_default.
CaseUsage ==
  /\ cl_pc = "switch" /\ UNCHANGED seen
  /\ \/ opt_found = opt_missing /\ Die("missing")
     \/ opt_found = opt_default /\ Die("illegal")

\* What main checks between its loop and the call of the mode.
Refused(rest) ==
  \/ Len(rest) \notin 1..2
  \/ (set.logN = 0) # (set.r = 0) \/ (set.r = 0) # (set.p = 0)
  \/ mode = "dec" /\ set.logN # 0
  \/ set.maxmemfrac = 0
  \/ set.entry = "stdin_once" /\ rest[1] = <<"-">>
Checks ==
  /\ cl_pc = "parsed"
  /\ IF Refused(From(argv, optind)) THEN cl_pc' = "usage" /\ UNCHANGED set
     ELSE /\ cl_pc' = mode
          /\ set' = [set EXCEPT !.entry = IF @ = "UNSET" THEN "tty_stdin" ELSE @]
  /\ UNCHANGED <<mode, parser, scan, seen>>

\* What the parser looked at is of no use once main has what it asked for.
CLDone ==
  /\ cl_pc' = "left" /\ mode' = "info" /\ opt_found' = -1 /\ argv' = <<>> /\ optind' = 1
  /\ packedopts' = 0 /\ optarg' = Null /\ set' = Defaults("info") /\ seen' = <<>>
  /\ UNCHANGED parser

CLNext == \/ getopt_register_opt \/ getopt_register_missing \/ getopt_setrange \/ SkipLine
          \/ Registered \/ getopt \/ CaseFlag \/ CaseNumber \/ CaseMaxmem
          \/ CasePassphrase \/ CaseUsage \/ Checks
-----------------------------------------------------------------------------
(* The reference: the forms getopt.h lists.                                 *)
Options == {Case(n) : n \in 1..Default} \ {NoOpt}
Takes(os) == \E o \in Options : o.os = os /\ o.hasarg
Flag(os) == \E o \in Options : o.os = os /\ ~o.hasarg

\* What comes next: an option with its argument, or why there is none.
Option(os, arg, packed, rest) ==
  [is |-> "option", os |-> os, arg |-> arg, packed |-> packed, rest |-> rest]
Ends(why, rest) == [is |-> why, os |-> Null, arg |-> Null, packed |-> <<>>, rest |-> rest]

\* -x: an argument is the rest of the word, or the next word.
Packed(os, more, rest) ==
  IF Flag(os) THEN Option(os, Null, more, rest)
  ELSE IF ~Takes(os) THEN Ends("illegal", <<>>)
  ELSE IF more # <<>> THEN Option(os, more, <<>>, rest)
  ELSE IF rest = <<>> THEN Ends("missing", <<>>)
  ELSE Option(os, Head(rest), <<>>, Tail(rest))

\* --name: an argument is what follows the first "=", or the next word.
Equals(word) == {k \in 3..Len(word) : word[k] = "="}
Long(word, rest) ==
  IF Equals(word) # {}
    THEN LET eq == Min(Equals(word))
             os == SubSeq(word, 1, eq - 1)
         IN IF Takes(os) THEN Option(os, From(word, eq + 1), <<>>, rest) ELSE Ends("illegal", <<>>)
  ELSE IF Flag(word) THEN Option(word, Null, <<>>, rest)
  ELSE IF ~Takes(word) THEN Ends("illegal", <<>>)
  ELSE IF rest = <<>> THEN Ends("missing", <<>>)
  ELSE Option(word, Head(rest), <<>>, Tail(rest))

\* packed is what is left of a word of options, rest are the words after it.
NextOption(packed, rest) ==
  IF packed # <<>> THEN Packed(<<"-", Head(packed)>>, Tail(packed), rest)
  ELSE IF rest = <<>> THEN Ends("parsed", rest)
  ELSE IF Head(rest) = <<"-", "-">> THEN Ends("parsed", Tail(rest))
  ELSE IF IsLong(Head(rest)) THEN Long(Head(rest), Tail(rest))
  ELSE IF IsPacked(Head(rest)) THEN Packed(<<"-", Head(rest)[2]>>, From(Head(rest), 3), Tail(rest))
  ELSE Ends("parsed", rest)

\* The first options that the words say, up to n, and what is left to read.
ReadOption(m) ==
  LET o == NextOption(m.packed, m.rest) IN
  IF o.is # "option" THEN m
  ELSE [options |-> Append(m.options, <<o.os, o.arg>>), packed |-> o.packed, rest |-> o.rest]
Said(words, n) ==
  LET s[k \in 0..n] == IF k = 0 THEN [options |-> <<>>, packed |-> <<>>, rest |-> words]
                       ELSE ReadOption(s[k - 1])
  IN s[n]

\* Main acts on the options the command line says, each with its argument, in
\* order, in every form of getopt.h, and on all of them; what is left over is
\* left over; and no registration aborts, for a slot that is missing or taken or
\* for a name that another option has or begins.
OptionsAsWritten ==
  LET m == Said(argv, Len(seen))
      o == NextOption(m.packed, m.rest)
  IN /\ cl_pc \in {"missing", "illegal", "parsed"} =>
          /\ seen = m.options /\ o.is = cl_pc
          /\ cl_pc = "parsed" => From(argv, optind) = o.rest
     /\ cl_pc \in {"bad_number", "bad_size", "bad_entry", "two_passphrases"} => seen = m.options
     /\ cl_pc # "abort"

Endings == {<<>>, <<"B">>} \cup UNION {{<<x>>, <<x, "B">>} : x \in DOMAIN Prefix}
IsSize(text, n) == /\ n \in 1..Len(text) /\ \A k \in 1..n : text[k] \in DOMAIN Digit
                   /\ \E e \in Endings : From(text, n + 1) \in {e, <<" ">> \o e}
\* The number that the first n digits write.
Value(text, n) ==
  LET v[k \in 0..n] == IF k = 0 THEN 0 ELSE 10 * v[k - 1] + Digit[text[k]] IN v[n]
Multiplier(text, n) ==
  IF \E k \in n + 1..Len(text) : text[k] \in DOMAIN Prefix
    THEN Prefix[text[CHOOSE k \in n + 1..Len(text) : text[k] \in DOMAIN Prefix]] ELSE 1

\* -M is the number that is written, times its prefix, or it is refused: never
\* for another reason than that it is no size or that size_t does not hold it.
SizeIsExact ==
  LET last == seen[Len(seen)][2]
      valid == \E n \in 1..Len(last) : IsSize(last, n) /\
                 Value(last, n) * Multiplier(last, n) <= SIZE_MAX
  IN seen # <<>> /\ seen[Len(seen)][1] = <<"-", "M">> =>
       /\ cl_pc = "bad_size" => ~valid
       /\ cl_pc = "getopt" => /\ valid
                              /\ \E n \in 1..Len(last) :
                                   /\ IsSize(last, n)
                                   /\ set.maxmem = Value(last, n) * Multiplier(last, n)
=============================================================================
