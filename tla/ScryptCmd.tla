------------------------------ MODULE ScryptCmd ------------------------------
(***************************************************************************)
(* The scrypt command (main.c): option checks, scrypt_mode_info and        *)
(* scrypt_mode_enc_dec from opening the input to the exit status, with     *)
(* every call that may fail, buffered output, and another process that     *)
(* relinks the output path at any time.                                    *)
(*                                                                         *)
(* What encryption and decryption do to their streams is in ScryptEnc and  *)
(* ScryptDec; here an output is Units blocks that stdio accepts and may    *)
(* deliver late.                                                           *)
(***************************************************************************)
EXTENDS Integers

CONSTANTS
  Files,      \* regular files (inodes)
  New,        \* the file that open creates when the output path is free
  Device,     \* a character device the output path may name
  Pipe,       \* an input that is no regular file
  Stdout,     \* the standard output
  Absent,     \* the output path names nothing
  None,       \* no file
  Units       \* blocks of output of a whole run

ASSUME NamesAssumption ==
  /\ New \in Files
  /\ {Device, Pipe, Stdout, Absent, None} \cap Files = {}
  /\ None \notin {Device, Stdout}
ASSUME UnitsAssumption == Units \in Nat \ {0}

VARIABLES
  pc,
  mode, explicit, zeroFrac, method, inName, outName,   \* the command line
  authentic,   \* whether the input is a whole file encrypted with this passphrase
  link,        \* what the output path names
  infd, outfd, \* what the open descriptors refer to
  infile, outfile, passwd, cookie,    \* life of what is acquired: see Released
  rc,          \* "OK" or an error, once there is a result
  exit,        \* the exit status: "ok" (0), "failed" (1), "none" before
  touched,     \* files that were created or truncated
  data,        \* how many blocks of output each object holds
  accepted     \* blocks that fwrite has accepted

options == <<mode, explicit, zeroFrac, method, inName, outName, authentic>>
held == <<infile, outfile, passwd, cookie>>
vars == <<pc, options, link, infd, outfd, held, rc, exit, touched, data, accepted>>

-----------------------------------------------------------------------------
All == {"logN", "r", "p"}
Objects == Files \cup {Device, Stdout}
Life == {"none", "held", "released", "twice"}

\* Freeing or closing what is not held is an error of the program.
Released(x) == IF x = "held" THEN "released" ELSE "twice"
\* Freeing a cookie that may be NULL, closing an input or output that may be
\* stdin or stdout.  No pointer is cleared, so a second time is a second time.
ReleasedIfHeld(x) == IF x = "none" THEN x ELSE Released(x)

dec == mode = "dec"

Init ==
  /\ pc = "options"
  /\ mode \in {"enc", "dec", "info"} /\ explicit \in SUBSET All
  /\ zeroFrac \in BOOLEAN /\ method \in {"tty-stdin", "stdin-once", "other"}
  /\ inName \in {"named", "stdin"} /\ outName \in {"named", "stdout"}
  /\ authentic \in BOOLEAN
  /\ link \in (Files \ {New}) \cup {Device, Absent}
  /\ infd = None /\ outfd = None
  /\ infile = "none" /\ outfile = "none" /\ passwd = "none" /\ cookie = "none"
  /\ rc = "OK" /\ exit = "none"
  /\ touched = {} /\ data = [o \in Objects |-> 0]
  /\ accepted = 0

Goto(where) == pc' = where
Exit(status) == pc' = "done" /\ exit' = status

\* The checks of main after the options are parsed.
OptionsFault ==
  \/ explicit \notin {{}, All}
  \/ dec /\ explicit # {}
  \/ zeroFrac
  \/ method = "stdin-once" /\ inName = "stdin"

Options ==
  /\ pc = "options"
  /\ IF OptionsFault THEN Exit("failed") ELSE Goto("open_in") /\ UNCHANGED exit
  /\ UNCHANGED <<options, link, infd, outfd, held, rc, touched, data, accepted>>

\* fopen of the input, or stdin, which may be redirected from a file.
OpenIn ==
  /\ pc = "open_in"
  /\ \/ /\ inName = "named"
        /\ Exit("failed")
        /\ UNCHANGED <<infd, infile>>
     \/ /\ infd' \in (Files \ {New}) \cup {Pipe}
        /\ infile' = IF inName = "named" THEN "held" ELSE "none"
        /\ Goto(IF mode = "info" THEN "info" ELSE "same")
        /\ UNCHANGED exit
  /\ UNCHANGED <<options, link, outfd, outfile, passwd, cookie, rc, touched, data, accepted>>

\* scrypt_mode_info: reads a header and prints its parameters.
Info ==
  /\ pc = "info"
  /\ \E status \in {"ok", "failed"} : Exit(status)
  /\ infile' = ReleasedIfHeld(infile)
  /\ UNCHANGED <<options, link, infd, outfd, outfile, passwd, cookie, rc, touched, data, accepted>>

\* same_file; a stat that fails says different.
SameFile ==
  /\ pc = "same"
  /\ \/ /\ outName = "named" /\ infd \in Files /\ link = infd
        /\ Goto("err1")
     \/ Goto("passphrase")
  /\ UNCHANGED <<options, link, infd, outfd, held, rc, exit, touched, data, accepted>>

NoPassphrase == Goto("err1")

\* passphrase_entry_readpass; then a decryption reads and authenticates.
Passphrase ==
  /\ pc = "passphrase"
  /\ \/ NoPassphrase /\ UNCHANGED passwd
     \/ /\ passwd' = "held"
        /\ Goto(IF dec THEN "prep" ELSE "open_out")
  /\ UNCHANGED <<options, link, infd, outfd, infile, outfile, cookie, rc, exit,
                 touched, data, accepted>>

PrepAccepts_Header == TRUE              \* mutant: looks at the header only
PrepAccepts == authentic

\* scryptdec_file_prep.
Prep ==
  /\ pc = "prep"
  /\ \/ /\ PrepAccepts
        /\ cookie' = "held"
        /\ Goto("open_out")
        /\ UNCHANGED rc
     \/ /\ rc' = "error"
        /\ Goto("cleanup")
        /\ UNCHANGED cookie
  /\ UNCHANGED <<options, link, infd, outfd, infile, outfile, passwd, exit, touched, data, accepted>>
-----------------------------------------------------------------------------
\* open_output: open without truncating ...
OpenOut ==
  /\ pc = "open_out"
  /\ IF outName = "stdout"
       THEN Goto("work") /\ outfd' = Stdout /\ UNCHANGED <<link, outfile, touched>>
       ELSE \/ Goto("err2") /\ UNCHANGED <<link, outfd, outfile, touched>>
            \/ /\ link' = IF link = Absent THEN New ELSE link
               /\ outfd' = link' /\ outfile' = "held"
               /\ touched' = IF link = Absent THEN {New} ELSE {}
               /\ Goto("compare")
  /\ UNCHANGED <<options, infd, infile, passwd, cookie, rc, exit, data, accepted>>

SameOpened_ByPath == infd \in Files /\ link = infd  \* mutant: stats the path
SameOpened == infd \in Files /\ outfd = infd

\* ... compare what was opened with the input ...
Compare ==
  /\ pc = "compare"
  /\ \/ ~SameOpened /\ Goto("truncate") /\ UNCHANGED outfile
     \/ Goto("err2") /\ outfile' = Released(outfile)   \* the same, or fstat fails
  /\ UNCHANGED <<options, link, infd, outfd, infile, passwd, cookie, rc, exit,
                 touched, data, accepted>>

\* ... and only then truncate a regular file, and fdopen.
Truncate ==
  /\ pc = "truncate"
  /\ \/ /\ touched' = touched \cup ({outfd} \cap Files)
        /\ \/ Goto("work") /\ UNCHANGED outfile
           \/ Goto("err2") /\ outfile' = Released(outfile)
     \/ Goto("err2") /\ outfile' = Released(outfile) /\ UNCHANGED touched
  /\ UNCHANGED <<options, link, infd, outfd, infile, passwd, cookie, rc, exit,
                 data, accepted>>

\* A block is accepted by fwrite, and some of what is accepted is delivered;
\* or the call fails: in reading, in its setup or in delivering.
Work ==
  /\ pc = "work"
  /\ \/ /\ accepted < Units
        /\ accepted' = accepted + 1
        /\ \E n \in data[outfd]..accepted' : data' = [data EXCEPT ![outfd] = n]
        /\ UNCHANGED <<pc, rc>>
     \/ /\ accepted = Units
        /\ Goto("cleanup")
        /\ UNCHANGED <<rc, data, accepted>>
     \/ /\ rc' = "error"
        /\ Goto("cleanup")
        /\ UNCHANGED <<data, accepted>>
  /\ UNCHANGED <<options, link, infd, outfd, held, exit, touched>>

\* cleanup: the cookie, the passphrase and the input.
Cleanup ==
  /\ pc = "cleanup"
  /\ cookie' = ReleasedIfHeld(cookie)
  /\ passwd' = Released(passwd)
  /\ infile' = ReleasedIfHeld(infile)
  /\ Goto("close_out")
  /\ UNCHANGED <<options, link, infd, outfd, outfile, rc, exit, touched, data, accepted>>

\* Whether the output is closed or flushed before the status is decided.
Delivers_Named == outfile = "held"      \* mutant: does not flush stdout
Delivers == outfile = "held" \/ outName = "stdout"

\* fclose of the output or fflush of stdout, and the exit status.
CloseOut ==
  /\ pc = "close_out"
  /\ outfile' = ReleasedIfHeld(outfile)
  /\ IF Delivers /\ outfd # None
       THEN \/ /\ data' = [data EXCEPT ![outfd] = accepted]
               /\ Exit(IF rc = "OK" THEN "ok" ELSE "failed")
               /\ UNCHANGED rc
            \/ /\ \E n \in data[outfd]..accepted : data' = [data EXCEPT ![outfd] = n]
               /\ rc' = "error"
               /\ Exit("failed")
       ELSE Exit(IF rc = "OK" THEN "ok" ELSE "failed") /\ UNCHANGED <<rc, data>>
  /\ UNCHANGED <<options, link, infd, outfd, infile, passwd, cookie, touched,
                 accepted>>

\* err2: what was acquired before the output was opened.
Err2_KeepCookie == cookie' = cookie /\ passwd' = Released(passwd)   \* mutant
Err2_Releases == cookie' = ReleasedIfHeld(cookie) /\ passwd' = Released(passwd)
Err2 ==
  /\ pc = "err2"
  /\ Err2_Releases
  /\ Goto("err1")
  /\ UNCHANGED <<options, link, infd, outfd, infile, outfile, rc, exit, touched, data, accepted>>

Err1 ==
  /\ pc = "err1"
  /\ infile' = ReleasedIfHeld(infile)
  /\ Exit("failed")
  /\ UNCHANGED <<options, link, infd, outfd, outfile, passwd, cookie, rc, touched, data, accepted>>

\* Another process makes the output path name something else.
Relink ==
  /\ pc # "done" /\ outName = "named"
  /\ link' \in (Files \cup {Device, Absent}) \ {New}
  /\ UNCHANGED <<pc, options, infd, outfd, held, rc, exit, touched, data, accepted>>

Steps == Options \/ OpenIn \/ Info \/ SameFile \/ Passphrase \/ Prep \/ OpenOut
         \/ Compare \/ Truncate \/ Work \/ Cleanup \/ CloseOut \/ Err2 \/ Err1
Next == Steps \/ Relink

Spec == Init /\ [][Next]_vars
-----------------------------------------------------------------------------
PCs == {"options", "open_in", "info", "same", "passphrase", "prep", "open_out",
        "compare", "truncate", "work", "cleanup", "close_out", "err2", "err1", "done"}

\* Types; nothing is freed or closed that is not held.
TypeOK ==
  /\ pc \in PCs /\ rc \in {"OK", "error"} /\ exit \in {"none", "ok", "failed"}
  /\ mode \in {"enc", "dec", "info"} /\ explicit \subseteq All
  /\ inName \in {"named", "stdin"} /\ outName \in {"named", "stdout"}
  /\ {infile, outfile, passwd, cookie} \subseteq Life \ {"twice"}
  /\ link \in Files \cup {Device, Absent}
  /\ infd \in Files \cup {Pipe, None} /\ outfd \in Objects \cup {None}
  /\ touched \subseteq Files /\ data \in [Objects -> 0..Units]
  /\ accepted \in 0..Units

\* Whatever the output path is made to name, and when, the input file and every
\* file but the one that was opened and compared keep their contents.
InputIntact ==
  \A f \in Files : f = infd \/ f # outfd => f \notin touched /\ data[f] = 0

\* A file that does not authenticate changes nothing: no output is created,
\* truncated or written.  main.c:235-250 prepares the decryption before it opens
\* the output; scrypt.1 says otherwise twice: that outfile is truncated before
\* infile is read (69-73) and that output may come before the input is known to
\* be corrupt (213-216).
RejectedTouchesNothing ==
  dec /\ ~authentic => touched = {} /\ \A o \in Objects : data[o] = 0

\* Exit status 0 means that all of the output was delivered to where it was
\* opened, and that it was authentic if it was decrypted.
ExitZeroMeansWhole ==
  exit = "ok" /\ mode # "info"
    => rc = "OK" /\ outfd # None /\ data[outfd] = Units /\ (dec => authentic)

\* However the command ends, the passphrase and the cookie are gone and the
\* files are closed; and nothing is ever freed or closed twice, though cleanup,
\* err2 and err1 release some of the same things.
AllReleased ==
  /\ "twice" \notin {infile, outfile, passwd, cookie}
  /\ exit # "none" => "held" \notin {infile, outfile, passwd, cookie}
=============================================================================
