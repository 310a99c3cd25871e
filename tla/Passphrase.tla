------------------------------ MODULE Passphrase ------------------------------
(***************************************************************************)
(* How bytes become a passphrase: passphrase_entry_readpass, the lines of  *)
(* readpass (readpass_readline, the confirmation and the final cut), the   *)
(* environment, and readpass_file.  Signals, the terminal and the buffers  *)
(* are the subject of ReadPass.                                            *)
(*                                                                         *)
(* What a stream gives is chosen when it is read, one byte at a time.      *)
(***************************************************************************)
EXTENDS Integers, Sequences, SequencesExt

CONSTANTS
  Chars,         \* bytes that are no NUL, CR or LF
  MAXPASSLEN     \* the size of the buffers, 2048

ASSUME PassAssumption ==
  MAXPASSLEN \in Nat \ {0, 1} /\ Chars \cap {"NUL", "CR", "LF", "EOF", "error"} = {}

VARIABLES
  pp_pc,
  method, once,  \* passphrase_entry; decrypting
  buf,           \* the line so far
  pp_passbuf,    \* the first line, while the second is read
  confirming,    \* the second line is being read
  pp_passwd,     \* the result
  typed,         \* history: what the stream gave since the start of the line, EOF too
  first          \* history: the same for the first line

ppvars == <<pp_pc, method, once, buf, pp_passbuf, confirming, pp_passwd, typed, first>>

-----------------------------------------------------------------------------
Bytes == Chars \cup {"NUL", "CR", "LF"}
EOL == {"CR", "LF"}
\* strcspn(s, set): as many as precede the first member of the set.
strcspn(s, set) == IF \E k \in DOMAIN s : s[k] \in set
                     THEN Min({k \in DOMAIN s : s[k] \in set}) - 1 ELSE Len(s)
Upto(s, set) == SubSeq(s, 1, strcspn(s, set))

PPInit ==
  /\ pp_pc = "entry" /\ method = "none" /\ once = FALSE
  /\ buf = <<>> /\ pp_passbuf = <<>> /\ confirming = FALSE /\ pp_passwd = <<>>
  /\ typed = <<>> /\ first = <<>>
\* A call, and what is left of it.
PPCall(m, o) ==
  /\ pp_pc' = "entry" /\ method' = m /\ once' = o
  /\ buf' = <<>> /\ pp_passbuf' = <<>> /\ confirming' = FALSE /\ pp_passwd' = <<>>
  /\ typed' = <<>> /\ first' = <<>>
PPDone == PPCall("none", FALSE)

Confirms == method = "tty_stdin" /\ ~once

\* passphrase_entry_readpass; /dev/tty and a file may not open, tty_stdin
\* then reads from stdin, and a variable may not be set.
Entry ==
  /\ pp_pc = "entry"
  /\ \/ /\ \/ method \in {"tty_stdin", "stdin_once", "tty_once"} /\ pp_pc' = "line"
           \/ method = "file" /\ pp_pc' = "fgets"
           \/ method \in {"tty_once", "file", "env"} /\ pp_pc' = "error"
        /\ UNCHANGED <<pp_passwd, typed>>
     \/ /\ method = "env"
        /\ \E value \in SeqOf(Bytes \ {"NUL"}, MAXPASSLEN + 1) : typed' = value /\ pp_passwd' = value
        /\ pp_pc' \in {"done", "error"}
  /\ UNCHANGED <<method, once, buf, pp_passbuf, confirming, first>>

\* fgetc: a byte, the end of the stream (and then nothing else), or an error.
Gets(c) ==
  /\ c \in IF first # <<>> /\ Last(first) = "EOF" THEN {"EOF"} ELSE Bytes \cup {"EOF", "error"}
  /\ typed' = Append(typed, c)
PPGoto(where) == pp_pc' = where /\ UNCHANGED buf
Line(b) == pp_pc' = "read" /\ buf' = b

\* readpass_readline: the loop.
ReadLine ==
  /\ pp_pc = "line" /\ Len(buf) < MAXPASSLEN - 1
  /\ \E c \in Bytes \cup {"EOF", "error"} :
       /\ Gets(c)
       /\ \/ c = "error" /\ PPGoto("error")
          \/ c = "EOF" /\ buf = <<>> /\ PPGoto("refused")
          \/ c = "EOF" /\ buf # <<>> /\ Line(buf)
          \/ c = "NUL" /\ PPGoto("refused")
          \/ c = "LF" /\ Line(Append(buf, c))
          \/ c \in Chars \cup {"CR"} /\ buf' = Append(buf, c) /\ UNCHANGED pp_pc
  /\ UNCHANGED <<method, once, pp_passbuf, confirming, pp_passwd, first>>

\* ... and what may follow MAXPASSLEN - 1 bytes.
Follows_Any(c) == c # "CR"                            \* mutant: fgets, which would not look
Follows(c) == c \in {"EOF", "LF"}
ReadFollowing ==
  /\ pp_pc = "line_cr" \/ (pp_pc = "line" /\ Len(buf) = MAXPASSLEN - 1)
  /\ \E c \in Bytes \cup {"EOF", "error"} :
       /\ Gets(c)
       /\ IF c = "error" THEN PPGoto("error")
          ELSE IF Follows(c) THEN Line(buf)
          ELSE IF c = "CR" /\ pp_pc = "line" THEN PPGoto("line_cr")
          ELSE PPGoto("refused")
  /\ UNCHANGED <<method, once, pp_passbuf, confirming, pp_passwd, first>>

Again == pp_pc' = "line" /\ buf' = <<>> /\ typed' = <<>>

\* readpass: the first line, the second, and all over if they differ.
FirstLine ==
  /\ pp_pc = "read" /\ ~confirming
  /\ pp_passbuf' = buf /\ first' = typed /\ confirming' = Confirms
  /\ IF Confirms THEN Again ELSE pp_pc' = "cut" /\ UNCHANGED <<buf, typed>>
  /\ UNCHANGED <<method, once, pp_passwd>>
SecondLine ==
  /\ pp_pc = "read" /\ confirming /\ buf = pp_passbuf
  /\ pp_pc' = "cut"
  /\ UNCHANGED <<method, once, buf, pp_passbuf, confirming, pp_passwd, typed, first>>
Mismatch ==
  /\ pp_pc = "read" /\ confirming /\ buf # pp_passbuf
  /\ Again /\ pp_passbuf' = <<>> /\ confirming' = FALSE
  /\ first' = IF Last(typed) = "EOF" THEN <<"EOF">> ELSE <<>>   \* the stream has ended
  /\ UNCHANGED <<method, once, pp_passwd>>

\* The end of readpass; strdup may fail.
Cut ==
  /\ pp_pc = "cut"
  /\ \/ pp_pc' = "done" /\ pp_passwd' = Upto(pp_passbuf, EOL)
     \/ pp_pc' = "error" /\ UNCHANGED pp_passwd
  /\ UNCHANGED <<method, once, buf, pp_passbuf, confirming, typed, first>>
-----------------------------------------------------------------------------
(* readpass_file.                                                          *)
\* fgets(passbuf, MAXPASSLEN, f), a byte at a time.
Fgets ==
  /\ pp_pc = "fgets"
  /\ IF Len(buf) = MAXPASSLEN - 1 \/ (buf # <<>> /\ Last(buf) = "LF")
       THEN PPGoto("fgetc") /\ UNCHANGED typed
       ELSE \E c \in Bytes \cup {"EOF", "error"} :
              /\ Gets(c)
              /\ IF c = "error" THEN PPGoto("error") ELSE IF c = "EOF" THEN PPGoto("fgetc")
                 ELSE buf' = Append(buf, c) /\ UNCHANGED pp_pc
  /\ UNCHANGED <<method, once, pp_passbuf, confirming, pp_passwd, first>>

\* fgetc(f) != EOF, and fclose; an error is an EOF here.
Fgetc ==
  /\ pp_pc = "fgetc"
  /\ IF typed # <<>> /\ Last(typed) = "EOF" THEN typed' = typed
       ELSE \E c \in Bytes \cup {"EOF", "error"} : Gets(c)
  /\ IF Last(typed') \notin {"EOF", "error"} THEN pp_pc' = "refused"
       ELSE pp_pc' \in {"strip", "error"}
  /\ UNCHANGED <<method, once, buf, pp_passbuf, confirming, pp_passwd, first>>

Without(s, c) == IF s # <<>> /\ Last(s) = c THEN Front(s) ELSE s

\* strlen, the stripping of LF or CR LF, what must not remain, and strdup.
Strip ==
  /\ pp_pc = "strip"
  /\ LET text == Upto(buf, {"NUL"})
         line == IF text # <<>> /\ Last(text) = "LF" THEN Without(Front(text), "CR") ELSE text
     IN IF strcspn(line, EOL) # Len(line) THEN pp_pc' = "refused" /\ UNCHANGED pp_passwd
        ELSE \/ pp_pc' = "done" /\ pp_passwd' = line
             \/ pp_pc' = "error" /\ UNCHANGED pp_passwd
  /\ UNCHANGED <<method, once, buf, pp_passbuf, confirming, typed, first>>

PPNext == \/ Entry \/ ReadLine \/ ReadFollowing \/ FirstLine \/ SecondLine \/ Mismatch \/ Cut
          \/ Fgets \/ Fgetc \/ Strip
-----------------------------------------------------------------------------
\* What a line gives: characters and CRs up to a LF or the end of the stream,
\* not longer than the buffer holds (a CR at the end does not count), are cut at
\* the first CR.
LineGives(line, passwd) ==
  LET bytes == Front(line) IN
  /\ line # <<>> /\ line # <<"EOF">> /\ Last(line) \in {"EOF", "LF"}
  /\ bytes \in Seq(Chars \cup {"CR"}) /\ Len(Without(bytes, "CR")) < MAXPASSLEN
  /\ passwd = Upto(bytes, {"CR"})
\* The same but for a CR at the end, which a line that fills the buffer leaves behind.
SameLine(s, t) == s = t \/ s = Append(t, "CR") \/ t = Append(s, "CR")

\* What a file gives: its one line up to a NUL, which is characters alone and may
\* end with LF or CR LF.
FileGives(file, passwd) ==
  LET bytes == Front(file) IN
  /\ file # <<>> /\ Last(file) \in {"EOF", "error"}
  /\ Len(bytes) < MAXPASSLEN /\ \A k \in 1..Len(bytes) - 1 : bytes[k] # "LF"
  /\ passwd \in Seq(Chars)
  /\ Upto(bytes, {"NUL"}) \in {passwd, passwd \o <<"LF">>, passwd \o <<"CR", "LF">>}

\* The passphrase of an accepted source is determined by its bytes: none is
\* dropped at the limit, a line has ended where it is cut, and two lines that
\* confirm each other are the same line.  What is refused has no passphrase to
\* give: a line with nothing, a NUL or too much in it, a file with too much, with a
\* second line or with a CR or a LF inside.  So all sources that take a line of
\* characters alone give that passphrase.  With other bytes the code's sources
\* differ, and this says how: behind a CR the rest of a line is dropped, a file
\* is refused and a variable is kept; a line with a NUL is refused, and behind it
\* the rest of a file is dropped.
PassphraseIsLine ==
  /\ pp_pc = "done" =>
       CASE method = "env"  -> pp_passwd = typed
         [] method = "file" -> FileGives(typed, pp_passwd)
         [] OTHER -> /\ LineGives(first, pp_passwd)
                     /\ Confirms => /\ LineGives(typed, pp_passwd)
                                    /\ SameLine(Front(first), Front(typed))
  /\ pp_pc = "refused" =>
       IF method # "file" THEN \/ typed = <<"EOF">> \/ "NUL" \in Range(typed)
                               \/ Len(Without(typed, "CR")) >= MAXPASSLEN
       ELSE IF Last(typed) \notin {"EOF", "error"}
         THEN Len(typed) >= MAXPASSLEN \/ "LF" \in Range(Front(typed))
       ELSE \A n \in 0..Len(typed) : ~FileGives(typed, SubSeq(typed, 1, n))
=============================================================================
