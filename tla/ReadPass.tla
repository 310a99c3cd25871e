------------------------------- MODULE ReadPass -------------------------------
(***************************************************************************)
(* readpass (readpass.c): reading a passphrase from the terminal or stdin  *)
(* with the echo off, while signals arrive at any time.  The process       *)
(* catches the signals of badsigs for as long as the echo is off, and      *)
(* sends them to itself once the terminal is as it was.                    *)
(*                                                                         *)
(* A line is a member of Lines here; how bytes make a line is left out.    *)
(***************************************************************************)
EXTENDS Integers, Sequences

CONSTANTS
  badsigs,     \* the signals that are caught, in their order
  Fatal,       \* those whose default action is to end the process; the others stop it
  Lines,       \* what can be typed
  Zeroed,      \* the contents of a buffer that was zeroed
  MaxCalls,    \* bound: calls of readpass in the life of the process
  MaxSignals   \* bound: signals sent to it

ASSUME SignalsAssumption ==
  /\ badsigs \in Seq(STRING) /\ badsigs # <<>>
  /\ \A k, l \in DOMAIN badsigs : badsigs[k] = badsigs[l] => k = l
  /\ Fatal \subseteq {badsigs[i] : i \in DOMAIN badsigs}
ASSUME ZeroedAssumption == Zeroed \notin Lines
ASSUME BoundsAssumption == MaxCalls \in Nat /\ MaxSignals \in Nat

VARIABLES
  status,      \* "running", "stopped" or "killed"
  pc, i,       \* where readpass is; the index of its loops over badsigs
  devtty, confirm,        \* its arguments
  opened,      \* /dev/tty is open
  usingtty,    \* what it reads from is a terminal
  orig,        \* the disposition of each signal outside of readpass
  disp,        \* the present one
  savedsa,     \* what was saved of it
  gotsig,
  echo,        \* the terminal echoes
  termOld,     \* what term_old says of that
  passbuf, confpassbuf,
  passwd,      \* what the last call returned, Zeroed if it failed
  calls, sent, \* how many calls were made and signals sent
  pending,     \* history: signals caught that have not had their effect
  unrestored   \* history: a call that sets the terminal back was interrupted

args == <<devtty, confirm>>
terminal == <<opened, usingtty, termOld, echo>>
signals == <<orig, disp, savedsa, gotsig>>
buffers == <<passbuf, confpassbuf, passwd>>
history == <<pending, unrestored>>
rpvars == <<status, pc, i, args, terminal, signals, buffers, calls, sent, history>>

-----------------------------------------------------------------------------
Sigs == {badsigs[k] : k \in DOMAIN badsigs}
NSIGS == Len(badsigs)
Goto(where) == pc' = where /\ i' = 1
running == status = "running"

RPInit ==
  /\ status = "running" /\ pc = "idle" /\ i = 1
  /\ devtty = 0 /\ confirm = FALSE
  /\ opened = FALSE /\ usingtty = FALSE /\ termOld = TRUE /\ echo = TRUE
  /\ orig \in [Sigs -> {"default", "ignore"}] /\ disp = orig /\ savedsa = orig
  /\ gotsig = [s \in Sigs |-> FALSE]
  /\ passbuf = Zeroed /\ confpassbuf = Zeroed /\ passwd = Zeroed
  /\ calls = 0 /\ sent = 0 /\ pending = {} /\ unrestored = FALSE

Call ==
  /\ pc = "idle" /\ running /\ calls < MaxCalls
  /\ devtty' \in 0..2 /\ confirm' \in BOOLEAN
  /\ calls' = calls + 1 /\ passwd' = Zeroed
  /\ Goto("open")
  /\ UNCHANGED <<status, terminal, signals, passbuf, confpassbuf, sent, history>>

\* Where to read from.
Open ==
  /\ pc = "open" /\ running
  /\ \/ devtty # 0 /\ opened' = TRUE /\ Goto("clear")
     \/ devtty # 2 /\ opened' = FALSE /\ Goto("clear")
     \/ devtty = 2 /\ opened' = FALSE /\ Goto("err1")
  /\ UNCHANGED <<status, args, usingtty, termOld, echo, signals, buffers, calls, sent, history>>

ClearGotsig_Not == UNCHANGED gotsig                 \* mutant: keeps the last call's
ClearGotsig == gotsig' = [s \in Sigs |-> FALSE]

Clear ==
  /\ pc = "clear" /\ running
  /\ ClearGotsig
  /\ Goto("install")
  /\ UNCHANGED <<status, args, terminal, orig, disp, savedsa, buffers, calls, sent, history>>

Saves == savedsa' = [savedsa EXCEPT ![badsigs[i]] = disp[badsigs[i]]]

\* sigaction(badsigs[i], &sa, &savedsa[i]).
Install ==
  /\ pc = "install" /\ running
  /\ Saves
  /\ disp' = [disp EXCEPT ![badsigs[i]] = "handle"]
  /\ IF i < NSIGS THEN i' = i + 1 /\ UNCHANGED pc ELSE Goto("echo_off")
  /\ UNCHANGED <<status, args, terminal, orig, gotsig, buffers, calls, sent, history>>

\* isatty, tcgetattr and tcsetattr; what was opened as /dev/tty is a terminal.
EchoOff ==
  /\ pc = "echo_off" /\ running
  /\ \/ /\ ~opened
        /\ usingtty' = FALSE
        /\ Goto("read")
        /\ UNCHANGED <<echo, termOld>>
     \/ /\ usingtty' = TRUE /\ termOld' = echo /\ echo' = FALSE
        /\ Goto("read")
     \/ /\ usingtty' = TRUE /\ termOld' \in {termOld, echo}
        /\ Goto("err2")
        /\ UNCHANGED echo
  /\ UNCHANGED <<status, args, opened, signals, buffers, calls, sent, history>>
-----------------------------------------------------------------------------
ReadFails_Retry == Goto("read")                     \* mutant: asks again
ReadFails == Goto("err3")

\* readpass_readline into passbuf: a line, or the end of file, an error or
\* a line that is not accepted, which leave some of it in the buffer.
Read ==
  /\ pc = "read" /\ running
  /\ \/ passbuf' \in Lines /\ Goto(IF confirm THEN "confirm" ELSE "restore")
     \/ passbuf' \in Lines \cup {passbuf} /\ ReadFails
  /\ UNCHANGED <<status, args, terminal, signals, confpassbuf, passwd, calls, sent, history>>

Confirmed == IF confpassbuf' = passbuf THEN "restore" ELSE "read"

Confirm ==
  /\ pc = "confirm" /\ running
  /\ \/ confpassbuf' \in Lines /\ Goto(Confirmed)
     \/ confpassbuf' \in Lines \cup {confpassbuf} /\ Goto("err3")
  /\ UNCHANGED <<status, args, terminal, signals, passbuf, passwd, calls, sent, history>>

\* tcsetattr(term_old), before the signals are restored.
SetEcho_Success ==                      \* mutant: the error path forgets it
  IF usingtty /\ pc = "restore" THEN echo' = termOld ELSE UNCHANGED echo
SetEcho == IF usingtty THEN echo' = termOld ELSE UNCHANGED echo
Restore ==
  /\ pc \in {"restore", "err3"} /\ running
  /\ SetEcho
  /\ Goto(IF pc = "restore" THEN "reset" ELSE "err2")
  /\ UNCHANGED <<status, args, opened, usingtty, termOld, signals, buffers, calls, sent, history>>

\* fclose of /dev/tty on the way to failing.
Err2 ==
  /\ pc = "err2" /\ running
  /\ opened' = FALSE
  /\ Goto("reset_failed")
  /\ UNCHANGED <<status, args, usingtty, termOld, echo, signals, buffers, calls, sent, history>>

\* resetsigs restores every disposition ...
Reset ==
  /\ pc \in {"reset", "reset_failed"} /\ running
  /\ disp' = [disp EXCEPT ![badsigs[i]] = savedsa[badsigs[i]]]
  /\ IF i < NSIGS THEN i' = i + 1 /\ UNCHANGED pc
                  ELSE Goto(IF pc = "reset" THEN "raise" ELSE "raise_failed")
  /\ UNCHANGED <<status, args, terminal, orig, savedsa, gotsig, buffers, calls, sent, history>>

\* The action of a signal that is not caught.
Acts(s) ==
  status' = IF disp[s] = "ignore" THEN status ELSE IF s \in Fatal THEN "killed" ELSE "stopped"

Raised_Last == gotsig[badsigs[i]] /\ i = NSIGS      \* mutant: only the last
Raised == gotsig[badsigs[i]]

\* ... and re-issues the signals that came.
Raise ==
  /\ pc \in {"raise", "raise_failed"} /\ running
  /\ IF Raised THEN Acts(badsigs[i]) /\ pending' = pending \ {badsigs[i]} ELSE UNCHANGED <<status, pending>>
  /\ IF i < NSIGS THEN i' = i + 1 /\ UNCHANGED pc
                  ELSE Goto(IF pc = "raise" THEN "copy" ELSE "err1")
  /\ UNCHANGED <<args, terminal, signals, buffers, calls, sent, unrestored>>

\* fclose and strdup.
Copy ==
  /\ pc = "copy" /\ running
  /\ opened' = FALSE
  /\ \/ /\ passwd' = passbuf
        /\ Goto("zero")
     \/ /\ UNCHANGED passwd
        /\ Goto("err1")
  /\ UNCHANGED <<status, args, usingtty, termOld, echo, signals, passbuf, confpassbuf,
                 calls, sent, history>>

Zeroes == passbuf' = Zeroed /\ confpassbuf' = Zeroed

Return ==
  /\ pc \in {"zero", "err1"} /\ running
  /\ Zeroes
  /\ Goto("idle")
  /\ UNCHANGED <<status, args, terminal, signals, passwd, calls, sent, history>>
-----------------------------------------------------------------------------
\* A signal comes: it is caught, or has its action.
Catch(s) ==
  /\ running /\ sent < MaxSignals /\ disp[s] = "handle"
  /\ sent' = sent + 1
  /\ gotsig' = [gotsig EXCEPT ![s] = TRUE]
  /\ pending' = pending \cup {s}
  /\ UNCHANGED <<status, args, opened, usingtty, termOld, orig, disp, savedsa,
                 buffers, calls>>

Caught(s) == Catch(s) /\ UNCHANGED <<pc, i, echo, unrestored>>
\* There is no SA_RESTART: a read that waits fails with EINTR, ...
ReadInterrupted(s) ==
  /\ pc \in {"read", "confirm"}
  /\ Catch(s)
  /\ Goto("err3")
  /\ UNCHANGED <<echo, unrestored>>
\* ... and so does a tcsetattr; setting the terminal back is not tried again.
RestoreInterrupted(s) ==
  /\ pc \in {"restore", "err3"} /\ usingtty
  /\ Catch(s)
  /\ unrestored' = TRUE
  /\ Goto(IF pc = "restore" THEN "reset" ELSE "err2")
  /\ UNCHANGED echo
Uncaught(s) ==
  /\ running /\ sent < MaxSignals /\ disp[s] # "handle"
  /\ sent' = sent + 1
  /\ Acts(s)
  /\ UNCHANGED <<pc, i, args, terminal, signals, buffers, calls, history>>

\* SIGCONT.
Continue ==
  /\ status = "stopped"
  /\ status' = "running"
  /\ UNCHANGED <<pc, i, args, terminal, signals, buffers, calls, sent, history>>

RPSteps == Open \/ Clear \/ Install \/ EchoOff \/ Read \/ Confirm \/ Restore \/ Err2
         \/ Reset \/ Raise \/ Copy \/ Return
Signal == \E s \in Sigs : Caught(s) \/ ReadInterrupted(s) \/ RestoreInterrupted(s) \/ Uncaught(s)
RPNext == Call \/ RPSteps \/ Signal \/ Continue

\* The process runs, and a user who is asked for a line answers or ends the input.
RPSpec == RPInit /\ [][RPNext]_rpvars /\ WF_rpvars(RPSteps) /\ WF_rpvars(Continue)
-----------------------------------------------------------------------------
PCs == {"idle", "open", "clear", "install", "echo_off", "read", "confirm", "restore", "err3",
        "err2", "reset", "reset_failed", "raise", "raise_failed", "copy", "zero", "err1"}
Dispositions == {"default", "ignore", "handle"}

Flags ==
  /\ confirm \in BOOLEAN /\ opened \in BOOLEAN /\ usingtty \in BOOLEAN
  /\ echo \in BOOLEAN /\ termOld \in BOOLEAN /\ unrestored \in BOOLEAN

\* Types, and what is restored is never the handler.
TypeOK ==
  /\ Flags
  /\ status \in {"running", "stopped", "killed"} /\ pc \in PCs /\ i \in 1..NSIGS
  /\ devtty \in 0..2
  /\ orig \in [Sigs -> {"default", "ignore"}] /\ savedsa = orig
  /\ disp \in [Sigs -> Dispositions] /\ gotsig \in [Sigs -> BOOLEAN]
  /\ passbuf \in Lines \cup {Zeroed} /\ confpassbuf \in Lines \cup {Zeroed}
  /\ passwd \in Lines \cup {Zeroed}
  /\ calls \in 0..MaxCalls /\ sent \in 0..MaxSignals /\ pending \subseteq Sigs

\* Whatever signals come and when: a process that is stopped, killed, or out of
\* readpass leaves a terminal that echoes, except after the call that sets it
\* back was itself interrupted.
EchoRestored == ~running \/ pc = "idle" => echo \/ unrestored

\* No signal is lost: when readpass returns, each that was caught has had its
\* effect, and the dispositions are what they were.
NoSignalLost == pc = "idle" => pending = {} /\ disp = orig

\* No signal is made up: one that is re-issued came during this call.
NothingSpurious ==
  [][(pc \in {"raise", "raise_failed"} /\ sent' = sent /\ status' \notin {status, "running"})
       => badsigs[i] \in pending]_rpvars

\* A call that asks once returns, if the process is not killed.
CallEnds == (pc # "idle" /\ ~confirm) ~> (pc = "idle" \/ status = "killed")

\* readpass.c: "we'll re-send them to ourselves later after we re-enable
\* terminal echo".
ResentWithEcho == pc \in {"raise", "raise_failed"} /\ gotsig[badsigs[i]] => echo
=============================================================================
