-------------------------------- MODULE Startup --------------------------------
(***************************************************************************)
(* A run of scrypt up to its first derived key: the command line, then the *)
(* passphrase, then memory and speed, each a module of its own, in the     *)
(* order of main, scrypt_mode_enc_dec and pickparams or checkparams.  Each *)
(* starts from what the command line asked; what one leaves in its locals  *)
(* is gone when the next starts.                                           *)
(***************************************************************************)
EXTENDS CommandLine, Passphrase, Measure

VARIABLES
  phase,      \* "options", "passphrase", "memory", "speed" or "done"
  asked,      \* what the command line hands to the rest
  opps        \* the speed: cores counted, and the time that took; <<>> if not measured

vars == <<phase, asked, opps, clvars, ppvars, msvars>>

-----------------------------------------------------------------------------
Nobody == [method |-> "none", once |-> FALSE, frac |-> 0, mem |-> 0, measures |-> FALSE]

Init ==
  /\ phase = "options" /\ asked = Nobody /\ opps = <<>>
  /\ CLInit /\ PPInit /\ MSInit

Asked ==
  [method |-> set.entry, once |-> mode = "dec", frac |-> set.maxmemfrac, mem |-> set.maxmem,
   measures |-> ~set.force \/ (mode = "enc" /\ set.logN = 0)]

Exits(speed) == phase' = "done" /\ asked' = Nobody /\ opps' = speed

Parse == phase = "options" /\ CLNext /\ UNCHANGED <<phase, asked, opps, ppvars, msvars>>

\* main ends; or scrypt info, which needs no passphrase and measures nothing.
Leave ==
  /\ phase = "options" /\ cl_pc \notin {"getopt", "switch", "parsed", "enc", "dec"}
  /\ Exits(<<>>) /\ CLDone /\ UNCHANGED <<ppvars, msvars>>

\* scrypt_mode_enc_dec; the input may not open.
ToPassphrase ==
  /\ phase = "options" /\ cl_pc \in {"enc", "dec"} /\ CLDone
  /\ \/ /\ phase' = "passphrase" /\ asked' = Asked
        /\ PPCall(Asked.method, Asked.once)
        /\ UNCHANGED <<opps, msvars>>
     \/ Exits(<<>>) /\ UNCHANGED <<ppvars, msvars>>

Pass == phase = "passphrase" /\ PPNext /\ UNCHANGED <<phase, asked, opps, clvars, msvars>>

NoPassphrase ==
  /\ phase = "passphrase" /\ pp_pc \in {"refused", "error"}
  /\ Exits(<<>>) /\ PPDone /\ UNCHANGED <<clvars, msvars>>

\* scryptenc_file or scryptdec_file_prep.  Explicit parameters, or those of a
\* file, are used under -f whatever they need; a file may not be acceptable.
ToMemory ==
  /\ phase = "passphrase" /\ pp_pc = "done" /\ PPDone /\ UNCHANGED clvars
  /\ \/ /\ asked.measures
        /\ phase' = "memory" /\ MSAt("usermem", asked.frac, asked.mem)
        /\ UNCHANGED <<asked, opps>>
     \/ (~asked.measures \/ asked.once) /\ Exits(<<>>) /\ UNCHANGED msvars

Memory == phase = "memory" /\ Memlimit /\ UNCHANGED <<phase, asked, opps, clvars, ppvars>>

NoMemory ==
  /\ phase = "memory" /\ ms_pc = "ELIMIT"
  /\ Exits(<<>>) /\ MSDone /\ UNCHANGED <<clvars, ppvars>>

ToSpeed ==
  /\ phase = "memory" /\ ms_pc = "limited"
  /\ phase' = "speed" /\ asked' = Nobody /\ MSAt("getres", 0, 0)
  /\ UNCHANGED <<opps, clvars, ppvars>>

Speed == phase = "speed" /\ CpuPerf /\ UNCHANGED <<phase, asked, opps, clvars, ppvars>>

\* The clock does not wait for the process.
Time == phase = "speed" /\ Tick /\ UNCHANGED <<phase, asked, opps, clvars, ppvars>>
TimeOfDay == phase = "speed" /\ SetBack /\ UNCHANGED <<phase, asked, opps, clvars, ppvars>>

Measured ==
  /\ phase = "speed" /\ MSDone /\ UNCHANGED <<clvars, ppvars>>
  /\ \/ ms_pc \in {"ECLOCK", "EKEY"} /\ Exits(<<>>)
     \/ ms_pc = "measured" /\ Exits(<<cores, diffd>>)

Steps == \/ Parse \/ Leave \/ ToPassphrase \/ Pass \/ NoPassphrase \/ ToMemory
         \/ Memory \/ NoMemory \/ ToSpeed \/ Speed \/ Measured
Next == Steps \/ Time \/ TimeOfDay

Spec == Init /\ [][Next]_vars /\ WF_vars(Steps) /\ WF_vars(Time)
-----------------------------------------------------------------------------
\* A run gets past its start whatever the terminal, the files and the clock
\* do: with an error, or with a speed that is a positive number of operations
\* in a positive time, though the clock may stand still for long and be set
\* back.  Only a user who goes on typing two different passphrases keeps it.
StartupEnds ==
  \/ <>(phase = "done" /\ (opps # <<>> => opps[1] > 0 /\ opps[2] > 0))
  \/ []<><<Mismatch>>_vars
=============================================================================
