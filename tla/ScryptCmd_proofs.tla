--------------------------- MODULE ScryptCmd_proofs ---------------------------
(***************************************************************************)
(* For any files and any length of the output: however the output path is  *)
(* relinked, the input and every file but the one compared with it keep    *)
(* their contents; what does not authenticate changes nothing; exit status *)
(* 0 means that everything was delivered; and everything is released.      *)
(***************************************************************************)
EXTENDS ScryptCmd, TLAPS

-----------------------------------------------------------------------------
Early == {"options", "open_in", "info", "same", "passphrase", "prep"}
NotHeld == {"none", "released"}
MayBeHeld == {"none", "held"}

\* What is held where: each place acquires or releases one of them.
Held ==
  /\ pc \in Early \cup {"open_out"} => outfile = "none"
  /\ pc \in {"compare", "truncate"} => outfile = "held" /\ outName = "named"
  /\ pc \in {"work", "cleanup", "close_out"} => outfile \in MayBeHeld
  /\ pc \in {"err2", "err1", "done"} => outfile \in NotHeld
  /\ pc \in Early => cookie = "none"
  /\ pc \in {"open_out", "compare", "truncate", "work", "cleanup", "err2"} => cookie \in MayBeHeld
  /\ pc \in {"close_out", "err1", "done"} => cookie \in NotHeld
  /\ pc \in {"options", "open_in", "info", "same", "passphrase"} => passwd = "none"
  /\ pc \in {"prep", "open_out", "compare", "truncate", "work", "cleanup", "err2"} => passwd = "held"
  /\ pc \in {"close_out", "err1", "done"} => passwd \in NotHeld
  /\ pc \in {"options", "open_in"} => infile = "none"
  /\ pc \in {"close_out", "done"} => infile \in NotHeld
  /\ pc \notin {"close_out", "done"} => infile \in MayBeHeld

\* Until the output is opened nothing is changed, and only its new file exists
\* since; the input is not that file.
NothingBefore ==
  /\ pc \in Early \cup {"open_out"} => outfd = None /\ link # New
  /\ outfd = None => touched = {} /\ accepted = 0 /\ \A o \in Objects : data[o] = 0
  /\ infd # New

\* Only what was opened is changed; and only if it is not the input, which is
\* known since the comparison.
OnlyOpened ==
  /\ touched \subseteq {outfd}
  /\ \A o \in Objects : o # outfd => data[o] = 0
  /\ infd \in Files /\ outfd = infd => touched = {} /\ \A o \in Objects : data[o] = 0
Compared ==
  pc \in {"truncate", "work", "cleanup", "close_out"} => (infd \in Files => outfd # infd)

\* The output is opened after the input has authenticated.
AuthenticFirst ==
  dec /\ ~authentic =>
    /\ pc \in Early \cup {"cleanup", "close_out", "err1", "done"}
    /\ outfd = None

\* What the status will be made of.
Status ==
  /\ exit # "none" <=> pc = "done"
  /\ pc = "info" => mode = "info"
  /\ pc \in {"compare", "truncate", "work"} => outfd # None
  /\ pc \in {"work", "cleanup", "close_out"} /\ rc = "OK"
       => outfd # None /\ (outfile = "held" \/ outName = "stdout")
  /\ pc \in {"cleanup", "close_out"} /\ rc = "OK" => accepted = Units

IInv == /\ TypeOK /\ Held /\ NothingBefore /\ OnlyOpened /\ Compared
        /\ AuthenticFirst /\ Status /\ ExitZeroMeansWhole

-----------------------------------------------------------------------------
\* The invariant holds when the command starts.
LEMMA InitInvariant == Init => IInv
<1> SUFFICES ASSUME Init PROVE IInv
  OBVIOUS
<1>1. TypeOK
  BY UnitsAssumption DEF Init, TypeOK, PCs, Life
<1>2. Held /\ NothingBefore
  BY NamesAssumption DEF Init, Held, NothingBefore, MayBeHeld
<1>3. OnlyOpened /\ Compared /\ AuthenticFirst
  BY DEF Init, OnlyOpened, Compared, AuthenticFirst, Early
<1>4. Status /\ ExitZeroMeansWhole
  BY DEF Init, Status, ExitZeroMeansWhole
<1> QED
  BY <1>1, <1>2, <1>3, <1>4 DEF IInv

\* The checks of the options preserve the invariant.
LEMMA OptionsPreserves == IInv /\ Options => IInv'
<1> SUFFICES ASSUME IInv, Options PROVE IInv'
  OBVIOUS
<1>1. TypeOK'
  BY DEF IInv, Options, Goto, Exit, options, held, TypeOK, PCs
<1>2. Held'
  BY DEF IInv, Options, Goto, Exit, held, Held, Early, NotHeld
<1>3. NothingBefore'
  BY DEF IInv, Options, NothingBefore, Early
<1>4. OnlyOpened'
  BY DEF IInv, Options, OnlyOpened
<1>5. Compared'
  BY DEF Options, Goto, Exit, Compared
<1>6. AuthenticFirst'
  BY DEF IInv, Options, Goto, Exit, options, AuthenticFirst, Early, dec
<1>7. Status' /\ ExitZeroMeansWhole'
  BY DEF IInv, Options, Goto, Exit, Status, ExitZeroMeansWhole
<1> QED
  BY <1>1, <1>2, <1>3, <1>4, <1>5, <1>6, <1>7 DEF IInv

\* Opening the input preserves the invariant.
LEMMA OpenInPreserves == IInv /\ OpenIn => IInv'
<1> SUFFICES ASSUME IInv, OpenIn PROVE IInv'
  OBVIOUS
<1>1. TypeOK'
  BY DEF IInv, OpenIn, Goto, Exit, options, TypeOK, PCs, Life
<1>2. Held'
  BY DEF IInv, OpenIn, Goto, Exit, Held, Early, NotHeld, MayBeHeld
<1>3. NothingBefore'
  BY NamesAssumption DEF IInv, OpenIn, NothingBefore, Early
<1>4. OnlyOpened'
  BY DEF IInv, OpenIn, NothingBefore, OnlyOpened, Early
<1>5. Compared'
  BY DEF OpenIn, Goto, Exit, Compared
<1>6. AuthenticFirst'
  BY DEF IInv, OpenIn, Goto, Exit, options, AuthenticFirst, Early, dec
<1>7. Status' /\ ExitZeroMeansWhole'
  BY DEF IInv, OpenIn, Goto, Exit, options, Status, ExitZeroMeansWhole
<1> QED
  BY <1>1, <1>2, <1>3, <1>4, <1>5, <1>6, <1>7 DEF IInv

\* Printing the parameters preserves the invariant.
LEMMA InfoPreserves == IInv /\ Info => IInv'
<1> SUFFICES ASSUME IInv, Info PROVE IInv'
  OBVIOUS
<1>1. TypeOK'
  BY DEF IInv, Info, Exit, Released, ReleasedIfHeld, options, TypeOK, PCs, Life, Held, Early, MayBeHeld
<1>2. Held'
  BY DEF IInv, Info, Exit, Released, ReleasedIfHeld, Held, Early, NotHeld, MayBeHeld
<1>3. NothingBefore'
  BY DEF IInv, Info, NothingBefore, Early
<1>4. OnlyOpened'
  BY DEF IInv, Info, OnlyOpened
<1>5. Compared'
  BY DEF Info, Exit, Compared
<1>6. AuthenticFirst'
  BY DEF IInv, Info, Exit, options, AuthenticFirst, dec
<1>7. Status' /\ ExitZeroMeansWhole'
  BY DEF IInv, Info, Exit, options, Status, ExitZeroMeansWhole
<1> QED
  BY <1>1, <1>2, <1>3, <1>4, <1>5, <1>6, <1>7 DEF IInv

\* The first comparison preserves the invariant.
LEMMA SameFilePreserves == IInv /\ SameFile => IInv'
<1> SUFFICES ASSUME IInv, SameFile PROVE IInv'
  OBVIOUS
<1>1. TypeOK'
  BY DEF IInv, SameFile, Goto, options, held, TypeOK, PCs
<1>2. Held'
  BY DEF IInv, SameFile, Goto, held, Held, Early, NotHeld
<1>3. NothingBefore'
  BY DEF IInv, SameFile, NothingBefore, Early
<1>4. OnlyOpened'
  BY DEF IInv, SameFile, OnlyOpened
<1>5. Compared'
  BY DEF SameFile, Goto, Compared
<1>6. AuthenticFirst'
  BY DEF IInv, SameFile, Goto, options, AuthenticFirst, Early, dec
<1>7. Status' /\ ExitZeroMeansWhole'
  BY DEF IInv, SameFile, Goto, Status, ExitZeroMeansWhole
<1> QED
  BY <1>1, <1>2, <1>3, <1>4, <1>5, <1>6, <1>7 DEF IInv

\* Reading the passphrase preserves the invariant.
LEMMA PassphrasePreserves == IInv /\ Passphrase => IInv'
<1> SUFFICES ASSUME IInv, Passphrase PROVE IInv'
  OBVIOUS
<1>1. TypeOK'
  BY DEF IInv, Passphrase, NoPassphrase, Goto, options, TypeOK, PCs, Life
<1>2. Held'
  BY DEF IInv, Passphrase, NoPassphrase, Goto, Held, Early, NotHeld, MayBeHeld
<1>3. NothingBefore'
  BY DEF IInv, Passphrase, NothingBefore, Early
<1>4. OnlyOpened'
  BY DEF IInv, Passphrase, OnlyOpened
<1>5. Compared'
  BY DEF Passphrase, NoPassphrase, Goto, Compared
<1>6. AuthenticFirst'
  BY DEF IInv, Passphrase, NoPassphrase, Goto, options, AuthenticFirst, Early, dec
<1>7. Status' /\ ExitZeroMeansWhole'
  BY DEF IInv, Passphrase, NoPassphrase, Goto, Status, ExitZeroMeansWhole
<1> QED
  BY <1>1, <1>2, <1>3, <1>4, <1>5, <1>6, <1>7 DEF IInv

\* Authenticating the input preserves the invariant.
LEMMA PrepPreserves == IInv /\ Prep => IInv'
<1> SUFFICES ASSUME IInv, Prep PROVE IInv'
  OBVIOUS
<1>1. TypeOK'
  BY DEF IInv, Prep, Goto, options, TypeOK, PCs, Held
<1>2. Held'
  BY DEF IInv, Prep, Goto, Held, Early, MayBeHeld
<1>3. NothingBefore'
  BY DEF IInv, Prep, NothingBefore, Early
<1>4. OnlyOpened'
  BY DEF IInv, Prep, OnlyOpened
<1>5. Compared'
  BY NamesAssumption DEF IInv, Prep, NothingBefore, Compared, Early
<1>6. AuthenticFirst'
  BY DEF IInv, Prep, PrepAccepts, Goto, options, AuthenticFirst, dec
<1>7. Status' /\ ExitZeroMeansWhole'
  BY DEF IInv, Prep, Goto, Status, ExitZeroMeansWhole
<1> QED
  BY <1>1, <1>2, <1>3, <1>4, <1>5, <1>6, <1>7 DEF IInv

\* Opening the output preserves the invariant.
LEMMA OpenOutPreserves == IInv /\ OpenOut => IInv'
<1> SUFFICES ASSUME IInv, OpenOut PROVE IInv'
  OBVIOUS
<1>1. TypeOK'
  BY NamesAssumption DEF IInv, OpenOut, Goto, options, TypeOK, PCs, Objects, Held
<1>2. Held'
  BY DEF IInv, OpenOut, Goto, options, TypeOK, Held, Early, NotHeld, MayBeHeld
<1>3. NothingBefore'
  BY NamesAssumption DEF IInv, OpenOut, Goto, NothingBefore, Early
<1>4. OnlyOpened'
  BY DEF IInv, OpenOut, NothingBefore, OnlyOpened
<1>5. Compared'
  BY NamesAssumption DEF OpenOut, Goto, Compared
<1>6. AuthenticFirst'
  BY DEF IInv, OpenOut, options, AuthenticFirst, Early, dec
<1>7. Status' /\ ExitZeroMeansWhole'
  BY NamesAssumption DEF IInv, OpenOut, Goto, options, TypeOK, Status, ExitZeroMeansWhole
<1> QED
  BY <1>1, <1>2, <1>3, <1>4, <1>5, <1>6, <1>7 DEF IInv

\* Comparing what was opened with the input preserves the invariant.
LEMMA ComparePreserves == IInv /\ Compare => IInv'
<1> SUFFICES ASSUME IInv, Compare PROVE IInv'
  OBVIOUS
<1>1. TypeOK'
  BY DEF IInv, Compare, Goto, Released, options, TypeOK, PCs, Life, Held
<1>2. Held'
  BY DEF IInv, Compare, Goto, Released, options, Held, Early, NotHeld
<1>3. NothingBefore'
  BY DEF IInv, Compare, Goto, NothingBefore, Early
<1>4. OnlyOpened'
  BY DEF IInv, Compare, OnlyOpened
<1>5. Compared'
  BY DEF Compare, SameOpened, Goto, Compared
<1>6. AuthenticFirst'
  BY DEF IInv, Compare, options, AuthenticFirst, Early, dec
<1>7. Status' /\ ExitZeroMeansWhole'
  BY DEF IInv, Compare, Goto, Status, ExitZeroMeansWhole
<1> QED
  BY <1>1, <1>2, <1>3, <1>4, <1>5, <1>6, <1>7 DEF IInv

\* Truncating the output preserves the invariant.
LEMMA TruncatePreserves == IInv /\ Truncate => IInv'
<1> SUFFICES ASSUME IInv, Truncate PROVE IInv'
  OBVIOUS
<1>1. TypeOK'
  BY DEF IInv, Truncate, Goto, Released, options, TypeOK, PCs, Life, Held
<1>2. Held'
  BY DEF IInv, Truncate, Goto, Released, Held, Early, NotHeld, MayBeHeld
<1>3. NothingBefore'
  BY NamesAssumption DEF IInv, Truncate, Goto, NothingBefore, Early
<1>4. OnlyOpened'
  BY DEF IInv, Truncate, OnlyOpened, Compared
<1>5. Compared'
  BY DEF IInv, Truncate, Compared
<1>6. AuthenticFirst'
  BY DEF IInv, Truncate, options, AuthenticFirst, Early, dec
<1>7. Status' /\ ExitZeroMeansWhole'
  BY DEF IInv, Truncate, Goto, Status, ExitZeroMeansWhole, Held
<1> QED
  BY <1>1, <1>2, <1>3, <1>4, <1>5, <1>6, <1>7 DEF IInv

\* A block of output preserves the invariant.
LEMMA WorkPreserves == IInv /\ Work => IInv'
<1> SUFFICES ASSUME IInv, Work PROVE IInv'
  OBVIOUS
<1>1. TypeOK'
  BY UnitsAssumption DEF IInv, Work, Goto, options, held, TypeOK, PCs
<1>2. Held'
  BY DEF IInv, Work, Goto, held, Held, Early
<1>3. NothingBefore'
  BY DEF IInv, Work, Goto, NothingBefore, Status, Early
<1>4. OnlyOpened'
  BY DEF IInv, Work, TypeOK, OnlyOpened, Compared
<1>5. Compared'
  BY DEF IInv, Work, Compared
<1>6. AuthenticFirst'
  BY DEF IInv, Work, options, AuthenticFirst, Early, dec
<1>7. Status' /\ ExitZeroMeansWhole'
  BY DEF IInv, Work, Goto, options, held, Status, ExitZeroMeansWhole
<1> QED
  BY <1>1, <1>2, <1>3, <1>4, <1>5, <1>6, <1>7 DEF IInv

\* Releasing what is held preserves the invariant.
LEMMA CleanupPreserves == IInv /\ Cleanup => IInv'
<1> SUFFICES ASSUME IInv, Cleanup PROVE IInv'
  OBVIOUS
<1>1. TypeOK'
  BY DEF IInv, Cleanup, Goto, Released, ReleasedIfHeld, options, TypeOK, PCs, Life, Held, Early, MayBeHeld
<1>2. Held'
  BY DEF IInv, Cleanup, Goto, Released, ReleasedIfHeld, Held, Early, NotHeld, MayBeHeld
<1>3. NothingBefore'
  BY DEF IInv, Cleanup, Goto, NothingBefore, Early
<1>4. OnlyOpened'
  BY DEF IInv, Cleanup, OnlyOpened
<1>5. Compared'
  BY DEF IInv, Cleanup, Compared
<1>6. AuthenticFirst'
  BY DEF IInv, Cleanup, Goto, options, AuthenticFirst, dec
<1>7. Status' /\ ExitZeroMeansWhole'
  BY DEF IInv, Cleanup, Goto, options, Status, ExitZeroMeansWhole
<1> QED
  BY <1>1, <1>2, <1>3, <1>4, <1>5, <1>6, <1>7 DEF IInv

\* Closing the output preserves the invariant.
LEMMA CloseOutPreserves == IInv /\ CloseOut => IInv'
<1> SUFFICES ASSUME IInv, CloseOut PROVE IInv'
  OBVIOUS
<1>1. TypeOK'
  BY UnitsAssumption DEF IInv, CloseOut, Exit, Released, ReleasedIfHeld, options, TypeOK,
     PCs, Life, Held, Early, MayBeHeld
<1>2. Held'
  BY DEF IInv, CloseOut, Exit, Released, ReleasedIfHeld, Held, Early, NotHeld, MayBeHeld
<1>3. NothingBefore'
  BY DEF IInv, CloseOut, Exit, NothingBefore, Early
<1>4. OnlyOpened'
  BY DEF IInv, CloseOut, TypeOK, OnlyOpened, Compared
<1>5. Compared'
  BY DEF CloseOut, Exit, Compared
<1>6. AuthenticFirst'
  BY DEF IInv, CloseOut, Exit, options, AuthenticFirst, dec
<1>7. Status' /\ ExitZeroMeansWhole'
  BY DEF IInv, CloseOut, Delivers, Exit, options, TypeOK, Status, AuthenticFirst,
     ExitZeroMeansWhole, dec
<1> QED
  BY <1>1, <1>2, <1>3, <1>4, <1>5, <1>6, <1>7 DEF IInv

\* Failing before the output is used preserves the invariant.
LEMMA Err2Preserves == IInv /\ Err2 => IInv'
<1> SUFFICES ASSUME IInv, Err2 PROVE IInv'
  OBVIOUS
<1>1. TypeOK'
  BY DEF IInv, Err2, Err2_Releases, Goto, Released, ReleasedIfHeld, options, TypeOK, PCs,
     Life, Held, Early, MayBeHeld
<1>2. Held'
  BY DEF IInv, Err2, Err2_Releases, Goto, Released, ReleasedIfHeld, Held, Early, NotHeld,
     MayBeHeld
<1>3. NothingBefore'
  BY DEF IInv, Err2, Goto, NothingBefore, Early
<1>4. OnlyOpened'
  BY DEF IInv, Err2, OnlyOpened
<1>5. Compared'
  BY DEF Err2, Goto, Compared
<1>6. AuthenticFirst'
  BY DEF IInv, Err2, options, AuthenticFirst, Early, dec
<1>7. Status' /\ ExitZeroMeansWhole'
  BY DEF IInv, Err2, Goto, Status, ExitZeroMeansWhole
<1> QED
  BY <1>1, <1>2, <1>3, <1>4, <1>5, <1>6, <1>7 DEF IInv

\* Failing without an output preserves the invariant.
LEMMA Err1Preserves == IInv /\ Err1 => IInv'
<1> SUFFICES ASSUME IInv, Err1 PROVE IInv'
  OBVIOUS
<1>1. TypeOK'
  BY DEF IInv, Err1, Exit, Released, ReleasedIfHeld, options, TypeOK, PCs, Life, Held, Early, MayBeHeld
<1>2. Held'
  BY DEF IInv, Err1, Exit, Released, ReleasedIfHeld, Held, Early, NotHeld, MayBeHeld
<1>3. NothingBefore'
  BY DEF IInv, Err1, Exit, NothingBefore, Early
<1>4. OnlyOpened'
  BY DEF IInv, Err1, OnlyOpened
<1>5. Compared'
  BY DEF Err1, Exit, Compared
<1>6. AuthenticFirst'
  BY DEF IInv, Err1, Exit, options, AuthenticFirst, dec
<1>7. Status' /\ ExitZeroMeansWhole'
  BY DEF Err1, Exit, Status, ExitZeroMeansWhole
<1> QED
  BY <1>1, <1>2, <1>3, <1>4, <1>5, <1>6, <1>7 DEF IInv

\* Another process preserves the invariant.
LEMMA RelinkPreserves == IInv /\ Relink => IInv'
<1> SUFFICES ASSUME IInv, Relink PROVE IInv'
  OBVIOUS
<1>1. TypeOK'
  BY DEF IInv, Relink, options, held, TypeOK
<1>2. Held'
  BY DEF IInv, Relink, options, held, Held
<1>3. NothingBefore'
  BY DEF IInv, Relink, NothingBefore
<1>4. OnlyOpened'
  BY DEF IInv, Relink, OnlyOpened
<1>5. Compared'
  BY DEF IInv, Relink, Compared
<1>6. AuthenticFirst'
  BY DEF IInv, Relink, options, AuthenticFirst, dec
<1>7. Status' /\ ExitZeroMeansWhole'
  BY DEF IInv, Relink, options, held, Status, ExitZeroMeansWhole
<1> QED
  BY <1>1, <1>2, <1>3, <1>4, <1>5, <1>6, <1>7 DEF IInv

-----------------------------------------------------------------------------
\* The invariant is inductive.
LEMMA NextPreserves == IInv /\ [Next]_vars => IInv'
<1> SUFFICES ASSUME IInv, [Next]_vars PROVE IInv'
  OBVIOUS
<1>1. CASE Steps
  BY <1>1, OptionsPreserves, OpenInPreserves, InfoPreserves, SameFilePreserves,
     PassphrasePreserves, PrepPreserves, OpenOutPreserves, ComparePreserves,
     TruncatePreserves, WorkPreserves, CleanupPreserves, CloseOutPreserves,
     Err2Preserves, Err1Preserves DEF Steps
<1>2. CASE Relink
  BY <1>2, RelinkPreserves
<1>3. CASE UNCHANGED vars
  BY <1>3 DEF vars, options, held, IInv, TypeOK, Held, NothingBefore, OnlyOpened, Compared,
     AuthenticFirst, Status, ExitZeroMeansWhole, dec
<1> QED
  BY <1>1, <1>2, <1>3 DEF Next

\* The invariant holds in every state of the command.
LEMMA Invariant == Spec => []IInv
BY InitInvariant, NextPreserves, PTL DEF Spec

\* Types hold, and nothing is freed or closed that is not held.
THEOREM TypeCorrect == Spec => []TypeOK
<1>1. IInv => TypeOK
  BY DEF IInv
<1> QED
  BY <1>1, Invariant, PTL

\* open_output never harms the input or another file, however the path is
\* relinked between the two comparisons, the opening and the truncation.
THEOREM InputKept == Spec => []InputIntact
<1>1. IInv => InputIntact
  BY DEF IInv, OnlyOpened, InputIntact, Objects
<1> QED
  BY <1>1, Invariant, PTL

\* A decryption that does not authenticate leaves the file system as it was.
THEOREM RejectedChangesNothing == Spec => []RejectedTouchesNothing
<1>1. IInv => RejectedTouchesNothing
  BY DEF IInv, AuthenticFirst, NothingBefore, RejectedTouchesNothing
<1> QED
  BY <1>1, Invariant, PTL

\* The exit status 0 can be relied on, also for what stdio delivers late.
THEOREM StatusCorrect == Spec => []ExitZeroMeansWhole
<1>1. IInv => ExitZeroMeansWhole
  BY DEF IInv
<1> QED
  BY <1>1, Invariant, PTL

\* On every path the passphrase, the cookie and the files are released, and
\* released once.
THEOREM EverythingReleased == Spec => []AllReleased
<1>1. IInv => AllReleased
  BY DEF IInv, TypeOK, Status, Held, NotHeld, AllReleased
<1> QED
  BY <1>1, Invariant, PTL
=============================================================================
