-------------------------- MODULE ScryptDec_proofs ---------------------------
(***************************************************************************)
(* For all ciphertexts, inputs, block and authenticator lengths: whatever  *)
(* fails and whoever changes the input, decryption releases nothing but    *)
(* the beginning of what an encryptor encrypted, and says OK only for the  *)
(* whole of it.                                                            *)
(***************************************************************************)
EXTENDS ScryptDec, SequenceTheorems, TLAPS

-----------------------------------------------------------------------------
(* Pieces of sequences. *)

\* A piece that lies within a sequence.
LEMMA PieceProperties ==
  ASSUME NEW S, NEW s \in Seq(S), NEW p \in Nat, NEW n \in Nat, p + n <= Len(s)
  PROVE  /\ Piece(s, p, n) \in Seq(S)
         /\ Len(Piece(s, p, n)) = n
         /\ \A j \in 1..n : Piece(s, p, n)[j] = s[p + j]
<1> DEFINE a == p + 1
           b == p + n
<1>1. a \in Int /\ b \in Int /\ \A j \in a..b : s[j] \in S
  BY ElementOfSeq, LenProperties
<1>2. /\ SubSeq(s, a, b) \in Seq(S)
      /\ Len(SubSeq(s, a, b)) = IF a <= b THEN b - a + 1 ELSE 0
      /\ \A j \in 1..(b - a + 1) : SubSeq(s, a, b)[j] = s[a + j - 1]
  <2> HIDE DEF a, b
  <2> QED
    BY <1>1, SubSeqProperties
<1>3. Len(Piece(s, p, n)) = n /\ Piece(s, p, n) \in Seq(S)
  BY <1>2 DEF Piece
<1>4. ASSUME NEW j \in 1..n PROVE Piece(s, p, n)[j] = s[p + j]
  <2>1. j \in 1..(b - a + 1) /\ a + j - 1 = p + j
    BY <1>4
  <2> QED
    BY <1>2, <2>1 DEF Piece
<1> QED
  BY <1>3, <1>4

\* An empty piece, wherever it is taken.
LEMMA PieceEmpty ==
  ASSUME NEW s, NEW p \in Nat
  PROVE  Piece(s, p, 0) = <<>>
BY SubSeqEmpty DEF Piece

\* What fread may take lies within the sequence it reads.
LEMMA FreadInside ==
  ASSUME NEW S, NEW s \in Seq(S), NEW p \in Nat, NEW want \in Nat, NEW n \in Nat,
         NEW fails \in BOOLEAN, Fread(s, p, want, n, fails), n > 0
  PROVE  p + n <= Len(s)
BY LenProperties DEF Fread, Smaller

\* Without an error it comes back empty only at the end.
LEMMA FreadEnd ==
  ASSUME NEW S, NEW s \in Seq(S), NEW p \in Nat, NEW want \in Nat \ {0},
         Fread(s, p, want, 0, FALSE)
  PROVE  p >= Len(s)
BY LenProperties DEF Fread, Smaller
-----------------------------------------------------------------------------
(* The inductive invariant. *)

Preparing == {"header", "setup", "read", "verify", "err1"}
Releasing == {"copy", "decrypt", "free"}

\* Which calls are where, and what the cookie is then.
Phases ==
  /\ pc \in Preparing <=> cookie = "prep"
  /\ pc \in Preparing => op \in {"prep", "file"}
  /\ pc \in Releasing => cookie = "valid"
  /\ pc \in {"copy", "decrypt"} => op \in {"copy", "file"}
  /\ pc = "free" => op = "file"
  /\ pc = "err1" => rc # "OK"
  /\ pc = "idle" /\ cookie = "valid" => op \in {"prep", "copy"}
  /\ pc = "idle" /\ cookie = "valid" /\ op = "prep" => rc = "OK"

\* Until the cookie is returned the spool holds what was hashed.
Spooled == IF cookie = "valid" THEN hashed = <<>> ELSE spool = hashed

\* A valid cookie's spool was authenticated.
Accepted == cookie = "valid" => spool \in Authentic

\* What is written is the decryption of the beginning of the spool.
Written ==
  /\ pc \in Preparing \cup {"copy"} => out = <<>>
  /\ cookie = "valid" => DecryptsPrefix(out, spool)
  /\ pc = "decrypt" => Len(out) = ctr /\ spoolPos = ctr
  /\ cookie = "valid" /\ rc = "OK" /\ (pc = "free" \/ (pc = "idle" /\ op = "copy"))
       => Len(out) = Len(spool)

IInv ==
  /\ TypeOK
  /\ Phases
  /\ Spooled
  /\ Accepted
  /\ Written
  /\ NoUnauthenticatedPlaintext
  /\ SuccessfulCopyIsWhole
  /\ ReadErrorRejects
  /\ (cookie = "none" => ~spoolOpen /\ dk \in {"none", "zero"})

LEMMA InitInvariant == Init => IInv
<1> SUFFICES ASSUME Init PROVE IInv
  OBVIOUS
<1>1. <<>> \in Seq(Cells) /\ <<>> \in Seq(Released) /\ Len(<<>>) = 0
  BY EmptySeq
<1>2. /\ <<>> \in Seq(Cells) /\ <<>> \in Seq(Released)
      /\ 0 \in Nat /\ Len(<<>>) <= TagLen
  BY <1>1, SizeAssumption
<1>3. TypeOK
  <2> HIDE DEF Released
  <2> QED
    BY <1>2, Zenon DEF Init, TypeOK, Codes
<1> QED
  BY <1>3 DEF Init, IInv, Phases, Preparing, Releasing, Spooled, Accepted, Written,
     NoUnauthenticatedPlaintext, SuccessfulCopyIsWhole, ReadErrorRejects

\* Nothing written is the beginning of anything.
LEMMA EmptyPrefix ==
  ASSUME NEW d \in Seq(Cells)
  PROVE  DecryptsPrefix(<<>>, d)
BY EmptySeq, LenProperties DEF DecryptsPrefix

\* More of the decryption, from where the last piece ended.
LEMMA DecryptMore ==
  ASSUME NEW o \in Seq(Released), NEW d \in Seq(Cells), NEW n \in Nat,
         DecryptsPrefix(o, d), Len(o) + n <= Len(d),
         NEW x, x = [j \in 1..n |-> [cell |-> d[Len(o) + j], at |-> Len(o) + j - 1]]
  PROVE  /\ o \o x \in Seq(Released)
         /\ Len(o \o x) = Len(o) + n
         /\ DecryptsPrefix(o \o x, d)
         /\ \A j \in 1..Len(o) : (o \o x)[j] = o[j]
<1>1. Len(o) \in Nat /\ Len(d) \in Nat
  BY LenProperties
<1>2. ASSUME NEW j \in 1..n PROVE x[j] \in Released
  <2>1. Len(o) + j \in 1..Len(d)
    BY <1>1
  <2>2. d[Len(o) + j] \in Cells
    BY <2>1, ElementOfSeq
  <2> QED
    BY <1>1, <2>2 DEF Released
<1>3. x \in Seq(Released) /\ Len(x) = n
  <2>1. x \in [1..n -> Released]
    BY <1>2
  <2>2. x \in Seq(Released)
    BY <2>1, SeqDef
  <2>3. DOMAIN x = 1..n /\ DOMAIN x = 1..Len(x) /\ Len(x) \in Nat
    BY <2>1, <2>2, LenProperties
  <2>4. Len(x) = n
    <3>1. CASE n > 0 /\ Len(x) < n
      <4>1. n \in 1..n /\ n \notin 1..Len(x)
        BY <2>3, <3>1
      <4> QED
        BY <2>3, <4>1
    <3>2. CASE Len(x) > n
      <4>1. Len(x) \in 1..Len(x) /\ Len(x) \notin 1..n
        BY <2>3, <3>2
      <4> QED
        BY <2>3, <4>1
    <3> QED
      BY <2>3, <3>1, <3>2
  <2> QED
    BY <2>2, <2>4
<1>4. /\ o \o x \in Seq(Released)
      /\ Len(o \o x) = Len(o) + n
      /\ \A j \in 1..(Len(o) + n) : (o \o x)[j] = IF j <= Len(o) THEN o[j] ELSE x[j - Len(o)]
  <2>1. /\ o \o x \in Seq(Released)
        /\ Len(o \o x) = Len(o) + Len(x)
        /\ \A j \in 1..(Len(o) + Len(x)) :
             (o \o x)[j] = IF j <= Len(o) THEN o[j] ELSE x[j - Len(o)]
    BY <1>3, ConcatProperties, Zenon
  <2> QED
    BY <1>3, <2>1, Zenon
<1>5. ASSUME NEW j \in 1..(Len(o) + n)
      PROVE  (o \o x)[j] = [cell |-> d[j], at |-> j - 1]
  <2>1. CASE j <= Len(o)
    BY <1>1, <1>4, <2>1 DEF DecryptsPrefix
  <2>2. CASE j > Len(o)
    <3> DEFINE k == j - Len(o)
    <3>1. k \in 1..n /\ Len(o) + k = j
      BY <1>1, <2>2
    <3>2. x[k] = [cell |-> d[Len(o) + k], at |-> Len(o) + k - 1]
      BY <3>1
    <3> QED
      BY <1>1, <1>4, <2>2, <3>1, <3>2
  <2> QED
    BY <1>1, <2>1, <2>2
<1>6. ASSUME NEW j \in 1..Len(o) PROVE (o \o x)[j] = o[j]
  <2>1. j \in 1..(Len(o) + n) /\ j <= Len(o)
    BY <1>1
  <2> QED
    BY <1>4, <2>1
<1>7. DecryptsPrefix(o \o x, d)
  <2>1. Len(o \o x) <= Len(d)
    BY <1>4
  <2>2. ASSUME NEW j \in 1..Len(o \o x)
        PROVE  (o \o x)[j] = [cell |-> d[j], at |-> j - 1]
    BY <1>4, <1>5
  <2> QED
    BY <2>1, <2>2 DEF DecryptsPrefix
<1> QED
  BY <1>4, <1>6, <1>7
-----------------------------------------------------------------------------
(* Preparation. *)

Failures == Codes \ {"OK"}

\* Every goto err1 of scryptdec_file_prep.
LEMMA PrepFailsPreserves ==
  ASSUME IInv, cookie = "prep", NEW code \in Failures, PrepFails(code),
         pos' \in Nat, rdError' \in BOOLEAN, clean' \in BOOLEAN
  PROVE  IInv'
<1>1. TypeOK'
  BY DEF IInv, TypeOK, PrepFails, spoolvars, workvars, Failures
<1>2. /\ pc' = "err1" /\ cookie' = "prep" /\ rc' # "OK"
      /\ UNCHANGED <<op, out, spool, hashed>>
  BY DEF PrepFails, spoolvars, workvars, Failures
<1>3. out = <<>> /\ op \in {"prep", "file"} /\ spool = hashed
  BY DEF IInv, Phases, Written, Spooled
<1> QED
  BY <1>1, <1>2, <1>3 DEF IInv, Phases, Preparing, Releasing, Spooled, Accepted,
     Written, NoUnauthenticatedPlaintext, SuccessfulCopyIsWhole, ReadErrorRejects

\* The label itself.
LEMMA Err1Preserves == IInv /\ Err1 => IInv'
<1> SUFFICES ASSUME IInv, Err1 PROVE IInv'
  OBVIOUS
<1>1. <<>> \in Seq(Cells) /\ Len(<<>>) = 0 /\ 0 \in Nat /\ 0 <= TagLen
  BY EmptySeq, SizeAssumption
<1>2. TypeOK'
  BY <1>1 DEF IInv, TypeOK, Err1, FreeCookie, DropLocals, filevars
<1>3. /\ pc' = "idle" /\ cookie' = "none" /\ rc' = rc /\ out' = out
      /\ dk' = "zero" /\ spoolOpen' = FALSE /\ spool' = hashed'
  BY DEF Err1, FreeCookie, DropLocals
<1>4. out = <<>> /\ rc # "OK"
  BY DEF Err1, IInv, Phases, Preparing, Written
<1> QED
  BY <1>2, <1>3, <1>4 DEF IInv, Phases, Preparing, Releasing, Spooled, Accepted,
     Written, NoUnauthenticatedPlaintext, SuccessfulCopyIsWhole, ReadErrorRejects

LEMMA PrepPreserves == IInv /\ Prep => IInv'
<1> SUFFICES ASSUME IInv, Prep PROVE IInv'
  OBVIOUS
<1>1. <<>> \in Seq(Released) /\ 0 \in Nat
  BY EmptySeq
<1>2. TypeOK'
  BY <1>1 DEF IInv, TypeOK, Prep, Return, spoolvars, workvars, Codes
<1> QED
  BY <1>2 DEF IInv, Prep, Return, Phases, Preparing, Releasing, Spooled, Accepted,
     Written, NoUnauthenticatedPlaintext, SuccessfulCopyIsWhole, ReadErrorRejects,
     spoolvars, workvars

LEMMA LoadHeaderPreserves == IInv /\ LoadHeader => IInv'
<1> SUFFICES ASSUME IInv, LoadHeader PROVE IInv'
  OBVIOUS
<1>1. cookie = "prep" /\ pos \in Nat /\ rdError \in BOOLEAN /\ clean \in BOOLEAN
  BY DEF IInv, TypeOK, Phases, Preparing, LoadHeader
<1>2. CASE header \in LoadedHeaders /\ pc' = "setup"
           /\ UNCHANGED <<op, rc, filevars, cookie, dk, spoolvars, workvars, out, clean>>
  BY <1>2 DEF IInv, LoadHeader, TypeOK, Phases, Preparing, Releasing, Spooled,
     Accepted, Written, NoUnauthenticatedPlaintext, SuccessfulCopyIsWhole,
     ReadErrorRejects, filevars, spoolvars, workvars, DecryptsPrefix
<1>3. CASE /\ header \notin LoadedHeaders /\ PrepFails(HeaderFault(header))
           /\ UNCHANGED <<pos, rdError, clean>>
  <2>1. header \in {"short", "magic", "version", "truncated"}
    BY <1>3, DataAssumption DEF IInv, TypeOK, HeaderKinds, LoadedHeaders
  <2>2. HeaderFault(header) \in Failures
    BY <2>1 DEF HeaderFault, Failures, Codes
  <2> QED
    BY <2>2, <1>1, <1>3, PrepFailsPreserves
<1>4. CASE PrepFails("ERDFILE") /\ rdError' = TRUE /\ clean' = FALSE /\ UNCHANGED pos
  BY <1>1, <1>4, PrepFailsPreserves DEF Failures, Codes
<1> QED
  BY <1>2, <1>3, <1>4 DEF LoadHeader
LEMMA SetupPreserves == IInv /\ Setup => IInv'
<1> SUFFICES ASSUME IInv, Setup PROVE IInv'
  OBVIOUS
<1>1. /\ cookie = "prep" /\ pos \in Nat /\ rdError \in BOOLEAN /\ clean \in BOOLEAN
      /\ UNCHANGED <<pos, rdError>>
  BY DEF IInv, TypeOK, Phases, Preparing, Setup
<1>2. ASSUME NEW code \in Failures, PrepFails(code), clean' \in BOOLEAN PROVE IInv'
  BY <1>1, <1>2, PrepFailsPreserves
<1>3. CASE header \in {"checksum", "params"} /\ PrepFails(HeaderFault(header))
           /\ UNCHANGED clean
  <2>1. HeaderFault(header) \in Failures
    BY <1>3 DEF HeaderFault, Failures, Codes
  <2> QED
    BY <2>1, <1>1, <1>2, <1>3
<1>4. CASE (\E e \in LimitFaults \cup {"EKEY"} : PrepFails(e)) /\ clean' = FALSE
  BY <1>2, <1>4 DEF LimitFaults, Failures, Codes
<1>5. CASE header = "signature" /\ PrepFails(HeaderFault(header)) /\ UNCHANGED clean
  <2>1. HeaderFault(header) \in Failures
    BY <1>5 DEF HeaderFault, Failures, Codes
  <2> QED
    BY <2>1, <1>1, <1>2, <1>5
<1>6. CASE PrepFails("ETMPFILE") /\ clean' = FALSE
  BY <1>2, <1>6 DEF Failures, Codes
<1>7. CASE /\ header = "good" /\ dk' = "key" /\ spoolOpen' = TRUE /\ pc' = "read"
           /\ UNCHANGED <<op, rc, header, content, cookie, spool, spoolPos,
                          spoolError, workvars, out, clean>>
  <2>1. pc = "setup"
    BY DEF Setup
  <2> QED
    BY <1>1, <1>7, <2>1 DEF IInv, TypeOK, Phases, Preparing, Releasing,
       Spooled, Accepted, Written, NoUnauthenticatedPlaintext,
       SuccessfulCopyIsWhole, ReadErrorRejects, workvars
<1> QED
  BY <1>3, <1>4, <1>5, <1>6, <1>7 DEF Setup

\* What a turn of the reading loop holds back, and what it passes on.
LEMMA SplitRead ==
  ASSUME NEW b \in Seq(Cells), NEW s \in Seq(Cells), NEW p \in Nat, NEW n \in Nat,
         p + n <= Len(s), NEW new, new = b \o Piece(s, p, n)
  PROVE  new \in Seq(Cells) /\ Len(new) = Len(b) + n /\ Len(new) \in Nat
<1>1. Piece(s, p, n) \in Seq(Cells) /\ Len(Piece(s, p, n)) = n
  BY PieceProperties
<1>2. new \in Seq(Cells) /\ Len(new) = Len(b) + Len(Piece(s, p, n))
  BY <1>1, ConcatProperties
<1> QED
  BY <1>1, <1>2, LenProperties

LEMMA SplitDone ==
  ASSUME NEW new \in Seq(Cells), NEW done, done = Len(new) - TagLen, done > 0
  PROVE  /\ Piece(new, 0, done) \in Seq(Cells)
         /\ Len(Piece(new, 0, done)) = done
         /\ Piece(new, done, TagLen) \in Seq(Cells)
         /\ Len(Piece(new, done, TagLen)) = TagLen
<1>1. done \in Nat /\ TagLen \in Nat /\ done + TagLen <= Len(new) /\ 0 + done <= Len(new)
  BY SizeAssumption, LenProperties
<1>2. Piece(new, 0, done) \in Seq(Cells) /\ Len(Piece(new, 0, done)) = done
  BY <1>1, PieceProperties
<1>3. Piece(new, done, TagLen) \in Seq(Cells) /\ Len(Piece(new, done, TagLen)) = TagLen
  BY <1>1, PieceProperties
<1> QED
  BY <1>2, <1>3

LEMMA ReadBlockPreserves == IInv /\ ReadBlock => IInv'
<1> SUFFICES ASSUME IInv, ReadBlock PROVE IInv'
  OBVIOUS
<1>1. /\ cookie = "prep" /\ pos \in Nat /\ rdError \in BOOLEAN /\ clean \in BOOLEAN
      /\ pc = "read" /\ content \in Seq(Cells) /\ buf \in Seq(Cells) /\ Len(buf) <= TagLen
      /\ spool = hashed /\ spool \in Seq(Cells) /\ out = <<>>
  BY DataAssumption DEF IInv, TypeOK, Phases, Preparing, ReadBlock, Spooled, Written
<1> DEFINE new(n) == buf \o Piece(content, pos, n)
           done(n) == HeadLen(new(n), n)
           head(n) == Piece(new(n), 0, done(n))
           Turn(fails, n) ==
             \/ /\ n = 0
                /\ EndOfInput
                /\ UNCHANGED <<op, rc, header, content, cookie, dk, spoolvars,
                               workvars, out>>
             \/ /\ n > 0 /\ done(n) <= 0
                /\ buf' = new(n)
                /\ UNCHANGED <<pc, op, rc, header, content, cookie, dk, spoolvars,
                               hashed, ctr, out>>
             \/ /\ n > 0 /\ done(n) > 0
                /\ hashed' = hashed \o head(n)
                /\ spool' = spool \o head(n)
                /\ buf' = Retain(new(n), done(n))
                /\ spoolPos' = Len(spool')
                /\ UNCHANGED <<pc, op, rc, header, content, cookie, dk, spoolOpen,
                               spoolError, ctr, out>>
             \/ n > 0 /\ PrepFails("ETMPFILE")
<1>2. PICK fails \in BOOLEAN, n \in 0..(EncBlock + TagLen) :
        /\ Fread(content, pos, EncBlock + TagLen - Len(buf), n, fails)
        /\ rdError' = (rdError \/ fails) /\ pos' = pos + n
        /\ clean' \in BOOLEAN
        /\ Turn(fails, n)
  BY <1>1 DEF ReadBlock, SpoolFails
<1>3. /\ rdError' \in BOOLEAN /\ pos' \in Nat /\ n \in Nat
      /\ EncBlock + TagLen - Len(buf) \in Nat
  BY <1>1, <1>2, SizeAssumption, LenProperties
<1>4. CASE n = 0 /\ EndOfInput
           /\ UNCHANGED <<op, rc, header, content, cookie, dk, spoolvars, workvars, out>>
  BY <1>1, <1>2, <1>3, <1>4 DEF EndOfInput, IInv, TypeOK, Phases, Preparing,
     Releasing, Spooled, Accepted, Written, NoUnauthenticatedPlaintext,
     SuccessfulCopyIsWhole, ReadErrorRejects, spoolvars, workvars
<1>5. ASSUME n > 0 PROVE pos + n <= Len(content)
  BY <1>1, <1>2, <1>3, <1>5, FreadInside
<1>6. CASE /\ n > 0 /\ done(n) <= 0
           /\ buf' = new(n)
           /\ UNCHANGED <<pc, op, rc, header, content, cookie, dk, spoolvars,
                          hashed, ctr, out>>
  <2>1. new(n) \in Seq(Cells) /\ Len(new(n)) <= TagLen
    <3>1. new(n) \in Seq(Cells) /\ Len(new(n)) \in Nat
      BY <1>1, <1>3, <1>5, <1>6, SplitRead
    <3>2. Len(new(n)) - TagLen <= 0
      BY <1>6 DEF HeadLen
    <3> HIDE DEF new
    <3> QED
      BY <3>1, <3>2, SizeAssumption
  <2> HIDE DEF new
  <2> QED
    BY <1>1, <1>2, <1>3, <1>6, <2>1 DEF IInv, TypeOK, Phases, Preparing,
       Releasing, Spooled, Accepted, Written, NoUnauthenticatedPlaintext,
       SuccessfulCopyIsWhole, ReadErrorRejects, spoolvars
<1>7. CASE /\ n > 0 /\ done(n) > 0
           /\ hashed' = hashed \o head(n)
           /\ spool' = spool \o head(n)
           /\ buf' = Retain(new(n), done(n))
           /\ spoolPos' = Len(spool')
           /\ UNCHANGED <<pc, op, rc, header, content, cookie, dk, spoolOpen,
                          spoolError, ctr, out>>
  <2>1. /\ head(n) \in Seq(Cells)
        /\ Retain(new(n), done(n)) \in Seq(Cells)
        /\ Len(Retain(new(n), done(n))) = TagLen
    <3>1. done(n) = Len(new(n)) - TagLen /\ done(n) > 0
      BY <1>7 DEF HeadLen
    <3>2. new(n) \in Seq(Cells)
      BY <1>1, <1>3, <1>5, <1>7, SplitRead
    <3> HIDE DEF new, done
    <3>3. /\ Piece(new(n), 0, done(n)) \in Seq(Cells)
          /\ Piece(new(n), done(n), TagLen) \in Seq(Cells)
          /\ Len(Piece(new(n), done(n), TagLen)) = TagLen
      BY <3>1, <3>2, SplitDone
    <3> QED
      BY <3>3 DEF Retain
  <2> HIDE DEF new, done, head
  <2>2. spool' = hashed' /\ spool' \in Seq(Cells)
    BY <1>1, <1>7, <2>1, ConcatProperties
  <2>3. spoolPos' \in Nat
    BY <1>7, <2>2, LenProperties
  <2>4. buf' \in Seq(Cells) /\ Len(buf') <= TagLen
    BY <1>7, <2>1, SizeAssumption
  <2>5. hashed' \in Seq(Cells)
    BY <2>2
  <2>6. TypeOK'
    <3>1. TypeOK /\ clean' \in BOOLEAN
      BY <1>2 DEF IInv
    <3> QED
      BY <3>1, <1>3, <1>7, <2>2, <2>3, <2>4, <2>5 DEF TypeOK
  <2>7. cookie' = "prep" /\ pc' = "read" /\ out' = <<>> /\ op' = op /\ UNCHANGED <<dk, spoolOpen>>
    BY <1>1, <1>7
  <2> QED
    BY <1>1, <2>2, <2>6, <2>7 DEF IInv, Phases, Preparing, Releasing, Spooled,
       Accepted, Written, NoUnauthenticatedPlaintext, SuccessfulCopyIsWhole,
       ReadErrorRejects
<1>8. CASE PrepFails("ETMPFILE")
  BY <1>1, <1>2, <1>3, <1>8, PrepFailsPreserves DEF Failures, Codes
<1> QED
  BY <1>2, <1>4, <1>6, <1>7, <1>8
LEMMA VerifyPreserves == IInv /\ Verify => IInv'
<1> SUFFICES ASSUME IInv, Verify PROVE IInv'
  OBVIOUS
<1>1. /\ cookie = "prep" /\ pos \in Nat /\ rdError \in BOOLEAN /\ clean \in BOOLEAN
      /\ pc = "verify" /\ spool = hashed /\ spool \in Seq(Cells) /\ out = <<>>
      /\ pos' = pos /\ rdError' = rdError /\ op \in {"prep", "file"}
  BY DEF IInv, TypeOK, Phases, Preparing, Verify, Spooled, Written
<1>2. CASE VerifyFault # "OK" /\ PrepFails(VerifyFault) /\ UNCHANGED clean
  BY <1>1, <1>2, PrepFailsPreserves DEF VerifyFault, Failures, Codes
<1>3. CASE PrepFails("ETMPFILE") /\ clean' = FALSE
  BY <1>1, <1>3, PrepFailsPreserves DEF Failures, Codes
<1>4. CASE /\ VerifyFault = "OK"
           /\ cookie' = "valid"
           /\ Rewind
           /\ IF op = "file" THEN pc' = "copy" /\ UNCHANGED rc ELSE Return("OK")
           /\ DropLocals
           /\ UNCHANGED <<op, header, content, dk, spool, spoolOpen, ctr, out, clean>>
  <2>1. ~rdError /\ spool \in Authentic
    BY <1>1, <1>4 DEF VerifyFault, HmacIs
  <2>2. <<>> \in Seq(Cells) /\ Len(<<>>) <= TagLen /\ 0 \in Nat
    BY EmptySeq, SizeAssumption
  <2>3. pc' \in {"copy", "idle"} /\ rc' \in Codes
    BY <1>4 DEF Return, IInv, TypeOK, Codes
  <2>4. TypeOK'
    BY <1>1, <1>4, <2>2, <2>3, Zenon DEF IInv, TypeOK, Rewind, DropLocals
  <2>5. /\ hashed' = <<>> /\ out' = <<>> /\ op' = op /\ spool' = spool
        /\ pc' = "idle" => op = "prep" /\ rc' = "OK"
        /\ pc' = "copy" => op = "file"
    BY <1>1, <1>4 DEF DropLocals, Return
  <2>6. DecryptsPrefix(<<>>, spool)
    BY <1>1, EmptyPrefix
  <2>7. DecryptsPrefix(out', spool')
    BY <2>5, <2>6, Zenon
  <2> QED
    BY <1>1, <1>4, <2>1, <2>3, <2>4, <2>5, <2>7 DEF IInv, Phases, Preparing,
       Releasing, Spooled, Accepted, Written, NoUnauthenticatedPlaintext,
       SuccessfulCopyIsWhole, ReadErrorRejects
<1> QED
  BY <1>2, <1>3, <1>4 DEF Verify
-----------------------------------------------------------------------------
(* Release. *)

LEMMA CopyPreserves == IInv /\ Copy => IInv'
<1> SUFFICES ASSUME IInv, Copy PROVE IInv'
  OBVIOUS
<1>1. <<>> \in Seq(Released) /\ cookie = "valid" /\ spool \in Seq(Cells)
  BY EmptySeq DEF IInv, TypeOK, Copy
<1>2. TypeOK'
  BY <1>1 DEF IInv, TypeOK, Copy, filevars, spoolvars, workvars
<1>3. DecryptsPrefix(<<>>, spool)
  BY <1>1, EmptyPrefix
<1>4. DecryptsPrefix(out', spool')
  BY <1>3, Zenon DEF Copy, spoolvars
<1> QED
  BY <1>2, <1>4 DEF Copy, IInv, Phases, Preparing, Releasing, Spooled, Accepted,
     Written, NoUnauthenticatedPlaintext, SuccessfulCopyIsWhole, ReadErrorRejects,
     filevars, spoolvars, workvars

LEMMA CopyStartPreserves == IInv /\ CopyStart => IInv'
<1> SUFFICES ASSUME IInv, CopyStart PROVE IInv'
  OBVIOUS
<1>1. /\ cookie = "valid" /\ spool \in Seq(Cells) /\ out = <<>> /\ pc = "copy"
      /\ op \in {"copy", "file"} /\ spoolPos \in Nat /\ spoolError \in BOOLEAN
      /\ UNCHANGED <<op, filevars, cookie, dk, spool, spoolOpen, buf, hashed, out>>
  BY DEF IInv, TypeOK, Phases, Releasing, Written, CopyStart
<1>2. Len(<<>>) = 0
  BY EmptySeq
<1>3. CASE pc' = "decrypt" /\ Rewind /\ ctr' = 0 /\ UNCHANGED <<rc, clean>>
  <2>1. TypeOK'
    BY <1>1, <1>3 DEF Rewind, IInv, TypeOK, filevars
  <2>2. Len(out') = 0 /\ out' = <<>> /\ spoolPos' = 0
    BY <1>1, <1>2, <1>3 DEF Rewind
  <2>3. DecryptsPrefix(out', spool')
    BY <1>1, Zenon DEF IInv, Written
  <2> QED
    BY <1>1, <1>3, <2>1, <2>2, <2>3 DEF IInv, Phases, Preparing, Releasing,
       Spooled, Accepted, Written, NoUnauthenticatedPlaintext,
       SuccessfulCopyIsWhole, ReadErrorRejects, filevars
<1>4. CASE /\ \E e \in {"ETMPFILE", "EOPENSSL", "ENOMEM"} : CopyReturns(e)
           /\ clean' = FALSE /\ UNCHANGED <<spoolPos, spoolError>>
  <2>1. /\ rc' \in Codes /\ rc' # "OK" /\ ctr' = 0
        /\ pc' = IF op = "file" THEN "free" ELSE "idle"
    BY <1>4 DEF CopyReturns, Codes
  <2>2. TypeOK'
    BY <1>1, <1>4, <2>1 DEF IInv, TypeOK, filevars
  <2>3. DecryptsPrefix(out', spool')
    BY <1>1, Zenon DEF IInv, Written
  <2> QED
    BY <1>1, <2>1, <2>2, <2>3 DEF IInv, Phases, Preparing, Releasing, Spooled,
       Accepted, Written, NoUnauthenticatedPlaintext, SuccessfulCopyIsWhole,
       ReadErrorRejects, filevars
<1> QED
  BY <1>3, <1>4 DEF CopyStart
\* What a turn of the copying loop may add to the output.
LEMMA DecryptedPiece ==
  ASSUME IInv, pc = "decrypt", NEW fails \in BOOLEAN, NEW n \in 0..EncBlock,
         Fread(spool, spoolPos, EncBlock, n, fails), n > 0, NEW m \in 0..n
  PROVE  /\ out \o Decrypted(m) \in Seq(Released)
         /\ Len(out \o Decrypted(m)) = ctr + m
         /\ DecryptsPrefix(out \o Decrypted(m), spool)
<1>1. /\ spool \in Seq(Cells) /\ out \in Seq(Released) /\ ctr \in Nat
      /\ spoolPos = ctr /\ Len(out) = ctr /\ DecryptsPrefix(out, spool)
      /\ EncBlock \in Nat
  BY SizeAssumption DEF IInv, TypeOK, Phases, Releasing, Written
<1>2. ctr + n <= Len(spool)
  BY <1>1, FreadInside
<1>3. m \in Nat /\ Len(out) + m <= Len(spool)
  BY <1>1, <1>2, LenProperties
<1>4. Decrypted(m) = [j \in 1..m |-> [cell |-> spool[Len(out) + j], at |-> Len(out) + j - 1]]
  BY <1>1, Zenon DEF Decrypted
<1> QED
  BY <1>1, <1>3, <1>4, DecryptMore, ZenonT(60)

LEMMA CopyBlockPreserves == IInv /\ CopyBlock => IInv'
<1> SUFFICES ASSUME IInv, CopyBlock PROVE IInv'
  OBVIOUS
<1>1. /\ cookie = "valid" /\ spool \in Seq(Cells) /\ spool \in Authentic
      /\ out \in Seq(Released) /\ pc = "decrypt" /\ ctr \in Nat /\ clean \in BOOLEAN
      /\ op \in {"copy", "file"} /\ spoolPos = ctr /\ Len(out) = ctr
      /\ spoolError \in BOOLEAN /\ DecryptsPrefix(out, spool)
      /\ UNCHANGED <<op, filevars, cookie, dk, spool, spoolOpen, buf, hashed>>
  BY DEF IInv, TypeOK, Phases, Releasing, Accepted, Written, CopyBlock
<1>2. PICK fails \in BOOLEAN, n \in 0..EncBlock :
        /\ Fread(spool, spoolPos, EncBlock, n, fails)
        /\ spoolError' = (spoolError \/ fails)
        /\ \/ /\ n = 0
              /\ \E e \in {"ETMPFILE", "OK"} : (e = "OK" <=> ~spoolError') /\ CopyReturns(e)
              /\ clean' = (clean /\ ~fails)
              /\ UNCHANGED <<spoolPos, out>>
           \/ /\ n > 0
              /\ out' = out \o Decrypted(n)
              /\ spoolPos' = spoolPos + n /\ ctr' = ctr + n
              /\ clean' = (clean /\ ~fails)
              /\ UNCHANGED <<pc, rc>>
           \/ /\ n > 0
              /\ \E m \in 0..(n - 1) : out' = out \o Decrypted(m)
              /\ spoolPos' = spoolPos + n
              /\ CopyReturns("EWRFILE")
              /\ clean' = FALSE
  BY Zenon DEF CopyBlock
<1>3. /\ spoolError' \in BOOLEAN /\ n \in Nat /\ EncBlock \in Nat
      /\ clean' \in BOOLEAN
  <2>1. n \in Nat /\ EncBlock \in Nat
    BY SizeAssumption
  <2>2. clean' = (clean /\ ~fails) \/ clean' = FALSE
    BY <1>2, Zenon
  <2>3. clean' \in BOOLEAN
    BY <1>1, <2>2
  <2>4. spoolError' \in BOOLEAN
    BY <1>1, <1>2, Zenon
  <2> QED
    BY <2>1, <2>3, <2>4
<1>4. ASSUME n > 0, NEW m \in 0..n
      PROVE  /\ out \o Decrypted(m) \in Seq(Released)
             /\ Len(out \o Decrypted(m)) = ctr + m
             /\ DecryptsPrefix(out \o Decrypted(m), spool)
  BY <1>1, <1>2, <1>4, DecryptedPiece
\* A failing or finishing copy, whatever it has written by then.
<1>5. ASSUME NEW code \in Codes, CopyReturns(code), spoolPos' \in Nat,
             out' \in Seq(Released), DecryptsPrefix(out', spool),
             code = "OK" => Len(out') = Len(spool)
      PROVE  IInv'
  <2>1. /\ rc' = code /\ ctr' = 0
        /\ pc' = IF op = "file" THEN "free" ELSE "idle"
    BY <1>5 DEF CopyReturns
  <2>2. TypeOK'
    BY <1>1, <1>2, <1>3, <1>5, <2>1 DEF IInv, TypeOK, filevars
  <2>3. DecryptsPrefix(out', spool')
    BY <1>1, <1>5, Zenon
  <2>4. Phases' /\ Spooled' /\ Accepted' /\ Written'
    BY <1>1, <1>5, <2>1, <2>3 DEF IInv, Phases, Preparing, Releasing, Spooled,
       Accepted, Written
  <2>5. NoUnauthenticatedPlaintext' /\ SuccessfulCopyIsWhole'
    BY <1>1, <1>5, <2>1, <2>3 DEF NoUnauthenticatedPlaintext, SuccessfulCopyIsWhole
  <2> QED
    BY <1>1, <2>2, <2>4, <2>5 DEF IInv, ReadErrorRejects, filevars
<1>6. CASE /\ n = 0 /\ \E e \in {"ETMPFILE", "OK"} : (e = "OK" <=> ~spoolError') /\ CopyReturns(e)
           /\ UNCHANGED <<spoolPos, out>>
  <2>1. ~(spoolError \/ fails) => Len(out) = Len(spool)
    <3>1. SUFFICES ASSUME ~(spoolError \/ fails) PROVE Len(out) = Len(spool)
      OBVIOUS
    <3>2. fails = FALSE
      BY <3>1
    <3>3. ctr >= Len(spool)
      BY <1>1, <1>2, <1>6, <3>2, FreadEnd, SizeAssumption
    <3> QED
      BY <1>1, <3>3, LenProperties DEF DecryptsPrefix
  <2>2. PICK code \in Codes : /\ CopyReturns(code)
                              /\ code = "OK" => ~(spoolError \/ fails)
    BY <1>2, <1>6 DEF Codes
  <2> QED
    BY <1>1, <1>5, <1>6, <2>1, <2>2
<1>7. CASE /\ n > 0 /\ out' = out \o Decrypted(n)
           /\ spoolPos' = spoolPos + n /\ ctr' = ctr + n /\ UNCHANGED <<pc, rc>>
  <2>1. /\ out' \in Seq(Released) /\ Len(out') = ctr'
        /\ DecryptsPrefix(out', spool) /\ spoolPos' = ctr' /\ ctr' \in Nat
    BY <1>1, <1>3, <1>4, <1>7
  <2>2. DecryptsPrefix(out', spool')
    BY <1>1, <2>1, Zenon
  <2>3. TypeOK'
    BY <1>1, <1>2, <1>3, <1>7, <2>1 DEF IInv, TypeOK, filevars
  <2> QED
    BY <1>1, <1>7, <2>1, <2>2, <2>3 DEF IInv, Phases, Preparing, Releasing,
       Spooled, Accepted, Written, NoUnauthenticatedPlaintext,
       SuccessfulCopyIsWhole, ReadErrorRejects, filevars
<1>8. CASE /\ n > 0 /\ \E m \in 0..(n - 1) : out' = out \o Decrypted(m)
           /\ spoolPos' = spoolPos + n /\ CopyReturns("EWRFILE")
  <2>1. PICK m \in 0..(n - 1) : out' = out \o Decrypted(m)
    BY <1>8
  <2>2. m \in 0..n /\ spoolPos' \in Nat
    BY <1>1, <1>3, <1>8
  <2>3. out' \in Seq(Released) /\ DecryptsPrefix(out', spool)
    BY <1>4, <1>8, <2>1, <2>2, Zenon
  <2> QED
    BY <1>5, <1>8, <2>2, <2>3 DEF Codes
<1> QED
  BY <1>2, <1>6, <1>7, <1>8
LEMMA FreePreserves ==
  ASSUME NEW where \in {"idle", "free"}, IInv, Free(where)
  PROVE  IInv'
<1>1. /\ cookie = "valid" /\ hashed = <<>> /\ spool \in Authentic /\ pc = where
      /\ DecryptsPrefix(out, spool)
  BY DEF IInv, Spooled, Accepted, Written, Free
<1>2. /\ pc' = "idle" /\ cookie' = "none" /\ spool' = <<>> /\ hashed' = <<>>
      /\ out' = out /\ rc' = rc /\ op' = op /\ dk' = "zero" /\ spoolOpen' = FALSE
  BY <1>1 DEF Free, FreeCookie, workvars
<1>3. <<>> \in Seq(Cells) /\ 0 \in Nat
  BY EmptySeq
<1>4. TypeOK'
  BY <1>3 DEF IInv, TypeOK, Free, FreeCookie, filevars, workvars
<1>5. SuccessfulCopyIsWhole'
  <2>1. CASE where = "free"
    BY <1>1, <1>2, <2>1 DEF IInv, Written, SuccessfulCopyIsWhole, DecryptsPrefix
  <2>2. CASE where = "idle"
    BY <1>1, <1>2, <2>2 DEF IInv, SuccessfulCopyIsWhole, DecryptsPrefix
  <2> QED
    BY <2>1, <2>2
<1>6. NoUnauthenticatedPlaintext'
  BY <1>2 DEF IInv, NoUnauthenticatedPlaintext, DecryptsPrefix
<1> QED
  BY <1>2, <1>4, <1>5, <1>6 DEF IInv, Phases, Preparing, Releasing, Spooled,
     Accepted, Written, ReadErrorRejects

LEMMA RewritePreserves == IInv /\ Rewrite => IInv'
<1> SUFFICES ASSUME IInv, Rewrite PROVE IInv'
  OBVIOUS
<1>1. TypeOK'
  BY DEF IInv, TypeOK, Rewrite, spoolvars, workvars
<1> QED
  BY <1>1 DEF Rewrite, IInv, Phases, Preparing, Releasing, Spooled, Accepted,
     Written, NoUnauthenticatedPlaintext, SuccessfulCopyIsWhole, ReadErrorRejects,
     DecryptsPrefix, spoolvars, workvars

-----------------------------------------------------------------------------
(* The theorems. *)

THEOREM Invariant == Spec => []IInv
<1>1. IInv /\ [Next]_vars => IInv'
  <2> SUFFICES ASSUME IInv, [Next]_vars PROVE IInv'
    OBVIOUS
  <2>1. CASE Prep \/ Copy \/ Free("idle") \/ Rewrite
    BY <2>1, PrepPreserves, CopyPreserves, FreePreserves, RewritePreserves
  <2>2. CASE Steps
    BY <2>2, LoadHeaderPreserves, SetupPreserves, ReadBlockPreserves,
       VerifyPreserves, Err1Preserves, CopyStartPreserves, CopyBlockPreserves,
       FreePreserves
       DEF Steps
  <2>3. CASE UNCHANGED vars
    BY <2>3 DEF vars, filevars, spoolvars, workvars, IInv, TypeOK, Phases,
       Preparing, Releasing, Spooled, Accepted, Written, DecryptsPrefix,
       NoUnauthenticatedPlaintext, SuccessfulCopyIsWhole, ReadErrorRejects
  <2> QED
    BY <2>1, <2>2, <2>3 DEF Next
<1> QED
  BY <1>1, InitInvariant, PTL DEF Spec

\* Every variable keeps its type; what is held back of the input never grows
\* beyond an authenticator between two reads.
THEOREM TypeCorrect == Spec => []TypeOK
<1>1. IInv => TypeOK
  BY DEF IInv
<1> QED
  BY <1>1, Invariant, PTL

\* Whatever the input and however it changes, only the decryption of the
\* beginning of an authentic ciphertext is ever written.
THEOREM AuthenticatedRelease == Spec => []NoUnauthenticatedPlaintext
<1>1. IInv => NoUnauthenticatedPlaintext
  BY DEF IInv
<1> QED
  BY <1>1, Invariant, PTL

\* A copy or a decryption that returns OK has written all of one.
THEOREM WholeCopy == Spec => []SuccessfulCopyIsWhole
<1>1. IInv => SuccessfulCopyIsWhole
  BY DEF IInv
<1> QED
  BY <1>1, Invariant, PTL

\* No cookie comes out of an input of which a read failed.
THEOREM ReadErrorsReject == Spec => []ReadErrorRejects
<1>1. IInv => ReadErrorRejects
  BY DEF IInv
<1> QED
  BY <1>1, Invariant, PTL

\* Every exit gives back what its caller does not get: a failing prep and any
\* scryptdec_file leave no cookie, and so no spool and no keys.
THEOREM NothingLeft == Spec => []FailureLeavesNothing
<1>1. IInv => FailureLeavesNothing
  <2> SUFFICES ASSUME IInv, pc = "idle"
               PROVE  /\ cookie # "prep"
                      /\ op = "prep" /\ rc # "OK" => cookie = "none"
                      /\ op = "file" => cookie = "none"
                      /\ cookie = "none" => ~spoolOpen /\ dk \in {"none", "zero"}
    BY DEF FailureLeavesNothing
  <2>1. cookie \in {"none", "valid"}
    BY DEF IInv, TypeOK, Phases, Preparing
  <2>2. cookie = "valid" => op \in {"prep", "copy"} /\ (op = "prep" => rc = "OK")
    BY DEF IInv, Phases
  <2> QED
    BY <2>1, <2>2 DEF IInv
<1> QED
  BY <1>1, Invariant, PTL
-----------------------------------------------------------------------------
(* Decryption implements authenticated release. *)

\* A beginning of the decryption, as the abstract specification writes it.
LEMMA PrefixIsSubSeq ==
  ASSUME NEW o \in Seq(Released), NEW d \in Seq(Cells), DecryptsPrefix(o, d)
  PROVE  o = SubSeq(Abstract!Plain(d), 1, Len(o))
<1> DEFINE e == Abstract!Plain(d)
           t == SubSeq(e, 1, Len(o))
<1>1. Len(o) \in Nat /\ Len(d) \in Nat /\ Len(o) <= Len(d)
  BY LenProperties DEF DecryptsPrefix
<1>2. ASSUME NEW j \in 1..Len(d)
      PROVE  e[j] = [cell |-> d[j], at |-> j - 1] /\ e[j] \in Released
  <2>1. e[j] = [cell |-> d[j], at |-> j - 1]
    BY DEF Abstract!Plain
  <2>2. d[j] \in Cells /\ j - 1 \in Nat
    BY ElementOfSeq
  <2> QED
    BY <2>1, <2>2 DEF Released
<1> HIDE DEF e
<1>3. ASSUME NEW j \in 1..Len(o) PROVE e[j] \in Released
  <2>1. j \in 1..Len(d)
    BY <1>1
  <2> QED
    BY <1>2, <2>1
<1>4. /\ t \in Seq(Released)
      /\ Len(t) = IF 1 <= Len(o) THEN Len(o) - 1 + 1 ELSE 0
      /\ \A j \in 1..(Len(o) - 1 + 1) : t[j] = e[1 + j - 1]
  BY <1>1, <1>3, SubSeqProperties
<1> HIDE DEF t
<1>5. Len(t) = Len(o)
  BY <1>1, <1>4
<1>6. ASSUME NEW j \in 1..Len(o) PROVE o[j] = t[j]
  <2>1. t[j] = e[j]
    BY <1>1, <1>4
  <2>2. e[j] = [cell |-> d[j], at |-> j - 1]
    BY <1>1, <1>2
  <2> QED
    BY <2>1, <2>2 DEF DecryptsPrefix
<1>7. o = t
  BY <1>4, <1>5, <1>6, SeqEqual
<1> QED
  BY <1>7 DEF t, e
\* A turn of the copying loop releases more of the verdict.
LEMMA CopyBlockRefines ==
  ASSUME IInv, IInv', CopyBlock
  PROVE  Abstract!ARelease
<1>1. /\ cookie = "valid" /\ spool \in Seq(Cells) /\ spool \in Authentic
      /\ out \in Seq(Released) /\ ctr \in Nat /\ Len(out) = ctr /\ pc = "decrypt"
      /\ cookie' = cookie /\ spool' = spool
  BY DEF IInv, TypeOK, Phases, Releasing, Accepted, Written, CopyBlock
<1>2. out' \in Seq(Released) /\ DecryptsPrefix(out', spool)
  <2>1. out' \in Seq(Released) /\ DecryptsPrefix(out', spool')
    BY <1>1 DEF IInv, TypeOK, Written
  <2> QED
    BY <1>1, <2>1, Zenon
<1>3. PICK fails \in BOOLEAN, n \in 0..EncBlock :
        /\ Fread(spool, spoolPos, EncBlock, n, fails)
        /\ out' = out \/ (n > 0 /\ \E m \in 0..n : out' = out \o Decrypted(m))
  BY DEF CopyBlock
<1>4. PICK o \in Seq(Released) : o = out'
  BY <1>2, Zenon
<1>5. Len(out) <= Len(o)
  <2>1. CASE o = out
    BY <1>1, <2>1
  <2>2. ASSUME n > 0, NEW m \in 0..n, o = out \o Decrypted(m)
        PROVE  Len(out) <= Len(o)
    BY <1>1, <1>3, <2>2, DecryptedPiece
  <2> QED
    BY <1>3, <1>4, <2>1, <2>2
<1>6. DecryptsPrefix(o, spool)
  BY <1>2, <1>4, Zenon
<1>7. Len(o) \in Len(out)..Len(spool) /\ o = SubSeq(Abstract!Plain(spool), 1, Len(o))
  <2>1. Len(o) \in Nat /\ Len(spool) \in Nat
    BY <1>1, LenProperties
  <2>2. Len(o) <= Len(spool)
    BY <1>6 DEF DecryptsPrefix
  <2>3. o = SubSeq(Abstract!Plain(spool), 1, Len(o))
    BY <1>1, <1>6, PrefixIsSubSeq, Zenon
  <2> QED
    BY <1>1, <1>5, <2>1, <2>2, <2>3
<1>8. /\ (IF cookie = "valid" THEN spool ELSE Nothing) = spool
      /\ (IF cookie' = "valid" THEN spool' ELSE Nothing) = spool
      /\ spool # Nothing
  BY <1>1, NothingAssumption
<1>9. \E k \in Len(out)..Len(spool) : out' = SubSeq(Abstract!Plain(spool), 1, k)
  BY <1>4, <1>7, Zenon
<1> QED
  BY <1>8, <1>9 DEF Abstract!ARelease

\* Decryption implements AuthRelease: nothing is released before all of it is
\* authenticated, and what is released is the decryption of what was.
THEOREM DecRefines == Spec => ImplementsAuthRelease
<1>1. Init => Abstract!AInit
  BY DEF Init, Abstract!AInit
<1>2. IInv /\ IInv' /\ [Next]_vars => [Abstract!ANext]_Abstract!avars
  <2> SUFFICES ASSUME IInv, IInv', [Next]_vars
               PROVE  Abstract!ANext \/ UNCHANGED Abstract!avars
    OBVIOUS
  <2>1. CASE CopyBlock
    BY <2>1, CopyBlockRefines DEF Abstract!ANext
  <2>2. CASE Prep \/ Copy
    <3>1. out' = <<>> /\ UNCHANGED spool /\ (cookie' = "valid" <=> cookie = "valid")
      BY <2>2 DEF Prep, Copy, Return, spoolvars
    <3> QED
      BY <3>1 DEF Abstract!ANext, Abstract!ANewOutput
  <2>3. CASE Verify
    <3>1. cookie = "prep" /\ out' = out
      BY <2>3 DEF IInv, Phases, Preparing, Verify, PrepFails
    <3>2. cookie' = "valid" => spool' \in Authentic
      BY DEF IInv, Accepted
    <3>3. CASE cookie' = "valid"
      BY <3>1, <3>2, <3>3 DEF Abstract!ANext, Abstract!AAccept
    <3>4. CASE cookie' # "valid"
      BY <3>1, <3>4 DEF Abstract!avars
    <3> QED
      BY <3>3, <3>4
  <2>4. CASE LoadHeader \/ Setup \/ ReadBlock
    <3>1. cookie = "prep" /\ out' = out /\ cookie' # "valid"
      BY <2>4 DEF IInv, Phases, Preparing, LoadHeader, Setup, ReadBlock,
         SpoolFails, PrepFails
    <3> QED
      BY <3>1 DEF Abstract!avars
  <2>5. CASE Free("idle") \/ Free("free") \/ Err1
    <3>1. cookie' = "none" /\ out' = out
      BY <2>5 DEF Free, Err1, FreeCookie
    <3> QED
      BY <3>1 DEF Abstract!ANext, Abstract!ADiscard
  <2>6. CASE CopyStart \/ Rewrite \/ UNCHANGED vars
    <3>1. UNCHANGED <<cookie, spool, out>>
      BY <2>6 DEF CopyStart, Rewrite, vars, spoolvars
    <3> QED
      BY <3>1 DEF Abstract!avars
  <2> QED
    BY <2>1, <2>2, <2>3, <2>4, <2>5, <2>6 DEF Next, Steps
<1> QED
  BY <1>1, <1>2, Invariant, PTL DEF Spec, ImplementsAuthRelease, Abstract!ASpec
-----------------------------------------------------------------------------
(* Good files are accepted. *)

\* h, and b after it, are the first cells of s.
InOrder(s, h, b) ==
  /\ \A j \in 1..Len(h) : h[j] = s[j]
  /\ \A j \in 1..Len(b) : b[j] = s[Len(h) + j]

\* What is hashed and what is held back are the first p cells of s, in order.
AsRead(s, p, h, b) ==
  /\ p = Len(h) + Len(b) /\ p <= Len(s)
  /\ InOrder(s, h, b)
  /\ h = <<>> \/ Len(b) = TagLen

\* In a call in which nothing failed and nobody changed the input.
Undisturbed ==
  /\ pc \notin {"read", "verify", "err1"} => buf = <<>> /\ hashed = <<>>
  /\ clean /\ pc \in {"header", "setup"} => pos = 0 /\ ~rdError
  /\ clean /\ pc \in {"read", "verify"} => ~rdError /\ AsRead(content, pos, hashed, buf)
  /\ clean /\ pc = "verify" => pos = Len(content)
  /\ clean /\ pc = "err1" =>
       header # "good" \/ \A d \in Authentic : content # d \o Tag[d]
  /\ clean /\ pc = "decrypt" => ~spoolError
  /\ clean /\ pc = "free" => rc = "OK"

AInv == IInv /\ Undisturbed /\ AuthenticIsAccepted

\* A whole file that was read to its end verifies.
LEMMA WholeVerifies ==
  ASSUME IInv, Undisturbed, pc = "verify", clean,
         NEW d \in Authentic, content = d \o Tag[d]
  PROVE  VerifyFault = "OK"
<1>1. /\ ~rdError /\ pos = Len(hashed) + Len(buf) /\ pos = Len(content)
      /\ \A j \in 1..Len(hashed) : hashed[j] = content[j]
      /\ \A j \in 1..Len(buf) : buf[j] = content[Len(hashed) + j]
      /\ hashed = <<>> \/ Len(buf) = TagLen
  BY DEF Undisturbed, AsRead, InOrder
<1>2. /\ d \in Seq(Cells) /\ content \in Seq(Cells) /\ buf \in Seq(Cells)
      /\ hashed \in Seq(Cells) /\ Len(buf) <= TagLen /\ Len(Tag[d]) = TagLen
  BY DataAssumption, TagAssumption DEF IInv, TypeOK
<1>3. PICK t \in Seq(Cells) : t = Tag[d]
  BY TagAssumption
<1>4. /\ Len(content) = Len(d) + TagLen
      /\ \A j \in 1..(Len(d) + TagLen) :
           content[j] = IF j <= Len(d) THEN d[j] ELSE t[j - Len(d)]
  BY <1>2, <1>3, ConcatProperties
<1>5. Len(d) \in Nat /\ Len(hashed) \in Nat /\ Len(buf) \in Nat /\ TagLen \in Nat
  BY <1>2, LenProperties, SizeAssumption
<1>6. Len(buf) = TagLen /\ Len(hashed) = Len(d)
  <2>1. CASE hashed = <<>>
    BY <1>1, <1>2, <1>4, <1>5, <2>1, EmptySeq
  <2> QED
    BY <1>1, <1>4, <1>5, <2>1
<1>7. hashed = d
  <2>1. ASSUME NEW j \in 1..Len(hashed) PROVE hashed[j] = d[j]
    BY <1>1, <1>4, <1>5, <1>6
  <2> QED
    BY <1>2, <1>6, <2>1, SeqEqual
<1>8. buf = t
  <2>1. ASSUME NEW j \in 1..Len(buf) PROVE buf[j] = t[j]
    <3>1. Len(d) + j \in 1..(Len(d) + TagLen) /\ ~(Len(d) + j <= Len(d)) /\ Len(d) + j - Len(d) = j
      BY <1>5, <1>6
    <3> QED
      BY <1>1, <1>4, <1>6, <3>1
  <2> QED
    BY <1>2, <1>3, <1>6, <2>1, SeqEqual
<1> QED
  BY <1>1, <1>3, <1>5, <1>6, <1>7, <1>8 DEF VerifyFault, HmacIs

LEMMA AInitInvariant == Init => AInv
<1>1. Init => AuthenticIsAccepted
  BY DEF Init, AuthenticIsAccepted
<1> QED
  BY <1>1, InitInvariant DEF Init, AInv, Undisturbed

\* A failing exit of scryptdec_file_prep that something caused.
LEMMA PrepFailsAccepts ==
  ASSUME NEW code, PrepFails(code), header # "good" \/ ~clean'
  PROVE  Undisturbed' /\ AuthenticIsAccepted'
BY DEF PrepFails, Undisturbed, AuthenticIsAccepted

LEMMA Err1Accepts == AInv /\ Err1 => Undisturbed' /\ AuthenticIsAccepted'
BY DEF AInv, Undisturbed, AuthenticIsAccepted, Err1, DropLocals, filevars

LEMMA PrepAccepts == AInv /\ Prep => Undisturbed' /\ AuthenticIsAccepted'
BY DEF AInv, Undisturbed, AuthenticIsAccepted, Prep, Return, workvars

LEMMA LoadHeaderAccepts == AInv /\ LoadHeader => Undisturbed' /\ AuthenticIsAccepted'
<1> SUFFICES ASSUME AInv, LoadHeader PROVE Undisturbed' /\ AuthenticIsAccepted'
  OBVIOUS
<1>1. CASE header \in LoadedHeaders /\ pc' = "setup"
           /\ UNCHANGED <<op, rc, filevars, cookie, dk, spoolvars, workvars, out, clean>>
  BY <1>1 DEF AInv, LoadHeader, Undisturbed, AuthenticIsAccepted, filevars, workvars
<1>2. CASE header \notin LoadedHeaders /\ PrepFails(HeaderFault(header))
  BY <1>2, PrepFailsAccepts DEF LoadedHeaders
<1>3. CASE clean' = FALSE /\ PrepFails("ERDFILE")
  BY <1>3, PrepFailsAccepts
<1> QED
  BY <1>1, <1>2, <1>3 DEF LoadHeader

LEMMA SetupAccepts == AInv /\ Setup => Undisturbed' /\ AuthenticIsAccepted'
<1> SUFFICES ASSUME AInv, Setup PROVE Undisturbed' /\ AuthenticIsAccepted'
  OBVIOUS
<1>1. CASE \E code : PrepFails(code) /\ (header # "good" \/ ~clean')
  BY <1>1, PrepFailsAccepts
<1>2. CASE /\ pc' = "read" /\ UNCHANGED <<header, content, workvars, clean>>
  <2>1. /\ buf = <<>> /\ hashed = <<>> /\ (clean => pos = 0 /\ ~rdError)
        /\ content \in Seq(Cells)
    BY DataAssumption DEF AInv, IInv, TypeOK, Undisturbed, Setup
  <2>2. UNCHANGED <<pos, rdError, buf, hashed, content, clean>>
    BY <1>2 DEF Setup, workvars
  <2>3. AsRead(content, 0, <<>>, <<>>)
    BY <2>1, EmptySeq, LenProperties DEF AsRead, InOrder
  <2> QED
    BY <1>2, <2>1, <2>2, <2>3 DEF Undisturbed, AuthenticIsAccepted
<1> QED
  BY <1>1, <1>2 DEF Setup

LEMMA ConcatCells ==
  ASSUME NEW x \in Seq(Cells), NEW y \in Seq(Cells)
  PROVE  /\ Len(x \o y) = Len(x) + Len(y)
         /\ \A j \in 1..(Len(x) + Len(y)) :
              (x \o y)[j] = IF j <= Len(x) THEN x[j] ELSE y[j - Len(x)]
BY ConcatProperties, Zenon

\* All that was read but the last TagLen cells goes from what is held back to
\* what is hashed.
LEMMA SplitInOrder ==
  ASSUME NEW s \in Seq(Cells), NEW h \in Seq(Cells), NEW new \in Seq(Cells),
         InOrder(s, h, new), NEW done \in Nat, done + TagLen = Len(new), Len(h) + Len(new) <= Len(s)
  PROVE  AsRead(s, Len(h) + Len(new), h \o Piece(new, 0, done), Piece(new, done, TagLen))
<1>1. Len(h) \in Nat /\ Len(new) \in Nat /\ Len(s) \in Nat /\ TagLen \in Nat
  BY LenProperties, SizeAssumption
<1> DEFINE u == Piece(new, 0, done)
           w == Piece(new, done, TagLen)
           g == h \o u
<1>2. u \in Seq(Cells) /\ Len(u) = done /\ \A j \in 1..done : u[j] = new[j]
  <2>1. 0 \in Nat /\ 0 + done <= Len(new) /\ \A j \in 1..done : 0 + j = j
    BY <1>1
  <2>2. u \in Seq(Cells) /\ Len(u) = done /\ \A j \in 1..done : u[j] = new[0 + j]
    BY <2>1, PieceProperties, ZenonT(60)
  <2> QED
    BY <2>1, <2>2, Zenon
<1>3. Len(w) = TagLen /\ \A j \in 1..TagLen : w[j] = new[done + j]
  <2>1. TagLen \in Nat /\ done + TagLen <= Len(new)
    BY <1>1
  <2>2. w \in Seq(Cells) /\ Len(w) = TagLen /\ \A j \in 1..TagLen : w[j] = new[done + j]
    BY <2>1, PieceProperties, ZenonT(60)
  <2> QED
    BY <2>2, Zenon
<1> HIDE DEF u, w, g
<1>4. /\ Len(g) = Len(h) + done
      /\ \A j \in 1..(Len(h) + done) : g[j] = IF j <= Len(h) THEN h[j] ELSE u[j - Len(h)]
  <2>1. h \in Seq(Cells) /\ u \in Seq(Cells)
    BY <1>2
  <2>2. /\ Len(h \o u) = Len(h) + Len(u)
        /\ \A j \in 1..(Len(h) + Len(u)) :
             (h \o u)[j] = IF j <= Len(h) THEN h[j] ELSE u[j - Len(h)]
    BY <2>1, ConcatCells, Zenon
  <2> QED
    BY <1>2, <2>2, Zenon DEF g
<1>5. ASSUME NEW j \in 1..Len(g) PROVE g[j] = s[j]
  <2>1. CASE j <= Len(h)
    <3>1. j \in 1..(Len(h) + done) /\ j \in 1..Len(h)
      BY <1>1, <1>4, <2>1
    <3>2. g[j] = h[j]
      BY <1>4, <2>1, <3>1
    <3> QED
      BY <3>1, <3>2 DEF InOrder
  <2>2. CASE j > Len(h)
    <3>1. /\ j - Len(h) \in 1..done /\ j - Len(h) \in 1..Len(new)
          /\ Len(h) + (j - Len(h)) = j /\ j \in 1..(Len(h) + done) /\ ~(j <= Len(h))
      BY <1>1, <1>4, <2>2
    <3>2. g[j] = u[j - Len(h)]
      BY <1>4, <3>1
    <3>3. new[j - Len(h)] = s[Len(h) + (j - Len(h))]
      BY <3>1 DEF InOrder
    <3> QED
      BY <1>2, <3>1, <3>2, <3>3
  <2> QED
    BY <1>1, <1>4, <2>1, <2>2
<1>6. ASSUME NEW j \in 1..Len(w) PROVE w[j] = s[Len(g) + j]
  <2>1. j \in 1..TagLen /\ done + j \in 1..Len(new) /\ Len(h) + (done + j) = Len(g) + j
    BY <1>1, <1>3, <1>4
  <2>2. w[j] = new[done + j]
    BY <1>3, <2>1
  <2>3. new[done + j] = s[Len(h) + (done + j)]
    BY <2>1 DEF InOrder
  <2> QED
    BY <2>1, <2>2, <2>3
<1>7. Len(h) + Len(new) = Len(g) + Len(w)
  <2>1. Len(g) = Len(h) + done /\ Len(w) = TagLen
    BY <1>3, <1>4
  <2> QED
    BY <1>1, <2>1
<1>8. AsRead(s, Len(h) + Len(new), g, w)
  BY <1>3, <1>5, <1>6, <1>7 DEF AsRead, InOrder
<1> QED
  BY <1>8 DEF g, u, w

\* A turn of the reading loop keeps what was read in order.
LEMMA ReadInOrder ==
  ASSUME NEW s \in Seq(Cells), NEW p \in Nat, NEW h \in Seq(Cells), NEW b \in Seq(Cells),
         AsRead(s, p, h, b), Len(b) <= TagLen,
         NEW n \in Nat, n > 0, p + n <= Len(s)
  PROVE  LET new == b \o Piece(s, p, n)
             done == Len(new) - TagLen
         IN /\ done <= 0 => AsRead(s, p + n, h, new)
            /\ done > 0 => AsRead(s, p + n, h \o Piece(new, 0, done), Piece(new, done, TagLen))
<1> DEFINE q == Piece(s, p, n)
           new == b \o q
           done == Len(new) - TagLen
<1>1. q \in Seq(Cells) /\ Len(q) = n /\ \A j \in 1..n : q[j] = s[p + j]
  BY PieceProperties, Zenon
<1>2. Len(h) \in Nat /\ Len(b) \in Nat /\ Len(s) \in Nat /\ TagLen \in Nat \ {0}
  BY LenProperties, SizeAssumption
<1> HIDE DEF q
<1>3. /\ new \in Seq(Cells) /\ Len(new) = Len(b) + n
      /\ \A j \in 1..(Len(b) + n) : new[j] = IF j <= Len(b) THEN b[j] ELSE q[j - Len(b)]
  <2>1. /\ new \in Seq(Cells) /\ Len(new) = Len(b) + Len(q)
        /\ \A j \in 1..(Len(b) + Len(q)) :
             new[j] = IF j <= Len(b) THEN b[j] ELSE q[j - Len(b)]
    BY <1>1, ConcatProperties, Zenon
  <2> QED
    BY <1>1, <2>1, Zenon
<1> HIDE DEF new
<1>4. ASSUME NEW j \in 1..Len(new) PROVE new[j] = s[Len(h) + j]
  <2>1. CASE j <= Len(b)
    <3>1. j \in 1..(Len(b) + n) /\ j \in 1..Len(b)
      BY <1>2, <1>3, <2>1
    <3>2. new[j] = b[j]
      BY <1>3, <2>1, <3>1
    <3> QED
      BY <3>1, <3>2 DEF AsRead, InOrder
  <2>2. CASE j > Len(b)
    <3>1. /\ j - Len(b) \in 1..n /\ p + (j - Len(b)) = Len(h) + j
          /\ j \in 1..(Len(b) + n) /\ ~(j <= Len(b))
      BY <1>2, <1>3, <2>2 DEF AsRead
    <3>2. new[j] = q[j - Len(b)]
      BY <1>3, <3>1
    <3>3. q[j - Len(b)] = s[p + (j - Len(b))]
      BY <1>1, <3>1
    <3> QED
      BY <3>1, <3>2, <3>3
  <2> QED
    BY <1>2, <1>3, <2>1, <2>2
<1>5. p + n = Len(h) + Len(new) /\ InOrder(s, h, new)
  BY <1>2, <1>3, <1>4 DEF AsRead, InOrder
<1>6. ASSUME done <= 0 PROVE AsRead(s, p + n, h, new)
  <2>1. Len(b) # TagLen
    BY <1>2, <1>3, <1>6
  <2>2. h = <<>>
    BY <2>1 DEF AsRead
  <2> HIDE DEF done
  <2> QED
    BY <1>5, <2>2 DEF AsRead
<1>7. ASSUME done > 0
      PROVE  AsRead(s, p + n, h \o Piece(new, 0, done), Piece(new, done, TagLen))
  <2>1. done \in Nat /\ done + TagLen = Len(new) /\ Len(h) + Len(new) <= Len(s)
    BY <1>2, <1>3, <1>5, <1>7
  <2> HIDE DEF done
  <2> QED
    BY <1>3, <1>5, <2>1, SplitInOrder
<1> QED
  BY <1>6, <1>7 DEF q, new, done

LEMMA ReadBlockAccepts == AInv /\ ReadBlock => Undisturbed' /\ AuthenticIsAccepted'
<1> SUFFICES ASSUME AInv, ReadBlock PROVE Undisturbed' /\ AuthenticIsAccepted'
  OBVIOUS
<1>1. /\ pc = "read" /\ content \in Seq(Cells) /\ pos \in Nat
      /\ buf \in Seq(Cells) /\ Len(buf) <= TagLen /\ hashed \in Seq(Cells)
      /\ clean => ~rdError /\ AsRead(content, pos, hashed, buf)
  BY DataAssumption DEF AInv, IInv, TypeOK, Undisturbed, ReadBlock
<1>2. EncBlock + TagLen - Len(buf) \in Nat \ {0}
  BY <1>1, SizeAssumption, LenProperties
<1> DEFINE new(n) == buf \o Piece(content, pos, n)
           done(n) == Len(new(n)) - TagLen
           Turn(n) ==
             \/ n = 0 /\ pc' = "verify" /\ UNCHANGED <<hashed, buf>>
             \/ n > 0 /\ done(n) <= 0 /\ pc' = "read" /\ buf' = new(n) /\ UNCHANGED hashed
             \/ /\ n > 0 /\ done(n) > 0 /\ pc' = "read"
                /\ hashed' = hashed \o Piece(new(n), 0, done(n))
                /\ buf' = Piece(new(n), done(n), TagLen)
<1>3. CASE PrepFails("ETMPFILE") /\ clean' = FALSE
  BY <1>3, PrepFailsAccepts
<1>4. CASE \E fails \in BOOLEAN, n \in 0..(EncBlock + TagLen) :
             /\ Fread(content, pos, EncBlock + TagLen - Len(buf), n, fails)
             /\ rdError' = (rdError \/ fails) /\ pos' = pos + n
             /\ clean' = (clean /\ ~fails) /\ UNCHANGED content
             /\ Turn(n)
  <2>1. PICK fails \in BOOLEAN, n \in 0..(EncBlock + TagLen) :
          /\ Fread(content, pos, EncBlock + TagLen - Len(buf), n, fails)
          /\ rdError' = (rdError \/ fails) /\ pos' = pos + n
          /\ clean' = (clean /\ ~fails) /\ UNCHANGED content
          /\ Turn(n)
    BY <1>4
  <2>2. n \in Nat /\ pc' \in {"read", "verify"}
    BY <1>1, <2>1, SizeAssumption
  <2>3. n > 0 => pos + n <= Len(content)
    BY <1>1, <1>2, <2>1, <2>2, FreadInside
  <2>4. ASSUME clean', n = 0 PROVE pos = Len(content)
    <3>1. Fread(content, pos, EncBlock + TagLen - Len(buf), 0, FALSE)
      BY <2>1, <2>4
    <3>2. pos >= Len(content)
      BY <1>1, <1>2, <3>1, FreadEnd
    <3> QED
      <4>1. pos <= Len(content) /\ Len(content) \in Nat
        BY <1>1, <2>1, <2>4, LenProperties DEF AsRead
      <4> QED
        BY <1>1, <3>2, <4>1
  <2>5. ASSUME clean' PROVE ~rdError' /\ AsRead(content, pos + n, hashed', buf')
    <3>1. ~rdError' /\ AsRead(content, pos, hashed, buf)
      BY <1>1, <2>1, <2>5
    <3>2. CASE n = 0
      BY <1>1, <2>1, <3>1, <3>2
    <3>3. CASE n > 0
      <4>1. /\ done(n) <= 0 => AsRead(content, pos + n, hashed, new(n))
            /\ done(n) > 0 => AsRead(content, pos + n, hashed \o Piece(new(n), 0, done(n)),
                                     Piece(new(n), done(n), TagLen))
        BY <1>1, <2>2, <2>3, <3>1, <3>3, ReadInOrder
      <4>2. Turn(n)
        BY <2>1
      <4> HIDE DEF new, done
      <4>3. \/ done(n) <= 0 /\ buf' = new(n) /\ hashed' = hashed
            \/ /\ done(n) > 0 /\ hashed' = hashed \o Piece(new(n), 0, done(n))
               /\ buf' = Piece(new(n), done(n), TagLen)
        BY <3>3, <4>2
      <4> QED
        BY <3>1, <4>1, <4>3, Zenon
    <3> QED
      BY <2>2, <3>2, <3>3
  <2> HIDE DEF Turn
  <2>6. pc' = "verify" => n = 0
    BY <2>1 DEF Turn
  <2> QED
    BY <1>1, <2>1, <2>2, <2>4, <2>5, <2>6 DEF Undisturbed, AuthenticIsAccepted
<1> QED
  BY <1>1, <1>3, <1>4 DEF ReadBlock, SpoolFails, HeadLen, Retain, EndOfInput, workvars

LEMMA VerifyAccepts == AInv /\ Verify => Undisturbed' /\ AuthenticIsAccepted'
<1> SUFFICES ASSUME AInv, Verify PROVE Undisturbed' /\ AuthenticIsAccepted'
  OBVIOUS
<1>1. pc = "verify" /\ op \in {"prep", "file"}
  BY DEF Verify, AInv, IInv, Phases, Preparing
<1>2. CASE VerifyFault # "OK" /\ PrepFails(VerifyFault) /\ UNCHANGED clean
  <2>1. ASSUME clean, NEW d \in Authentic, content = d \o Tag[d] PROVE FALSE
    BY <1>1, <1>2, <2>1, WholeVerifies DEF AInv
  <2>2. pc' = "err1" /\ UNCHANGED <<header, content, clean>>
    BY <1>2 DEF PrepFails
  <2> QED
    BY <2>1, <2>2 DEF Undisturbed, AuthenticIsAccepted
<1>3. CASE PrepFails("ETMPFILE") /\ clean' = FALSE
  BY <1>3, PrepFailsAccepts
<1>4. CASE /\ DropLocals /\ UNCHANGED <<op, header, content, clean>>
           /\ IF op = "file" THEN pc' = "copy" /\ UNCHANGED rc ELSE Return("OK")
  BY <1>1, <1>4 DEF DropLocals, Return, Undisturbed, AuthenticIsAccepted
<1> QED
  BY <1>2, <1>3, <1>4 DEF Verify

LEMMA CopyAccepts == AInv /\ (Copy \/ CopyStart) => Undisturbed' /\ AuthenticIsAccepted'
BY DEF AInv, Undisturbed, AuthenticIsAccepted, Copy, CopyStart, CopyReturns, Rewind,
   workvars, filevars

LEMMA CopyBlockAccepts == AInv /\ CopyBlock => Undisturbed' /\ AuthenticIsAccepted'
<1> SUFFICES ASSUME AInv, CopyBlock PROVE Undisturbed' /\ AuthenticIsAccepted'
  OBVIOUS
<1>1. /\ pc = "decrypt" /\ buf = <<>> /\ hashed = <<>> /\ (clean => ~spoolError)
      /\ op \in {"copy", "file"}
  BY DEF AInv, IInv, Phases, Undisturbed, CopyBlock
<1>2. PICK fails \in BOOLEAN :
        /\ spoolError' = (spoolError \/ fails)
        /\ \/ /\ clean' = (clean /\ ~fails)
              /\ \/ \E e : (e = "OK" <=> ~spoolError') /\ CopyReturns(e)
                 \/ UNCHANGED <<pc, rc>>
           \/ clean' = FALSE /\ CopyReturns("EWRFILE")
        /\ UNCHANGED <<op, header, content, buf, hashed>>
  BY DEF CopyBlock, filevars
<1> QED
  BY <1>1, <1>2 DEF CopyReturns, Undisturbed, AuthenticIsAccepted

LEMMA FreeAccepts ==
  ASSUME NEW where \in {"idle", "free"}, AInv, Free(where)
  PROVE  Undisturbed' /\ AuthenticIsAccepted'
BY DEF AInv, IInv, Phases, Undisturbed, AuthenticIsAccepted, Free, workvars, filevars

LEMMA RewriteAccepts == AInv /\ Rewrite => Undisturbed' /\ AuthenticIsAccepted'
BY DEF AInv, Undisturbed, AuthenticIsAccepted, Rewrite, workvars

LEMMA StutterAccepts == AInv /\ UNCHANGED vars => Undisturbed' /\ AuthenticIsAccepted'
<1> SUFFICES ASSUME AInv, UNCHANGED vars PROVE Undisturbed' /\ AuthenticIsAccepted'
  OBVIOUS
<1>1. UNCHANGED <<pc, op, rc, header, content, pos, rdError, buf, hashed, spoolError, clean>>
  BY DEF vars, filevars, spoolvars, workvars
<1>2. Undisturbed'
  BY <1>1, Zenon DEF AInv, Undisturbed
<1>3. AuthenticIsAccepted'
  BY <1>1, Zenon DEF AInv, AuthenticIsAccepted
<1> QED
  BY <1>2, <1>3

\* Nothing the loops do loses a cell: a whole file with a good header is
\* accepted, when nothing fails and nobody changes it meanwhile.
THEOREM GoodAccepted == Spec => []AuthenticIsAccepted
<1>1. AInv /\ [Next]_vars => Undisturbed' /\ AuthenticIsAccepted'
  BY PrepAccepts, LoadHeaderAccepts, SetupAccepts, ReadBlockAccepts, VerifyAccepts,
     Err1Accepts, CopyAccepts, CopyBlockAccepts, FreeAccepts, RewriteAccepts,
     StutterAccepts DEF Next, Steps
<1> QED
  BY <1>1, AInitInvariant, Invariant, PTL DEF Spec, AInv
=============================================================================
