--------------------------- MODULE ScryptEnc_proofs ---------------------------
(***************************************************************************)
(* For all inputs, lengths of header, authenticator and block, changes of  *)
(* the input and places where a read or a write stops: a success has       *)
(* written the whole encryption, nothing else decrypts, keys are zeroed    *)
(* and read errors are reported.                                           *)
(***************************************************************************)
EXTENDS ScryptEnc, SequenceTheorems, TLAPS

-----------------------------------------------------------------------------
\* What a header and encrypted bytes are made of, and what an authenticator is.
BodyCells == {<<"h", i>> : i \in Nat} \cup {<<"c", x, i>> : x \in Bytes, i \in Nat}
Cells == BodyCells \cup {<<"m", s, i>> : s \in Seq(BodyCells), i \in Nat}

\* What is authenticated.
Body(t) == Header \o Encrypted(t, 0)

Begins(u, w) == Len(u) <= Len(w) /\ \A j \in 1..Len(u) : u[j] = w[j]

\* Sequences given by a function.
LEMMA FunctionSeq ==
  ASSUME NEW S, NEW n \in Nat, NEW f \in [1..n -> S]
  PROVE  f \in Seq(S) /\ Len(f) = n
OBVIOUS

\* A part of a sequence.
LEMMA PieceShape ==
  ASSUME NEW S, NEW s \in Seq(S), NEW i \in Nat, NEW n \in Nat, i + n <= Len(s)
  PROVE  /\ Piece(s, i, n) \in Seq(S) /\ Len(Piece(s, i, n)) = n
         /\ \A j \in 1..n : Piece(s, i, n)[j] = s[i + j]
<1>1. \A j \in (i + 1)..(i + n) : s[j] \in S
  BY ElementOfSeq, LenProperties
<1>2. i + 1 \in Int /\ i + n \in Int /\ (i + n) - (i + 1) + 1 = n
  OBVIOUS
<1>3. /\ SubSeq(s, i + 1, i + n) \in Seq(S)
      /\ Len(SubSeq(s, i + 1, i + n)) = IF i + 1 <= i + n THEN (i + n) - (i + 1) + 1 ELSE 0
      /\ \A j \in 1..((i + n) - (i + 1) + 1) :
           SubSeq(s, i + 1, i + n)[j] = s[(i + 1) + j - 1]
  BY <1>1, <1>2, SubSeqProperties
<1>4. \A j \in 1..n : (i + 1) + j - 1 = i + j
  OBVIOUS
<1> QED
  BY <1>2, <1>3, <1>4 DEF Piece

\* Concatenation.
LEMMA ConcatShape ==
  ASSUME NEW S, NEW s \in Seq(S), NEW t \in Seq(S),
         NEW m, NEW n, Len(s) = m, Len(t) = n
  PROVE  /\ s \o t \in Seq(S) /\ Len(s \o t) = m + n
         /\ \A j \in 1..(m + n) : (s \o t)[j] = IF j <= m THEN s[j] ELSE t[j - m]
BY ConcatProperties

\* The beginning of a sequence.
LEMMA BeginningShape ==
  ASSUME NEW S, NEW t \in Seq(S), NEW m \in Nat, m <= Len(t)
  PROVE  /\ Piece(t, 0, m) \in Seq(S) /\ Len(Piece(t, 0, m)) = m
         /\ \A j \in 1..m : Piece(t, 0, m)[j] = t[j]
<1>1. 0 \in Nat /\ 0 + m = m /\ \A j \in 1..m : 0 + j = j
  OBVIOUS
<1>2. /\ Piece(t, 0, m) \in Seq(S) /\ Len(Piece(t, 0, m)) = m
      /\ \A j \in 1..m : Piece(t, 0, m)[j] = t[0 + j]
  BY <1>1, PieceShape
<1> QED
  BY <1>1, <1>2

\* A concatenation, and one of which only the beginning of the second part is
\* there.
LEMMA PartOfConcat ==
  ASSUME NEW S, NEW s \in Seq(S), NEW t \in Seq(S), NEW m \in 0..Len(t)
  PROVE  /\ s \o Piece(t, 0, m) \in Seq(S)
         /\ Len(s \o Piece(t, 0, m)) = Len(s) + m
         /\ Begins(s \o Piece(t, 0, m), s \o t)
<1> DEFINE q == Piece(t, 0, m)
<1>1. Len(s) \in Nat /\ Len(t) \in Nat /\ m \in Nat /\ m <= Len(t)
  BY LenProperties
<1>2. q \in Seq(S) /\ Len(q) = m /\ \A j \in 1..m : q[j] = t[j]
  BY <1>1, BeginningShape
<1> HIDE DEF q
<1>3. /\ s \o q \in Seq(S) /\ Len(s \o q) = Len(s) + m
      /\ \A j \in 1..(Len(s) + m) : (s \o q)[j] = IF j <= Len(s) THEN s[j] ELSE q[j - Len(s)]
  BY <1>2, ConcatShape
<1>4. /\ Len(s \o t) = Len(s) + Len(t)
      /\ \A j \in 1..(Len(s) + Len(t)) : (s \o t)[j] = IF j <= Len(s) THEN s[j] ELSE t[j - Len(s)]
  BY ConcatProperties
<1>5. \A j \in 1..(Len(s) + m) : (s \o q)[j] = (s \o t)[j]
  BY <1>1, <1>2, <1>3, <1>4
<1> QED
  BY <1>1, <1>3, <1>4, <1>5 DEF Begins, q

\* The cells of a header, of encrypted bytes and of an authenticator.
LEMMA HeaderShape ==
  /\ Header \in Seq(BodyCells) /\ Len(Header) = HeaderLen
  /\ \A i \in 1..HeaderLen : Header[i] = <<"h", i>>
<1>1. HeaderLen \in Nat /\ Header \in [1..HeaderLen -> BodyCells]
  BY SizeAssumption DEF Header, BodyCells
<1> QED
  BY <1>1, FunctionSeq DEF Header

LEMMA EncryptedShape ==
  ASSUME NEW t \in Seq(Bytes), NEW p \in Nat
  PROVE  /\ Encrypted(t, p) \in Seq(BodyCells) /\ Len(Encrypted(t, p)) = Len(t)
         /\ \A i \in 1..Len(t) : Encrypted(t, p)[i] = <<"c", t[i], p + i>>
<1>1. Len(t) \in Nat /\ \A i \in 1..Len(t) : t[i] \in Bytes
  BY LenProperties, ElementOfSeq
<1>2. Encrypted(t, p) \in [1..Len(t) -> BodyCells]
  BY <1>1 DEF Encrypted, BodyCells
<1> QED
  BY <1>1, <1>2, FunctionSeq DEF Encrypted

LEMMA HmacShape ==
  ASSUME NEW s \in Seq(BodyCells)
  PROVE  /\ Hmac(s) \in Seq(Cells) /\ Len(Hmac(s)) = TagLen
         /\ \A i \in 1..TagLen : Hmac(s)[i] = <<"m", s, i>>
<1>1. TagLen \in Nat /\ Hmac(s) \in [1..TagLen -> Cells]
  BY SizeAssumption DEF Hmac, Cells
<1> QED
  BY <1>1, FunctionSeq DEF Hmac

LEMMA BodyShape ==
  ASSUME NEW t \in Seq(Bytes)
  PROVE  /\ Body(t) \in Seq(BodyCells) /\ Body(t) \in Seq(Cells)
         /\ Len(Body(t)) = HeaderLen + Len(t)
         /\ \A i \in 1..HeaderLen : Body(t)[i] = <<"h", i>>
         /\ \A i \in 1..Len(t) : Body(t)[HeaderLen + i] = <<"c", t[i], i>>
<1>1. Len(t) \in Nat /\ HeaderLen \in Nat
  BY LenProperties, SizeAssumption
<1>2. \A i \in 1..Len(t) : Encrypted(t, 0)[i] = <<"c", t[i], i>>
  BY <1>1, EncryptedShape
<1>3. Body(t) \in Seq(BodyCells) /\ Len(Body(t)) = HeaderLen + Len(t)
      /\ \A i \in 1..(HeaderLen + Len(t)) :
           Body(t)[i] = IF i <= HeaderLen THEN Header[i] ELSE Encrypted(t, 0)[i - HeaderLen]
  <2>1. Encrypted(t, 0) \in Seq(BodyCells) /\ Len(Encrypted(t, 0)) = Len(t)
    BY EncryptedShape
  <2> QED
    BY <2>1, HeaderShape, ConcatShape DEF Body
<1>4. Body(t) \in Seq(Cells)
  BY <1>3, SeqMonotonic DEF Cells
<1>5. \A i \in 1..HeaderLen : Body(t)[i] = <<"h", i>>
  BY <1>1, <1>3, HeaderShape
<1>6. \A i \in 1..Len(t) : HeaderLen + i \in 1..(HeaderLen + Len(t)) /\ ~(HeaderLen + i <= HeaderLen)
                           /\ (HeaderLen + i) - HeaderLen = i
  BY <1>1
<1>7. \A i \in 1..Len(t) : Body(t)[HeaderLen + i] = <<"c", t[i], i>>
  BY <1>2, <1>3, <1>6
<1> QED
  BY <1>3, <1>4, <1>5, <1>7

\* A whole output: its body, then its authenticator.
LEMMA SealedShape ==
  ASSUME NEW t \in Seq(Bytes)
  PROVE  /\ Sealed(t) = Body(t) \o Hmac(Body(t))
         /\ Sealed(t) \in Seq(Cells) /\ Len(Sealed(t)) = HeaderLen + Len(t) + TagLen
         /\ \A i \in 1..(HeaderLen + Len(t)) : Sealed(t)[i] = Body(t)[i]
         /\ \A i \in 1..TagLen : Sealed(t)[HeaderLen + Len(t) + i] = <<"m", Body(t), i>>
<1>1. Len(t) \in Nat /\ HeaderLen \in Nat /\ TagLen \in Nat
  BY LenProperties, SizeAssumption
<1>2. Sealed(t) = Body(t) \o Hmac(Body(t))
  BY DEF Sealed, Body
<1> DEFINE n == HeaderLen + Len(t)
<1>3. Body(t) \in Seq(BodyCells) /\ Body(t) \in Seq(Cells) /\ Len(Body(t)) = n
  BY BodyShape
<1>4. /\ Hmac(Body(t)) \in Seq(Cells) /\ Len(Hmac(Body(t))) = TagLen
      /\ \A i \in 1..TagLen : Hmac(Body(t))[i] = <<"m", Body(t), i>>
  BY <1>3, HmacShape
<1>5. /\ Sealed(t) \in Seq(Cells) /\ Len(Sealed(t)) = n + TagLen
      /\ \A i \in 1..(n + TagLen) :
           Sealed(t)[i] = IF i <= n THEN Body(t)[i] ELSE Hmac(Body(t))[i - n]
  BY <1>2, <1>3, <1>4, ConcatShape
<1>6. n \in Nat
  BY <1>1
<1> HIDE DEF n
<1>7. \A i \in 1..TagLen : n + i \in 1..(n + TagLen) /\ ~(n + i <= n) /\ (n + i) - n = i
  BY <1>1, <1>6
<1>8. \A i \in 1..TagLen : Sealed(t)[n + i] = <<"m", Body(t), i>>
  BY <1>4, <1>5, <1>7
<1>9. \A i \in 1..n : Sealed(t)[i] = Body(t)[i]
  BY <1>1, <1>5, <1>6
<1> QED
  BY <1>2, <1>5, <1>8, <1>9 DEF n

\* Encrypting one more block appends its encryption.
LEMMA BodyGrows ==
  ASSUME NEW t \in Seq(Bytes), NEW x \in Seq(Bytes)
  PROVE  /\ t \o x \in Seq(Bytes) /\ Len(t \o x) = Len(t) + Len(x)
         /\ Body(t \o x) = Body(t) \o Encrypted(x, Len(t))
<1> DEFINE y == t \o x
<1> DEFINE z == Body(t) \o Encrypted(x, Len(t))
<1> DEFINE n == HeaderLen + Len(t)
<1>1. Len(t) \in Nat /\ Len(x) \in Nat /\ HeaderLen \in Nat /\ n \in Nat
  BY LenProperties, SizeAssumption
<1>2. /\ y \in Seq(Bytes) /\ Len(y) = Len(t) + Len(x)
      /\ \A i \in 1..(Len(t) + Len(x)) : y[i] = IF i <= Len(t) THEN t[i] ELSE x[i - Len(t)]
  BY ConcatProperties
<1>3. /\ Body(y) \in Seq(BodyCells) /\ Len(Body(y)) = HeaderLen + Len(y)
      /\ \A i \in 1..HeaderLen : Body(y)[i] = <<"h", i>>
      /\ \A i \in 1..Len(y) : Body(y)[HeaderLen + i] = <<"c", y[i], i>>
  BY <1>2, BodyShape
<1>4. /\ Body(t) \in Seq(BodyCells) /\ Len(Body(t)) = n
      /\ \A i \in 1..HeaderLen : Body(t)[i] = <<"h", i>>
      /\ \A i \in 1..Len(t) : Body(t)[HeaderLen + i] = <<"c", t[i], i>>
  BY BodyShape
<1>5. /\ Encrypted(x, Len(t)) \in Seq(BodyCells) /\ Len(Encrypted(x, Len(t))) = Len(x)
      /\ \A i \in 1..Len(x) : Encrypted(x, Len(t))[i] = <<"c", x[i], Len(t) + i>>
  BY <1>1, EncryptedShape
<1>6. /\ z \in Seq(BodyCells) /\ Len(z) = n + Len(x)
      /\ \A i \in 1..(n + Len(x)) :
           z[i] = IF i <= n THEN Body(t)[i] ELSE Encrypted(x, Len(t))[i - n]
  BY <1>4, <1>5, ConcatShape
<1> HIDE DEF y, z
<1>7. Len(Body(y)) = Len(z)
  BY <1>1, <1>2, <1>3, <1>6
<1>8. ASSUME NEW i \in 1..Len(z) PROVE Body(y)[i] = z[i]
  <2>1. CASE i <= HeaderLen
    <3>1. i \in 1..HeaderLen /\ i <= n /\ i \in 1..(n + Len(x))
      BY <2>1, <1>1, <1>6
    <3> QED
      BY <3>1, <1>3, <1>4, <1>6
  <2>2. CASE i > HeaderLen /\ i <= n
    <3>1. i - HeaderLen \in 1..Len(t) /\ i - HeaderLen \in 1..Len(y) /\ HeaderLen + (i - HeaderLen) = i
      BY <2>2, <1>1, <1>2
    <3>2. y[i - HeaderLen] = t[i - HeaderLen]
      BY <3>1, <1>1, <1>2
    <3> QED
      BY <2>2, <3>1, <3>2, <1>1, <1>3, <1>4, <1>6
  <2>3. CASE i > n
    <3>1. /\ i - HeaderLen \in 1..Len(y) /\ HeaderLen + (i - HeaderLen) = i
          /\ i - n \in 1..Len(x) /\ (i - HeaderLen) - Len(t) = i - n
          /\ Len(t) + (i - n) = i - HeaderLen /\ ~(i - HeaderLen <= Len(t))
      BY <2>3, <1>1, <1>2, <1>6
    <3>2. y[i - HeaderLen] = x[i - n]
      BY <3>1, <1>1, <1>2
    <3>3. Body(y)[i] = <<"c", x[i - n], i - HeaderLen>>
      BY <3>1, <3>2, <1>3
    <3>4. z[i] = Encrypted(x, Len(t))[i - n]
      BY <2>3, <1>1, <1>6
    <3> QED
      BY <3>1, <3>3, <3>4, <1>5
  <2> QED
    BY <2>1, <2>2, <2>3, <1>1, <1>6
<1>9. Body(y) = z
  BY <1>3, <1>6, <1>7, <1>8, SeqEqual
<1> QED
  BY <1>2, <1>9 DEF y, z

\* fread of content stays within it, and gives nothing without an error only at
\* its end.
LEMMA FreadShape ==
  ASSUME NEW s \in Seq(Bytes), NEW p \in Nat, NEW n \in Nat, NEW fails \in BOOLEAN,
         Fread(s, p, EncBlock, n, fails)
  PROVE  /\ n = 0 \/ p + n <= Len(s)
         /\ n = 0 /\ ~fails => p >= Len(s)
         /\ Piece(s, p, n) \in Seq(Bytes) /\ Len(Piece(s, p, n)) = n
<1>1. Len(s) \in Nat /\ EncBlock \in Nat /\ EncBlock >= 1
  BY LenProperties, SizeAssumption
<1>2. n = 0 \/ p + n <= Len(s)
  BY <1>1 DEF Fread, Smaller
<1>3. n = 0 /\ ~fails => p >= Len(s)
  BY <1>1 DEF Fread, Smaller
<1>4. Piece(s, p, n) \in Seq(Bytes) /\ Len(Piece(s, p, n)) = n
  <2>1. CASE n = 0
    BY <2>1, SubSeqEmpty, EmptySeq DEF Piece
  <2>2. CASE p + n <= Len(s)
    BY <2>2, PieceShape
  <2> QED
    BY <1>2, <2>1, <2>2
<1> QED
  BY <1>2, <1>3, <1>4

-----------------------------------------------------------------------------
\* What each place has produced ...
Produced ==
  /\ pc \in {"setup", "header", "whole"} => taken = <<>>
  /\ pc \in {"setup", "header"} => out = <<>>
  /\ pc = "header" => hashed = Header
  /\ pc = "whole" => out = Header
  /\ pc \in {"encrypt", "tag"} => out = Body(taken) /\ hashed = out
  /\ pc = "idle" /\ rc = "OK" => out = Sealed(taken)

\* ... which is a beginning of a whole output, and the whole only after a success.
Partial ==
  /\ out \in Seq(Cells) /\ Begins(out, Sealed(taken))
  /\ Len(out) = Len(Sealed(taken)) => pc = "idle" /\ rc = "OK"

\* What was read of an input that nobody changed, and the error indicator.
Reading ==
  /\ pc \in {"setup", "header"} => pos = 0
  /\ pc \in {"setup", "header", "whole"} => ~rdError
  /\ pc = "encrypt" /\ clean => pos <= Len(content) /\ taken = Piece(content, 0, pos)
  /\ pc = "tag" \/ (pc = "idle" /\ rc = "OK") => (clean => taken = content)

\* Only a call that returned has an output to decrypt.
Decrypting == pc # "idle" => dec = NoDec

IInv == /\ TypeOK /\ Produced /\ Partial /\ Reading /\ Decrypting
        /\ DecryptsToInput /\ KeysZeroed /\ ReadErrorFails

\* Nothing, a header and a body are less than a whole output.
LEMMA BodyIsPartial ==
  ASSUME NEW t \in Seq(Bytes), NEW u, u \in {<<>>, Header, Body(t)}
  PROVE  u \in Seq(Cells) /\ Begins(u, Sealed(t)) /\ Len(u) # Len(Sealed(t))
<1>1. Len(t) \in Nat /\ HeaderLen \in Nat /\ TagLen \in Nat /\ TagLen >= 1
  BY LenProperties, SizeAssumption
<1>2. /\ Len(Sealed(t)) = HeaderLen + Len(t) + TagLen
      /\ \A i \in 1..(HeaderLen + Len(t)) : Sealed(t)[i] = Body(t)[i]
  BY SealedShape
<1>3. CASE u = <<>>
  BY <1>1, <1>2, <1>3, EmptySeq DEF Begins
<1>4. CASE u = Header
  <2>1. Header \in Seq(Cells)
    BY HeaderShape, SeqMonotonic DEF Cells
  <2>2. \A i \in 1..HeaderLen : Sealed(t)[i] = Header[i]
    <3>1. \A i \in 1..HeaderLen : i \in 1..(HeaderLen + Len(t)) /\ Body(t)[i] = <<"h", i>>
      BY <1>1, BodyShape
    <3> QED
      BY <3>1, <1>2, HeaderShape
  <2> QED
    BY <1>1, <1>2, <1>4, <2>1, <2>2, HeaderShape DEF Begins
<1>5. CASE u = Body(t)
  BY <1>1, <1>2, <1>5, BodyShape DEF Begins
<1> QED
  BY <1>3, <1>4, <1>5

\* The body of nothing is the header.
LEMMA EmptyBody == <<>> \in Seq(Bytes) /\ Body(<<>>) = Header
<1>1. <<>> \in Seq(Bytes) /\ Len(<<>>) = 0
  BY EmptySeq
<1>2. /\ Body(<<>>) \in Seq(BodyCells) /\ Len(Body(<<>>)) = HeaderLen + 0
      /\ \A i \in 1..HeaderLen : Body(<<>>)[i] = <<"h", i>>
  BY <1>1, BodyShape
<1>3. HeaderLen + 0 = HeaderLen
  BY SizeAssumption
<1> QED
  BY <1>1, <1>2, <1>3, HeaderShape, SeqEqual, SMTT(30)

-----------------------------------------------------------------------------
\* The only acceptable buffer is a whole output: a shorter one ends with no
\* authenticator of what is before it, and one that was altered, in its body,
\* its authenticator or its length, is not what the authenticator is of.
LEMMA OnlyWhole ==
  ASSUME NEW t \in Seq(Bytes), out \in Seq(Cells), Begins(out, Sealed(t)),
         NEW b \in Buffers, NEW right, DecFault(b, right) = "OK"
  PROVE  b = out /\ out = Sealed(t)
<1> DEFINE n == HeaderLen + Len(t)
<1> DEFINE body == Len(b) - TagLen
<1> DEFINE d == Piece(b, 0, body)
<1>1. /\ Len(t) \in Nat /\ HeaderLen \in Nat /\ TagLen \in Nat /\ TagLen >= 1 /\ n \in Nat
      /\ Len(out) \in Nat
  BY LenProperties, SizeAssumption
<1>2. /\ Len(Sealed(t)) = n + TagLen /\ Sealed(t) \in Seq(Cells)
      /\ \A i \in 1..n : Sealed(t)[i] = Body(t)[i]
      /\ \A i \in 1..TagLen : Sealed(t)[n + i] = <<"m", Body(t), i>>
  BY SealedShape
<1>3. Len(out) <= n + TagLen /\ \A j \in 1..Len(out) : out[j] = Sealed(t)[j]
  BY <1>2 DEF Begins
<1>4. /\ \A i \in 1..HeaderLen : Body(t)[i] = <<"h", i>>
      /\ \A i \in 1..Len(t) : Body(t)[HeaderLen + i] = <<"c", t[i], i>>
  BY BodyShape
<1>5. ~(body < HeaderLen) /\ Piece(b, body, TagLen) = Hmac(d)
  BY DEF DecFault
<1> DEFINE X == Cells \cup {<<"x", Forged>>}
<1>6. out \in Seq(X)
  BY SeqMonotonic
\* What the three kinds of buffers have in common.
<1>7. /\ b \in Seq(X)
      /\ \E k \in Nat : \/ k = 0 /\ Len(b) <= Len(out) /\ \A j \in 1..Len(b) : b[j] = out[j]
                        \/ k \in 1..Len(b) /\ b[k] = <<"x", Forged>> /\ Len(b) <= Len(out) + 1
                           /\ (k <= Len(out) => Len(b) = Len(out))
                           /\ \A j \in 1..Len(b) : j # k => j <= Len(out) /\ b[j] = out[j]
  <2>1. ASSUME NEW m \in 0..Len(out), b = Piece(out, 0, m)
        PROVE  b \in Seq(X) /\ Len(b) <= Len(out) /\ \A j \in 1..Len(b) : b[j] = out[j]
    <3>1. m \in Nat /\ m <= Len(out)
      BY <1>6, LenProperties
    <3>2. /\ Piece(out, 0, m) \in Seq(X) /\ Len(Piece(out, 0, m)) = m
          /\ \A j \in 1..m : Piece(out, 0, m)[j] = out[j]
      BY <3>1, <1>6, BeginningShape, Zenon
    <3> QED
      BY <2>1, <3>1, <3>2
  <2>2. ASSUME b = Append(out, <<"x", Forged>>)
        PROVE  /\ b \in Seq(X) /\ Len(b) = Len(out) + 1 /\ b[Len(out) + 1] = <<"x", Forged>>
               /\ \A j \in 1..Len(out) : b[j] = out[j]
    <3>1. <<"x", Forged>> \in X
      OBVIOUS
    <3> QED
      BY <2>2, <3>1, <1>6, AppendProperties
  <2>3. ASSUME NEW k \in 1..Len(out), b = [out EXCEPT ![k] = <<"x", Forged>>]
        PROVE  /\ b \in Seq(X) /\ Len(b) = Len(out) /\ b[k] = <<"x", Forged>>
               /\ \A j \in 1..Len(out) : j # k => b[j] = out[j]
    <3>1. <<"x", Forged>> \in X
      OBVIOUS
    <3> HIDE DEF X
    <3> QED
      BY <2>3, <3>1, <1>6, ExceptSeq
  <2> HIDE DEF X
  <2>4. CASE \E m \in 0..Len(out) : b = Piece(out, 0, m)
    BY <2>1, <2>4
  <2>5. CASE b = Append(out, <<"x", Forged>>)
    <3>1. Len(out) + 1 \in Nat /\ Len(out) + 1 \in 1..Len(b) /\ ~(Len(out) + 1 <= Len(out))
          /\ Len(b) <= Len(out) + 1
      BY <2>2, <2>5, <1>1
    <3>2. \A j \in 1..Len(b) : j # Len(out) + 1 => j <= Len(out) /\ b[j] = out[j]
      BY <2>2, <2>5, <1>1
    <3> QED
      BY <2>2, <2>5, <3>1, <3>2
  <2>6. CASE \E k \in 1..Len(out) : b = [out EXCEPT ![k] = <<"x", Forged>>]
    <3>1. PICK k \in 1..Len(out) : b = [out EXCEPT ![k] = <<"x", Forged>>]
      BY <2>6
    <3>2. /\ b \in Seq(X) /\ Len(b) = Len(out) /\ b[k] = <<"x", Forged>>
          /\ \A j \in 1..Len(out) : j # k => b[j] = out[j]
      BY <3>1, <2>3
    <3>3. k \in Nat /\ k \in 1..Len(b) /\ Len(b) <= Len(out) + 1
          /\ \A j \in 1..Len(b) : j # k => j <= Len(out) /\ b[j] = out[j]
      BY <3>2, <1>1
    <3> QED
      BY <3>2, <3>3
  <2> QED
    BY <2>4, <2>5, <2>6 DEF Buffers
<1> HIDE DEF X
<1>8. PICK k \in Nat :
         \/ k = 0 /\ Len(b) <= Len(out) /\ \A j \in 1..Len(b) : b[j] = out[j]
         \/ k \in 1..Len(b) /\ b[k] = <<"x", Forged>> /\ Len(b) <= Len(out) + 1
            /\ (k <= Len(out) => Len(b) = Len(out))
            /\ \A j \in 1..Len(b) : j # k => j <= Len(out) /\ b[j] = out[j]
  BY <1>7
<1>9. Len(b) \in Nat /\ body \in Nat /\ body + TagLen = Len(b) /\ Len(b) >= 1
  BY <1>1, <1>5, <1>7, LenProperties
<1> HIDE DEF body
<1>10. Len(d) = body /\ \A j \in 1..body : d[j] = b[j]
  <2>1. b \in Seq(X) /\ body <= Len(b)
    BY <1>1, <1>7, <1>9
  <2> QED
    BY <2>1, <1>9, BeginningShape
<1> HIDE DEF d
<1>11. \A i \in 1..TagLen : b[body + i] = <<"m", d, i>>
  <2>1. \A i \in 1..TagLen : Piece(b, body, TagLen)[i] = b[body + i]
    <3>1. b \in Seq(X) /\ body + TagLen <= Len(b) /\ TagLen \in Nat /\ body \in Nat
      BY <1>1, <1>7, <1>9
    <3> QED
      BY <3>1, PieceShape
  <2> QED
    BY <2>1, <1>5 DEF Hmac
\* The last cell is the last one of the authenticator of t.
<1>12. /\ Len(b) \in 1..Len(out) /\ Len(b) # k
       /\ Sealed(t)[Len(b)] = <<"m", d, TagLen>>
  <2>1. b[Len(b)] = <<"m", d, TagLen>>
    <3>1. TagLen \in 1..TagLen
      BY <1>1
    <3>2. b[body + TagLen] = <<"m", d, TagLen>>
      BY <3>1, <1>11
    <3> QED
      BY <3>2, <1>9
  <2>2. <<"m", d, TagLen>> # <<"x", Forged>>
    OBVIOUS
  <2>3. Len(b) # k
    BY <2>1, <2>2, <1>8, <1>9
  <2>4. Len(b) <= Len(out) /\ b[Len(b)] = out[Len(b)]
    BY <2>3, <1>1, <1>8, <1>9
  <2> QED
    BY <2>1, <2>3, <2>4, <1>1, <1>3, <1>9
<1>13. Len(b) > n
  <2> SUFFICES ASSUME Len(b) <= n PROVE FALSE
    BY <1>1, <1>9
  <2>1. Body(t)[Len(b)] = <<"m", d, TagLen>>
    BY <1>1, <1>2, <1>9, <1>12
  <2>2. CASE Len(b) <= HeaderLen
    BY <2>1, <2>2, <1>1, <1>4, <1>9
  <2>3. CASE Len(b) > HeaderLen
    <3>1. Len(b) - HeaderLen \in 1..Len(t) /\ HeaderLen + (Len(b) - HeaderLen) = Len(b)
      BY <2>3, <1>1, <1>9
    <3>2. Body(t)[Len(b)] = <<"c", t[Len(b) - HeaderLen], Len(b) - HeaderLen>>
      BY <3>1, <1>4
    <3> QED
      BY <3>2, <2>1
  <2> QED
    BY <2>2, <2>3, <1>1, <1>9
<1> HIDE DEF n
<1>14. Len(b) = n + TagLen /\ d = Body(t)
  <2> DEFINE i == Len(b) - n
  <2>1. i \in 1..TagLen /\ n + i = Len(b)
    BY <1>1, <1>3, <1>9, <1>12, <1>13
  <2>2. Sealed(t)[Len(b)] = <<"m", Body(t), i>>
    BY <2>1, <1>2
  <2>3. i = TagLen /\ d = Body(t)
    BY <2>2, <1>12
  <2> QED
    BY <2>1, <2>3
<1>15. Len(out) = n + TagLen /\ Len(b) = Len(out)
  BY <1>1, <1>3, <1>9, <1>12, <1>14
<1>16. \A j \in 1..Len(b) : b[j] # <<"x", Forged>>
  <2> SUFFICES ASSUME NEW j \in 1..Len(b) PROVE b[j] # <<"x", Forged>>
    OBVIOUS
  <2>1. CASE j <= body
    <3>1. b[j] = Body(t)[j] /\ j \in 1..(HeaderLen + Len(t))
      BY <2>1, <1>1, <1>9, <1>10, <1>14 DEF n
    <3>2. CASE j <= HeaderLen
      BY <3>1, <3>2, <1>1, <1>4
    <3>3. CASE j > HeaderLen
      <4>1. j - HeaderLen \in 1..Len(t) /\ HeaderLen + (j - HeaderLen) = j
        BY <3>1, <3>3, <1>1
      <4>2. b[j] = <<"c", t[j - HeaderLen], j - HeaderLen>>
        BY <3>1, <4>1, <1>4
      <4> QED
        BY <4>2
    <3> QED
      BY <3>2, <3>3, <1>1
  <2>2. CASE j > body
    <3>1. j - body \in 1..TagLen /\ body + (j - body) = j
      BY <2>2, <1>1, <1>9
    <3>2. b[j] = <<"m", d, j - body>>
      BY <3>1, <1>11
    <3> QED
      BY <3>2
  <2> QED
    BY <2>1, <2>2, <1>9
<1>17. \A j \in 1..Len(b) : b[j] = out[j]
  BY <1>8, <1>16
<1>18. b = out
  BY <1>6, <1>7, <1>15, <1>17, SeqEqual
<1>19. out = Sealed(t)
  BY <1>2, <1>3, <1>15, SeqEqual
<1> QED
  BY <1>18, <1>19

\* Decrypting a whole output gives what was encrypted.
LEMMA DecryptsWhole ==
  ASSUME NEW t \in Seq(Bytes)
  PROVE  LET size == Len(Sealed(t)) - (HeaderLen + TagLen)
         IN  size = Len(t) /\ Decrypted(Piece(Sealed(t), HeaderLen, size)) = t
<1> DEFINE size == Len(Sealed(t)) - (HeaderLen + TagLen)
<1> DEFINE cipher == Piece(Sealed(t), HeaderLen, Len(t))
<1>1. Len(t) \in Nat /\ HeaderLen \in Nat /\ TagLen \in Nat /\ t \in [1..Len(t) -> Bytes]
  BY LenProperties, SizeAssumption
<1>2. /\ Sealed(t) \in Seq(Cells) /\ Len(Sealed(t)) = HeaderLen + Len(t) + TagLen
      /\ \A i \in 1..(HeaderLen + Len(t)) : Sealed(t)[i] = Body(t)[i]
  BY SealedShape
<1>3. size = Len(t) /\ HeaderLen + Len(t) <= Len(Sealed(t))
  BY <1>1, <1>2
<1>4. Len(cipher) = Len(t) /\ \A i \in 1..Len(t) : cipher[i] = Sealed(t)[HeaderLen + i]
  <2>1. /\ Sealed(t) \in Seq(Cells) /\ HeaderLen \in Nat /\ Len(t) \in Nat
        /\ HeaderLen + Len(t) <= Len(Sealed(t))
    BY <1>1, <1>2, <1>3
  <2> QED
    BY <2>1, PieceShape, Zenon
<1>5. \A i \in 1..Len(t) : Sealed(t)[HeaderLen + i] = <<"c", t[i], i>>
  <2>1. \A i \in 1..Len(t) : HeaderLen + i \in 1..(HeaderLen + Len(t))
    BY <1>1
  <2> QED
    BY <2>1, <1>2, BodyShape
<1> HIDE DEF cipher
<1>6. \A i \in 1..Len(t) : cipher[i][1] = "c" /\ cipher[i][2] = t[i] /\ cipher[i][3] = i
  BY <1>4, <1>5
<1>7. Decrypted(cipher) = [i \in 1..Len(t) |-> t[i]]
  BY <1>4, <1>6 DEF Decrypted
<1>8. [i \in 1..Len(t) |-> t[i]] = t
  BY <1>1
<1> QED
  BY <1>3, <1>7, <1>8 DEF cipher

-----------------------------------------------------------------------------
\* The invariant holds before the first call.
LEMMA InitInvariant == Init => IInv
<1> SUFFICES ASSUME Init PROVE IInv
  OBVIOUS
<1>1. TypeOK
  BY EmptyBody DEF Init, TypeOK, Codes
<1>2. Produced /\ Reading /\ Decrypting
  BY DEF Init, Produced, Reading, Decrypting
<1>3. Partial
  BY EmptyBody, BodyIsPartial DEF Init, Partial
<1>4. DecryptsToInput /\ KeysZeroed /\ ReadErrorFails
  BY DEF Init, DecryptsToInput, KeysZeroed, ReadErrorFails
<1> QED
  BY <1>1, <1>2, <1>3, <1>4 DEF IInv

\* A new call starts from nothing.
LEMMA CallPreserves == IInv /\ Call => IInv'
<1> SUFFICES ASSUME IInv, Call PROVE IInv'
  OBVIOUS
<1>1. TypeOK'
  BY EmptyBody DEF IInv, TypeOK, Call
<1>2. Produced' /\ Reading' /\ Decrypting'
  BY DEF Call, Produced, Reading, Decrypting
<1>3. Partial'
  <2>1. out' = <<>> /\ taken' = <<>> /\ pc' = "setup"
    BY DEF Call
  <2>2. <<>> \in Seq(Cells) /\ Begins(<<>>, Sealed(<<>>)) /\ Len(<<>>) # Len(Sealed(<<>>))
    BY EmptyBody, BodyIsPartial
  <2> QED
    BY <2>1, <2>2 DEF Partial, Begins, Sealed, Header, Encrypted, Hmac
<1>4. DecryptsToInput' /\ KeysZeroed' /\ ReadErrorFails'
  BY DEF Call, DecryptsToInput, KeysZeroed, ReadErrorFails
<1> QED
  BY <1>1, <1>2, <1>3, <1>4 DEF IInv

\* An output that is not whole when a call returns is the result of an error.
LEMMA ReturnsPartial ==
  ASSUME TypeOK, Decrypting, pc # "idle",
         NEW code \in Codes \ {"OK"}, Return(code),
         taken' \in Seq(Bytes), NEW u, out' = u, u \in Seq(Cells),
         Begins(u, Sealed(taken')), Len(u) # Len(Sealed(taken')),
         UNCHANGED <<op, content, clean, dec>>, pos' \in Nat, rdError' \in BOOLEAN
  PROVE  IInv'
<1>1. TypeOK'
  BY DEF TypeOK, Return
<1>2. Produced' /\ Reading' /\ Decrypting'
  BY DEF Return, Produced, Reading, Decrypting
<1>3. Partial'
  BY DEF Return, Partial, Begins, Sealed, Header, Encrypted, Hmac
<1>4. DecryptsToInput' /\ KeysZeroed' /\ ReadErrorFails'
  BY DEF Decrypting, Return, DecryptsToInput, KeysZeroed, ReadErrorFails
<1> QED
  BY <1>1, <1>2, <1>3, <1>4 DEF IInv

\* The setup preserves the invariant.
LEMMA SetupPreserves == IInv /\ Setup => IInv'
<1> SUFFICES ASSUME IInv, Setup PROVE IInv'
  OBVIOUS
<1>1. taken = <<>> /\ out = <<>> /\ pc = "setup" /\ ~rdError /\ pos = 0
  BY DEF IInv, Produced, Reading, Setup
<1>2. ASSUME NEW e \in SetupResults \ {"OK"}, Return(e), UNCHANGED out PROVE IInv'
  <2>1. e \in Codes \ {"OK"}
    BY <1>2 DEF SetupResults, CheckResults, PickResults, Suppressed, Codes
  <2>2. <<>> \in Seq(Cells) /\ Begins(<<>>, Sealed(<<>>)) /\ Len(<<>>) # Len(Sealed(<<>>))
    BY EmptyBody, BodyIsPartial
  <2>3. out' = <<>> /\ taken' = <<>> /\ UNCHANGED <<op, content, pos, rdError, clean, dec>>
    BY <1>1, <1>2 DEF Setup, invars
  <2>4. pos' \in Nat /\ rdError' \in BOOLEAN
    BY <2>3 DEF IInv, TypeOK
  <2> QED
    BY <1>1, <1>2, <2>1, <2>2, <2>3, <2>4, EmptyBody, ReturnsPartial DEF IInv
<1>3. ASSUME dk' = "key", hashed' = Header, out' = IF op = "buf" THEN Header ELSE <<>>,
             pc' = IF op = "buf" THEN "whole" ELSE "header", UNCHANGED rc
      PROVE  IInv'
  <2>1. taken' = <<>> /\ UNCHANGED <<op, content, pos, rdError, clean, dec>>
    BY <1>1 DEF Setup, invars
  <2>2. TypeOK'
    BY <1>3, <2>1, EmptyBody DEF IInv, TypeOK
  <2>3. Produced' /\ Reading' /\ Decrypting'
    BY <1>1, <1>3, <2>1 DEF IInv, TypeOK, Produced, Reading, Decrypting
  <2>4. Partial'
    <3>1. \A u \in {<<>>, Header} : u \in Seq(Cells) /\ Begins(u, Sealed(<<>>)) /\ Len(u) # Len(Sealed(<<>>))
      BY EmptyBody, BodyIsPartial
    <3>2. out' \in {<<>>, Header}
      BY <1>3
    <3> QED
      BY <3>1, <3>2, <2>1 DEF Partial, Begins, Sealed, Header, Encrypted, Hmac
  <2>5. DecryptsToInput' /\ KeysZeroed' /\ ReadErrorFails'
    BY <1>1, <1>3, <2>1 DEF IInv, Decrypting, DecryptsToInput, KeysZeroed, ReadErrorFails
  <2> QED
    BY <2>2, <2>3, <2>4, <2>5 DEF IInv
<1> QED
  BY <1>2, <1>3 DEF Setup

\* A part of a beginning, and of what is appended to one.
LEMMA CutIsPartial ==
  ASSUME NEW t \in Seq(Bytes), NEW s \in Seq(Cells), NEW x \in Seq(Cells), Begins(s \o x, Sealed(t)),
         NEW m \in Nat, m < Len(x)
  PROVE  /\ s \o Piece(x, 0, m) \in Seq(Cells) /\ Begins(s \o Piece(x, 0, m), Sealed(t))
         /\ Len(s \o Piece(x, 0, m)) # Len(Sealed(t))
<1> DEFINE u == s \o Piece(x, 0, m)
<1>1. Len(s) \in Nat /\ Len(x) \in Nat /\ m \in 0..Len(x) /\ Len(Sealed(t)) \in Nat
  BY LenProperties, SealedShape
<1>2. u \in Seq(Cells) /\ Len(u) = Len(s) + m /\ Begins(u, s \o x)
  BY <1>1, PartOfConcat
<1>3. Len(s \o x) = Len(s) + Len(x)
  BY ConcatProperties
<1> HIDE DEF u
<1>4. Len(u) < Len(Sealed(t)) /\ \A j \in 1..Len(u) : j \in 1..Len(s \o x)
  BY <1>1, <1>2, <1>3 DEF Begins
<1>5. ASSUME NEW j \in 1..Len(u) PROVE u[j] = Sealed(t)[j]
  BY <1>2, <1>4 DEF Begins
<1> QED
  BY <1>1, <1>2, <1>4, <1>5 DEF u, Begins

\* ... of the header.
LEMMA CutHeader ==
  ASSUME NEW m \in 0..(HeaderLen - 1)
  PROVE  /\ Piece(Header, 0, m) \in Seq(Cells) /\ Begins(Piece(Header, 0, m), Sealed(<<>>))
         /\ Len(Piece(Header, 0, m)) # Len(Sealed(<<>>))
<1>1. Header \in Seq(Cells) /\ Len(Header) = HeaderLen /\ <<>> \in Seq(Cells)
  BY HeaderShape, SeqMonotonic, EmptySeq DEF Cells
<1>2. m \in Nat /\ m < HeaderLen
  BY SizeAssumption
<1>3. Piece(Header, 0, m) \in Seq(Cells)
  BY <1>1, <1>2, BeginningShape
<1>4. <<>> \o Header = Header /\ <<>> \o Piece(Header, 0, m) = Piece(Header, 0, m)
  BY <1>1, <1>3, ConcatEmptySeq
<1>5. Begins(Header, Sealed(<<>>))
  BY EmptyBody, BodyIsPartial
<1> QED
  BY <1>1, <1>2, <1>4, <1>5, EmptyBody, CutIsPartial

\* Writing the header preserves the invariant.
LEMMA WriteHeaderPreserves == IInv /\ WriteHeader => IInv'
<1> SUFFICES ASSUME IInv, WriteHeader PROVE IInv'
  OBVIOUS
<1>1. taken = <<>> /\ out = <<>> /\ pc = "header" /\ hashed = Header /\ pos = 0 /\ ~rdError
  BY DEF IInv, Produced, Reading, WriteHeader
<1>2. taken' = <<>> /\ UNCHANGED <<op, content, pos, rdError, clean, dec>>
  BY <1>1 DEF WriteHeader, invars
<1>3. pos' \in Nat /\ rdError' \in BOOLEAN
  BY <1>2 DEF IInv, TypeOK
<1>4. Header \in Seq(Cells) /\ Begins(Header, Sealed(<<>>)) /\ Len(Header) # Len(Sealed(<<>>))
  BY EmptyBody, BodyIsPartial
<1>5. ASSUME NEW m \in 0..(HeaderLen - 1), out' = Piece(Header, 0, m), Return("EWRFILE") PROVE IInv'
  <2>1. "EWRFILE" \in Codes \ {"OK"}
    BY DEF Codes
  <2> QED
    BY <1>1, <1>2, <1>3, <1>5, <2>1, CutHeader, EmptyBody, ReturnsPartial DEF IInv
<1>6. ASSUME out' = Header, NEW e \in {"EOPENSSL", "ENOMEM"}, Return(e) PROVE IInv'
  <2>1. e \in Codes \ {"OK"}
    BY DEF Codes
  <2> QED
    BY <1>1, <1>2, <1>3, <1>4, <1>6, <2>1, EmptyBody, ReturnsPartial DEF IInv
<1>7. ASSUME out' = Header, pc' = "encrypt", UNCHANGED <<rc, dk, hashed>> PROVE IInv'
  <2>1. TypeOK'
    BY <1>2, <1>3, <1>7, EmptyBody DEF IInv, TypeOK
  <2>2. Produced'
    BY <1>1, <1>2, <1>7, EmptyBody DEF Produced, Body, Header, Encrypted
  <2>3. Reading'
    <3>1. content \in Seq(Bytes) /\ 0 <= Len(content) /\ Piece(content, 0, 0) = <<>>
      BY DataAssumption, LenProperties, SubSeqEmpty DEF IInv, TypeOK, Piece
    <3> QED
      BY <1>1, <1>2, <1>7, <3>1 DEF Reading, Piece
  <2>4. Partial'
    BY <1>2, <1>4, <1>7 DEF Partial, Begins, Sealed, Header, Encrypted, Hmac
  <2>5. Decrypting' /\ DecryptsToInput' /\ KeysZeroed' /\ ReadErrorFails'
    BY <1>1, <1>2, <1>7 DEF IInv, Decrypting, DecryptsToInput, KeysZeroed, ReadErrorFails
  <2> QED
    BY <2>1, <2>2, <2>3, <2>4, <2>5 DEF IInv
<1> QED
  BY <1>5, <1>6, <1>7 DEF WriteHeader

\* A turn of the loop preserves the invariant.
LEMMA BlockPreserves == IInv /\ Block => IInv'
<1> SUFFICES ASSUME IInv, Block PROVE IInv'
  OBVIOUS
<1>1. pc = "encrypt" /\ out = Body(taken) /\ hashed = out /\ taken \in Seq(Bytes) /\ pos \in Nat
      /\ content \in Seq(Bytes) /\ rdError \in BOOLEAN
  BY DataAssumption DEF IInv, TypeOK, Produced, Block
<1>2. UNCHANGED <<op, content, clean, dec>>
  BY DEF Block
<1>3. Len(taken) \in Nat /\ Len(content) \in Nat
  BY <1>1, LenProperties
<1>4. PICK fails \in BOOLEAN, n \in 0..EncBlock :
        LET read == Piece(content, pos, n)
            cipher == Encrypted(read, Len(taken))
        IN
        /\ Fread(content, pos, EncBlock, n, fails)
        /\ pos' = pos + n
        /\ rdError' = (rdError \/ fails)
        /\ IF n = 0
             THEN EndOfInput(rdError') /\ UNCHANGED <<taken, out>>
             ELSE /\ taken' = taken \o read
                  /\ \/ /\ out' = out \o cipher
                        /\ hashed' = Hashed(read, cipher)
                        /\ UNCHANGED <<pc, rc, dk>>
                     \/ /\ \E m \in 0..(n - 1) : out' = out \o Piece(cipher, 0, m)
                        /\ Return("EWRFILE")
  BY DEF Block
<1> DEFINE read == Piece(content, pos, n)
<1> DEFINE cipher == Encrypted(read, Len(taken))
<1>5. n \in Nat /\ pos' \in Nat /\ rdError' \in BOOLEAN
  <2>1. n \in Nat /\ pos + n \in Nat
    BY <1>1, SizeAssumption
  <2>2. (rdError \/ fails) \in BOOLEAN
    BY <1>1
  <2> QED
    BY <1>4, <2>1, <2>2
<1>6. /\ n = 0 \/ pos + n <= Len(content)
      /\ n = 0 /\ ~fails => pos >= Len(content)
      /\ read \in Seq(Bytes) /\ Len(read) = n
  BY <1>1, <1>4, <1>5, FreadShape
<1>7. CASE n = 0 /\ rdError'
  <2>1. Return("ERDFILE") /\ UNCHANGED <<taken, out>> /\ "ERDFILE" \in Codes \ {"OK"}
    BY <1>4, <1>7 DEF EndOfInput, Codes
  <2>2. out \in Seq(Cells) /\ Begins(out, Sealed(taken)) /\ Len(out) # Len(Sealed(taken))
    BY <1>1, BodyIsPartial
  <2>3. TypeOK /\ Decrypting /\ pc # "idle"
    BY <1>1 DEF IInv
  <2>4. out' = out /\ taken' \in Seq(Bytes) /\ Begins(out, Sealed(taken')) /\ Len(out) # Len(Sealed(taken'))
    BY <1>1, <2>1, <2>2 DEF Begins, Sealed, Header, Encrypted, Hmac
  <2> QED
    BY <1>2, <1>5, <2>1, <2>2, <2>3, <2>4, ReturnsPartial
<1>8. CASE n = 0 /\ ~rdError'
  <2>1. pc' = "tag" /\ UNCHANGED <<rc, dk, hashed, taken, out>> /\ pos' = pos + 0
    BY <1>4, <1>8 DEF EndOfInput
  <2>2. TypeOK'
    BY <1>2, <1>5, <2>1 DEF IInv, TypeOK
  <2>3. Produced'
    BY <1>1, <2>1 DEF Produced, Body, Header, Encrypted
  <2>4. ~fails
    BY <1>4, <1>8
  <2>5. clean => taken = content
    <3>1. clean => pos = Len(content) /\ taken = Piece(content, 0, pos)
      BY <1>1, <1>3, <1>6, <1>8, <2>4 DEF IInv, Reading
    <3>2. Piece(content, 0, Len(content)) = content
      <4>1. 0 + 1 = 1 /\ 0 + Len(content) = Len(content)
        BY <1>3
      <4> QED
        BY <1>1, <4>1, SubSeqFull DEF Piece
    <3> QED
      BY <3>1, <3>2
  <2>6. Reading'
    BY <1>2, <2>1, <2>5 DEF Reading
  <2>7. Partial'
    BY <1>1, <2>1 DEF IInv, Partial, Begins, Sealed, Header, Encrypted, Hmac
  <2>8. Decrypting' /\ DecryptsToInput' /\ KeysZeroed'
    BY <1>1, <1>2, <2>1 DEF IInv, Decrypting, DecryptsToInput, KeysZeroed
  <2>9. ReadErrorFails'
    BY <1>8 DEF ReadErrorFails
  <2> QED
    BY <2>2, <2>3, <2>6, <2>7, <2>8, <2>9 DEF IInv
<1>9. CASE n # 0
  <2>1. /\ taken' = taken \o read /\ taken' \in Seq(Bytes)
        /\ Body(taken \o read) = out \o cipher
    BY <1>1, <1>4, <1>6, <1>9, BodyGrows
  <2>2. cipher \in Seq(Cells) /\ Len(cipher) = n
    <3>1. cipher \in Seq(BodyCells) /\ Len(cipher) = Len(read)
      BY <1>3, <1>6, EncryptedShape
    <3> QED
      BY <3>1, <1>6, SeqMonotonic DEF Cells
  <2>3. /\ out \in Seq(Cells) /\ out \o cipher \in Seq(Cells)
        /\ Begins(out \o cipher, Sealed(taken \o read))
        /\ Len(out \o cipher) # Len(Sealed(taken \o read))
    <3>1. out \in Seq(Cells)
      BY <1>1, BodyIsPartial
    <3> QED
      BY <3>1, <2>1, BodyIsPartial
  <2> HIDE DEF cipher
  <2>4. ASSUME out' = out \o cipher, hashed' = Hashed(read, cipher), UNCHANGED <<pc, rc, dk>>
        PROVE  IInv'
    <3>1. TypeOK'
      BY <1>2, <1>5, <2>1, <2>4 DEF IInv, TypeOK
    <3>2. Produced'
      <4>1. out' = Body(taken \o read) /\ hashed' = out' /\ taken' = taken \o read
        BY <1>1, <2>1, <2>4 DEF Hashed
      <4>2. Body(taken)' = Body(taken \o read)
        BY <2>1 DEF Body, Header, Encrypted
      <4> QED
        BY <1>1, <2>4, <4>1, <4>2 DEF Produced
    <3>3. Reading'
      <4>1. clean => /\ pos + n <= Len(content)
                     /\ taken \o read = Piece(content, 0, pos + n)
        <5>1. SUFFICES ASSUME clean PROVE pos + n <= Len(content)
                                          /\ taken \o read = Piece(content, 0, pos + n)
          OBVIOUS
        <5>2. pos <= Len(content) /\ taken = SubSeq(content, 1, pos)
          <6>1. pos <= Len(content) /\ taken = Piece(content, 0, pos) /\ 0 + 1 = 1 /\ 0 + pos = pos
            BY <5>1, <1>1 DEF IInv, Reading
          <6> QED
            BY <6>1 DEF Piece
        <5>3. pos + n <= Len(content)
          BY <1>6, <1>9
        <5>4. /\ 1 \in 1..(Len(content) + 1) /\ pos \in (1 - 1)..Len(content)
              /\ pos + n \in pos..Len(content)
          BY <5>2, <5>3, <1>1, <1>3, <1>5
        <5>5. SubSeq(content, 1, pos) \o SubSeq(content, pos + 1, pos + n) = SubSeq(content, 1, pos + n)
          BY <5>4, <1>1, ConcatAdjacentSubSeq
        <5>6. 0 + 1 = 1 /\ 0 + (pos + n) = pos + n
          BY <1>1, <1>5
        <5> QED
          BY <5>2, <5>3, <5>5, <5>6 DEF Piece
      <4>2. pc' = "encrypt" /\ pos' = pos + n /\ taken' = taken \o read /\ UNCHANGED <<content, clean>>
        BY <1>1, <1>2, <1>4, <2>1, <2>4
      <4> QED
        BY <4>1, <4>2 DEF Reading, Piece
    <3>4. Partial'
      BY <1>1, <2>1, <2>3, <2>4 DEF Partial, Begins, Sealed, Header, Encrypted, Hmac
    <3>5. Decrypting' /\ DecryptsToInput' /\ KeysZeroed' /\ ReadErrorFails'
      BY <1>1, <1>2, <2>4 DEF IInv, Decrypting, DecryptsToInput, KeysZeroed, ReadErrorFails
    <3> QED
      BY <3>1, <3>2, <3>3, <3>4, <3>5 DEF IInv
  <2>5. ASSUME NEW m \in 0..(n - 1), out' = out \o Piece(cipher, 0, m), Return("EWRFILE")
        PROVE  IInv'
    <3>1. m \in Nat /\ m < Len(cipher)
      BY <1>5, <2>2
    <3> DEFINE u == out \o Piece(cipher, 0, m)
    <3>2. /\ u \in Seq(Cells) /\ Begins(u, Sealed(taken \o read))
          /\ Len(u) # Len(Sealed(taken \o read))
      BY <3>1, <2>1, <2>2, <2>3, CutIsPartial
    <3> HIDE DEF u
    <3>3. "EWRFILE" \in Codes \ {"OK"} /\ TypeOK /\ Decrypting /\ pc # "idle"
      BY <1>1 DEF IInv, Codes
    <3>4. out' = u /\ Begins(u, Sealed(taken')) /\ Len(u) # Len(Sealed(taken'))
      BY <2>1, <2>5, <3>2 DEF u
    <3> QED
      BY <1>2, <1>5, <2>1, <2>5, <3>2, <3>3, <3>4, ReturnsPartial
  <2> QED
    BY <1>4, <1>9, <2>4, <2>5 DEF cipher
<1> QED
  BY <1>5, <1>7, <1>8, <1>9

\* Writing the authenticator preserves the invariant.
LEMMA WriteTagPreserves == IInv /\ WriteTag => IInv'
<1> SUFFICES ASSUME IInv, WriteTag PROVE IInv'
  OBVIOUS
<1>1. /\ pc = "tag" /\ out = Body(taken) /\ hashed = Body(taken) /\ taken \in Seq(Bytes)
      /\ (clean => taken = content) /\ ~rdError
  BY DEF IInv, TypeOK, Produced, Reading, ReadErrorFails, WriteTag
<1>2. UNCHANGED <<op, content, pos, rdError, taken, clean, dec>>
  BY DEF WriteTag, invars
<1>3. pos' \in Nat /\ rdError' \in BOOLEAN /\ TypeOK /\ Decrypting
  BY <1>2 DEF IInv, TypeOK
<1>4. /\ Body(taken) \in Seq(BodyCells) /\ Body(taken) \in Seq(Cells)
      /\ Hmac(hashed) \in Seq(Cells) /\ Len(Hmac(hashed)) = TagLen
      /\ Sealed(taken) = Body(taken) \o Hmac(hashed) /\ Sealed(taken) \in Seq(Cells)
  BY <1>1, BodyShape, HmacShape, SealedShape
<1>5. CASE out' = out \o Hmac(hashed) /\ Return("OK")
  <2>1. out' = Sealed(taken) /\ Sealed(taken') = Sealed(taken)
    BY <1>1, <1>2, <1>4, <1>5
  <2>2. TypeOK'
    BY <1>2, <1>3, <1>5 DEF TypeOK, Return, Codes
  <2>3. Produced' /\ Reading' /\ Decrypting'
    BY <1>1, <1>2, <1>5, <2>1 DEF Return, Produced, Reading, Decrypting, Sealed, Header,
       Encrypted, Hmac
  <2>4. Begins(out', Sealed(taken')) /\ out' \in Seq(Cells)
    <3>1. Len(Sealed(taken)) \in Nat
      BY <1>4, LenProperties
    <3> QED
      BY <1>4, <2>1, <3>1 DEF Begins
  <2>5. Partial'
    BY <1>5, <2>4 DEF Partial, Return, Begins, Sealed, Header, Encrypted, Hmac
  <2>6. DecryptsToInput' /\ KeysZeroed' /\ ReadErrorFails'
    BY <1>1, <1>2, <1>5 DEF IInv, Decrypting, DecryptsToInput, Return, KeysZeroed,
       ReadErrorFails
  <2> QED
    BY <2>2, <2>3, <2>5, <2>6 DEF IInv
<1>6. ASSUME NEW m \in 0..(TagLen - 1), out' = out \o Piece(Hmac(hashed), 0, m), Return("EWRFILE")
      PROVE  IInv'
  <2>1. m \in Nat /\ m < Len(Hmac(hashed))
    BY <1>4, SizeAssumption
  <2>2. Begins(Body(taken) \o Hmac(hashed), Sealed(taken))
    <3>1. Len(Sealed(taken)) \in Nat
      BY <1>4, LenProperties
    <3> QED
      BY <1>4, <3>1 DEF Begins
  <2> DEFINE u == Body(taken) \o Piece(Hmac(hashed), 0, m)
  <2>3. u \in Seq(Cells) /\ Begins(u, Sealed(taken)) /\ Len(u) # Len(Sealed(taken))
    BY <1>1, <1>4, <2>1, <2>2, CutIsPartial
  <2>4. out' = u /\ Sealed(taken') = Sealed(taken) /\ "EWRFILE" \in Codes \ {"OK"} /\ pc # "idle"
        /\ taken' \in Seq(Bytes)
    BY <1>1, <1>2, <1>6 DEF Codes
  <2> HIDE DEF u
  <2> QED
    BY <1>2, <1>3, <1>6, <2>3, <2>4, ReturnsPartial
<1> QED
  BY <1>5, <1>6 DEF WriteTag

\* scryptenc_buf preserves the invariant.
LEMMA WholeBufPreserves == IInv /\ WholeBuf => IInv'
<1> SUFFICES ASSUME IInv, WholeBuf PROVE IInv'
  OBVIOUS
<1>1. pc = "whole" /\ out = Header /\ taken = <<>> /\ content \in Seq(Bytes) /\ ~rdError
  BY DataAssumption DEF IInv, TypeOK, Produced, Reading, WholeBuf
<1>2. UNCHANGED <<op, content, pos, rdError, clean, dec>>
  BY DEF WholeBuf, invars
<1>3. pos' \in Nat /\ rdError' \in BOOLEAN /\ TypeOK /\ Decrypting
  BY <1>2 DEF IInv, TypeOK
<1>4. ASSUME NEW e \in {"EOPENSSL", "ENOMEM"}, Return(e), UNCHANGED <<taken, out>> PROVE IInv'
  <2>1. Header \in Seq(Cells) /\ Begins(Header, Sealed(<<>>)) /\ Len(Header) # Len(Sealed(<<>>))
    BY EmptyBody, BodyIsPartial
  <2>2. e \in Codes \ {"OK"} /\ out' = Header /\ taken' = <<>> /\ pc # "idle"
    BY <1>1, <1>4 DEF Codes
  <2> QED
    BY <1>2, <1>3, <1>4, <2>1, <2>2, EmptyBody, ReturnsPartial
<1>5. ASSUME LET cipher == Encrypted(content, 0) IN out' = Header \o cipher \o Hmac(Header \o cipher),
             taken' = content, Return("OK")
      PROVE  IInv'
  <2>1. out' = Sealed(content)
    BY <1>5 DEF Sealed
  <2>2. Sealed(content) \in Seq(Cells) /\ Len(Sealed(content)) \in Nat
    BY <1>1, SealedShape, LenProperties
  <2>3. TypeOK'
    BY <1>1, <1>2, <1>3, <1>5 DEF TypeOK, Return, Codes
  <2>4. Produced' /\ Reading' /\ Decrypting'
    BY <1>1, <1>2, <1>5, <2>1 DEF Return, Produced, Reading, Decrypting, Sealed, Header,
       Encrypted, Hmac
  <2>5. Begins(out', Sealed(taken')) /\ out' \in Seq(Cells)
    <3>1. Sealed(taken') = Sealed(content)
      BY <1>5
    <3>2. Begins(Sealed(content), Sealed(content))
      BY <2>2 DEF Begins
    <3> QED
      BY <2>1, <2>2, <3>1, <3>2
  <2>6. Partial'
    BY <1>5, <2>5 DEF Partial, Return, Begins, Sealed, Header, Encrypted, Hmac
  <2>7. DecryptsToInput' /\ KeysZeroed' /\ ReadErrorFails'
    BY <1>1, <1>2, <1>5 DEF IInv, Decrypting, DecryptsToInput, Return, KeysZeroed,
       ReadErrorFails
  <2> QED
    BY <2>3, <2>4, <2>6, <2>7 DEF IInv
<1> QED
  BY <1>4, <1>5 DEF WholeBuf

\* A change of the input preserves the invariant.
LEMMA RewritePreserves == IInv /\ Rewrite => IInv'
<1> SUFFICES ASSUME IInv, Rewrite PROVE IInv'
  OBVIOUS
<1>1. TypeOK'
  BY DEF IInv, TypeOK, Rewrite
<1>2. Produced' /\ Partial'
  BY DEF IInv, Produced, Partial, Rewrite, Body, Begins, Sealed, Header, Encrypted, Hmac
<1>3. Reading' /\ Decrypting'
  BY DEF IInv, Reading, Decrypting, Rewrite
<1>4. DecryptsToInput' /\ KeysZeroed' /\ ReadErrorFails'
  BY DEF IInv, DecryptsToInput, KeysZeroed, ReadErrorFails, Rewrite
<1> QED
  BY <1>1, <1>2, <1>3, <1>4 DEF IInv

\* Decrypting a buffer preserves the invariant: it succeeds on a whole output only.
LEMMA DecBufPreserves == IInv /\ DecBuf => IInv'
<1> SUFFICES ASSUME IInv, DecBuf PROVE IInv'
  OBVIOUS
<1>1. UNCHANGED <<pc, op, rc, content, pos, rdError, dk, hashed, taken, out, clean>> /\ pc = "idle"
  BY DEF DecBuf, invars
<1>2. TypeOK' /\ Produced' /\ Partial' /\ Reading'
  BY <1>1 DEF IInv, TypeOK, Produced, Partial, Reading, Body, Begins, Sealed, Header,
     Encrypted, Hmac
<1>3. Decrypting' /\ KeysZeroed' /\ ReadErrorFails'
  BY <1>1 DEF IInv, Decrypting, KeysZeroed, ReadErrorFails
<1>4. PICK b \in Buffers, right \in BOOLEAN :
        LET none == [given |-> b, rc |-> DecFault(b, right), plain |-> <<>>, outlen |-> 0]
            size == Len(b) - (HeaderLen + TagLen)
        IN
        \/ none.rc # "OK" /\ dec' = none
        \/ /\ size >= 0 /\ Piece(b, 0, SumLen) = Piece(Header, 0, SumLen)
           /\ \E e \in (CheckResults \ {"OK", "EINVAL"}) \cup {"EKEY", "EOPENSSL"} :
                dec' = [none EXCEPT !.rc = e]
        \/ /\ none.rc = "OK"
           /\ dec' = [none EXCEPT !.plain = Decrypted(Piece(b, HeaderLen, size)), !.outlen = size]
  BY DEF DecBuf
<1>5. DecryptsToInput'
  <2> SUFFICES ASSUME dec'.rc = "OK"
               PROVE  rc = "OK" /\ dec'.given = out /\ dec'.plain = taken /\ dec'.outlen = Len(taken)
    BY <1>1 DEF DecryptsToInput
  <2> DEFINE size == Len(b) - (HeaderLen + TagLen)
  <2>1. /\ DecFault(b, right) = "OK" /\ dec'.given = b
        /\ dec'.plain = Decrypted(Piece(b, HeaderLen, size)) /\ dec'.outlen = size
    BY <1>4 DEF CheckResults
  <2>2. out \in Seq(Cells) /\ Begins(out, Sealed(taken)) /\ taken \in Seq(Bytes)
        /\ (Len(out) = Len(Sealed(taken)) => rc = "OK")
    BY DEF IInv, Partial, TypeOK
  <2>3. b = out /\ out = Sealed(taken)
    BY <2>1, <2>2, OnlyWhole
  <2>4. size = Len(taken) /\ Decrypted(Piece(b, HeaderLen, size)) = taken
    BY <2>2, <2>3, DecryptsWhole
  <2> QED
    BY <2>1, <2>2, <2>3, <2>4
<1> QED
  BY <1>2, <1>3, <1>5 DEF IInv
-----------------------------------------------------------------------------
\* The invariant is inductive.
LEMMA NextPreserves == IInv /\ [Next]_vars => IInv'
<1> SUFFICES ASSUME IInv, [Next]_vars PROVE IInv'
  OBVIOUS
<1>1. CASE Next
  BY <1>1, CallPreserves, RewritePreserves, DecBufPreserves, SetupPreserves,
     WriteHeaderPreserves, BlockPreserves, WriteTagPreserves, WholeBufPreserves DEF Next, Steps
<1>2. CASE UNCHANGED vars
  <2>1. TypeOK' /\ Reading' /\ Decrypting'
    BY <1>2 DEF vars, invars, IInv, TypeOK, Reading, Decrypting, Piece
  <2>2. Produced' /\ Partial'
    BY <1>2 DEF vars, IInv, Produced, Partial, Body, Begins, Sealed, Header, Encrypted, Hmac
  <2>3. DecryptsToInput' /\ KeysZeroed' /\ ReadErrorFails'
    BY <1>2 DEF vars, invars, IInv, DecryptsToInput, KeysZeroed, ReadErrorFails
  <2> QED
    BY <2>1, <2>2, <2>3 DEF IInv
<1> QED
  BY <1>1, <1>2

\* The invariant holds in every state.
LEMMA Invariant == Spec => []IInv
BY InitInvariant, NextPreserves, PTL DEF Spec

\* Types hold, and the codes are those of encryption.
THEOREM TypeCorrect == Spec => []TypeOK
<1>1. IInv => TypeOK
  BY DEF IInv
<1> QED
  BY <1>1, Invariant, PTL

\* SCRYPT_OK means that the output is the whole encryption of what was read,
\* and of the whole input if it did not change.
THEOREM SuccessWhole == Spec => []SuccessIsWhole
<1>1. IInv => SuccessIsWhole
  BY DEF IInv, Produced, Reading, SuccessIsWhole
<1> QED
  BY <1>1, Invariant, PTL

\* scryptdec_buf accepts the output of a success and nothing else that can be
\* made of an output, and gives back what was encrypted.
THEOREM OnlyWholeDecrypts == Spec => []DecryptsToInput
<1>1. IInv => DecryptsToInput
  BY DEF IInv
<1> QED
  BY <1>1, Invariant, PTL

\* Every exit of scryptenc_file and scryptenc_buf zeroes the derived keys.
THEOREM KeysAreZeroed == Spec => []KeysZeroed
<1>1. IInv => KeysZeroed
  BY DEF IInv
<1> QED
  BY <1>1, Invariant, PTL

\* A failed fread, after which feof is not looked at, ends in an error.
THEOREM ReadErrorsFail == Spec => []ReadErrorFails
<1>1. IInv => ReadErrorFails
  BY DEF IInv
<1> QED
  BY <1>1, Invariant, PTL
=============================================================================
