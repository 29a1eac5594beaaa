---------------------------- MODULE DownloadProofs ----------------------------
(***************************************************************************)
(* Proofs about the exchange of gfclient.c and gfserver.c (GetFile) and    *)
(* the programs around it (Download), for any length of file, any chunk    *)
(* and any number of requests.                                             *)
(***************************************************************************)
EXTENDS Download, SequenceTheorems, TLAPS

-----------------------------------------------------------------------------
(***************************************************************************)
(* Parts of sequences.                                                     *)
(***************************************************************************)
LEMMA FirstPart ==
    ASSUME NEW S, NEW q \in Seq(S), NEW n \in 0 .. Len(q)
    PROVE  /\ SubSeq(q, 1, n) \in Seq(S) /\ Len(SubSeq(q, 1, n)) = n
           /\ \A k \in 1 .. n : SubSeq(q, 1, n)[k] = q[k]
<1>1. /\ n \in Int /\ Len(q) \in Nat /\ 1 \in Int
      /\ \A k \in 1 .. n : k \in 1 .. Len(q) /\ q[k] \in S
  OBVIOUS
<1>2. /\ SubSeq(q, 1, n) \in Seq(S)
      /\ Len(SubSeq(q, 1, n)) = IF 1 <= n THEN n - 1 + 1 ELSE 0
      /\ \A k \in 1 .. n - 1 + 1 : SubSeq(q, 1, n)[k] = q[1 + k - 1]
  BY <1>1, SubSeqProperties
<1>3. QED
  BY <1>1, <1>2

LEMMA OtherPart ==
    ASSUME NEW S, NEW q \in Seq(S), NEW n \in 0 .. Len(q)
    PROVE  /\ SubSeq(q, n + 1, Len(q)) \in Seq(S)
           /\ Len(SubSeq(q, n + 1, Len(q))) = Len(q) - n
           /\ \A k \in 1 .. Len(q) - n :
                SubSeq(q, n + 1, Len(q))[k] = q[n + k] /\ n + k \in 1 .. Len(q)
<1>1. /\ n \in Int /\ Len(q) \in Nat /\ n + 1 \in Int /\ Len(q) \in Int
      /\ \A k \in n + 1 .. Len(q) : k \in 1 .. Len(q) /\ q[k] \in S
  OBVIOUS
<1>2. /\ SubSeq(q, n + 1, Len(q)) \in Seq(S)
      /\ Len(SubSeq(q, n + 1, Len(q))) =
           IF n + 1 <= Len(q) THEN Len(q) - (n + 1) + 1 ELSE 0
      /\ \A k \in 1 .. Len(q) - (n + 1) + 1 :
           SubSeq(q, n + 1, Len(q))[k] = q[n + 1 + k - 1]
  BY <1>1, SubSeqProperties
<1>3. Len(q) - (n + 1) + 1 = Len(q) - n /\ n <= Len(q) /\ n >= 0
  BY <1>1
<1>4. \A k \in 1 .. Len(q) - n : n + 1 + k - 1 = n + k /\ n + k \in 1 .. Len(q)
  BY <1>1, <1>3
<1>5. Len(SubSeq(q, n + 1, Len(q))) = Len(q) - n
  <2>1. CASE n + 1 <= Len(q)
    <3>1. Len(SubSeq(q, n + 1, Len(q))) = Len(q) - (n + 1) + 1
      BY <1>2, <2>1
    <3>2. QED
      BY <1>3, <3>1
  <2>2. CASE ~(n + 1 <= Len(q))
    <3>1. Len(SubSeq(q, n + 1, Len(q))) = 0
      BY <1>2, <2>2
    <3>2. \A m, j \in Int : j <= m /\ ~(j + 1 <= m) => m - j = 0
      OBVIOUS
    <3>3. Len(q) - n = 0
      BY <1>1, <1>3, <2>2, <3>2
    <3>4. QED
      BY <3>1, <3>3
  <2>3. QED
    BY <2>1, <2>2
<1>6. ASSUME NEW k \in 1 .. Len(q) - n
      PROVE  SubSeq(q, n + 1, Len(q))[k] = q[n + k]
  <2>1. k \in 1 .. Len(q) - (n + 1) + 1
    BY <1>3
  <2>2. SubSeq(q, n + 1, Len(q))[k] = q[n + 1 + k - 1]
    BY <1>2, <2>1
  <2>3. QED
    BY <1>4, <2>2
<1>7. QED
  BY <1>2, <1>4, <1>5, <1>6

LEMMA Joined ==
    ASSUME NEW S, NEW q \in Seq(S), NEW r \in Seq(S)
    PROVE  /\ q \o r \in Seq(S) /\ Len(q \o r) = Len(q) + Len(r)
           /\ Len(q) \in Nat /\ Len(r) \in Nat
           /\ \A k \in 1 .. Len(q) : (q \o r)[k] = q[k]
           /\ \A k \in 1 .. Len(r) : (q \o r)[Len(q) + k] = r[k]
<1>1. /\ q \o r \in Seq(S) /\ Len(q \o r) = Len(q) + Len(r)
      /\ Len(q) \in Nat /\ Len(r) \in Nat
  OBVIOUS
<1>2. \A k \in 1 .. Len(q) + Len(r) :
        (q \o r)[k] = IF k <= Len(q) THEN q[k] ELSE r[k - Len(q)]
  OBVIOUS
<1>3. ASSUME NEW k \in 1 .. Len(q)
      PROVE  (q \o r)[k] = q[k]
  BY <1>1, <1>2
<1>4. ASSUME NEW k \in 1 .. Len(r)
      PROVE  (q \o r)[Len(q) + k] = r[k]
  <2>1. /\ Len(q) + k \in 1 .. Len(q) + Len(r) /\ ~(Len(q) + k <= Len(q))
        /\ (Len(q) + k) - Len(q) = k
    BY <1>1
  <2>2. QED
    BY <2>1, <1>2
<1>5. QED
  BY <1>1, <1>3, <1>4

-----------------------------------------------------------------------------
(***************************************************************************)
(* The headers.                                                            *)
(***************************************************************************)
Tags == {"GET", "FILE", "O", "OK", "FILE_NOT", "FILE_NOT_FOUND", "digit",
         " ", "CR", "LF", "header text", "none", "path", "prefix"}
Pieces == Tags \X Int

LEMMA PieceType == \A a \in Tags, b \in Int : <<a, b>> \in Pieces
BY DEF Pieces


\* Where the length of a header ends, and the header.
LastDigit == IF FileLength < 10 THEN 5 ELSE 6

\* The four pieces a header starts with.
StartWith(a, b) == Schema \o <<Piece(a), Piece(b)>>

IsStart(q, a, b) ==
    /\ q \in Seq(Pieces) /\ Len(q) = 4
    /\ q[1] = <<"GET", 0>> /\ q[2] = <<"FILE", 0>>
    /\ q[3] = <<a, 0>> /\ q[4] = <<b, 0>>

LEMMA SchemaPieces ==
    \A a, b \in Tags : IsStart(StartWith(a, b), a, b)
<1> SUFFICES ASSUME NEW a \in Tags, NEW b \in Tags
             PROVE  IsStart(StartWith(a, b), a, b)
    OBVIOUS
<1> DEFINE q == StartWith(a, b)
<1>1. "GET" \in Tags /\ "FILE" \in Tags
  BY DEF Tags
<1>0. 0 \in Int
  OBVIOUS
<1> DEFINE x == <<"GET", 0>>
           y == <<"FILE", 0>>
           z == <<a, 0>>
           w == <<b, 0>>
<1>2. q = <<x, y>> \o <<z, w>>
  BY DEF StartWith, Schema, Piece
<1>3. x \in Pieces /\ y \in Pieces /\ z \in Pieces /\ w \in Pieces
  BY <1>0, <1>1, PieceType, Zenon
<1> HIDE DEF x, y, z, w, q
<1>4. <<x, y>> \in Seq(Pieces) /\ <<z, w>> \in Seq(Pieces)
  BY <1>3
<1>5. /\ Len(<<x, y>>) = 2 /\ Len(<<z, w>>) = 2
      /\ <<x, y>>[1] = x /\ <<x, y>>[2] = y /\ <<z, w>>[1] = z /\ <<z, w>>[2] = w
  OBVIOUS
<1>6. q \in Seq(Pieces) /\ Len(q) = 4 /\ q[1] = x /\ q[2] = y /\ q[3] = z /\ q[4] = w
  <2> DEFINE s == <<x, y>>
             t == <<z, w>>
  <2>1. /\ s \in Seq(Pieces) /\ t \in Seq(Pieces) /\ Len(s) = 2 /\ Len(t) = 2
        /\ s[1] = x /\ s[2] = y /\ t[1] = z /\ t[2] = w /\ q = s \o t
    BY <1>2, <1>4, <1>5
  <2>0. s \in Seq(Pieces) /\ t \in Seq(Pieces)
    BY <2>1
  <2> HIDE DEF s, t
  <2>2. /\ q \in Seq(Pieces) /\ Len(q) = 2 + 2
        /\ \A k \in 1 .. 2 : q[k] = s[k]
        /\ \A k \in 1 .. 2 : q[2 + k] = t[k]
    <3>1. /\ s \o t \in Seq(Pieces) /\ Len(s \o t) = Len(s) + Len(t)
          /\ \A k \in 1 .. Len(s) : (s \o t)[k] = s[k]
          /\ \A k \in 1 .. Len(t) : (s \o t)[Len(s) + k] = t[k]
      BY <2>0, Joined
    <3>2. QED
      BY <2>1, <3>1, Zenon
  <2>3. 2 + 2 = 4 /\ 1 \in 1 .. 2 /\ 2 \in 1 .. 2 /\ 2 + 1 = 3
    OBVIOUS
  <2>4. q[1] = x /\ q[2] = y /\ q[2 + 1] = z /\ q[2 + 2] = w
    BY <2>1, <2>2, <2>3
  <2>5. QED
    BY <2>2, <2>3, <2>4, Zenon
<1>7. QED
  BY <1>6 DEF x, y, z, w, q, IsStart

LEMMA EndPieces ==
    /\ EndOfHeader \in Seq(Pieces)
    /\ Len(EndOfHeader) = IF Spaced THEN 5 ELSE 4
    /\ EndOfHeader[Len(EndOfHeader)] = <<"LF", 2>>
    /\ \A k \in 1 .. Len(EndOfHeader) :
         /\ EndOfHeader[k] = <<"LF", 2>> => k = Len(EndOfHeader)
         /\ EndOfHeader[k][1] # "digit"
<1> DEFINE s == <<" ", 0>>
           v == <<"CR", 1>>
           x == <<"LF", 1>>
           y == <<"CR", 2>>
           z == <<"LF", 2>>
<1>1. EndOfHeader = (IF Spaced THEN <<s>> ELSE << >>) \o <<v, x, y, z>>
  BY DEF EndOfHeader, Piece
<1>0. /\ 0 \in Int /\ 1 \in Int /\ 2 \in Int
  OBVIOUS
<1>2. s \in Pieces /\ v \in Pieces /\ x \in Pieces /\ y \in Pieces /\ z \in Pieces
  <2>1. " " \in Tags /\ "CR" \in Tags /\ "LF" \in Tags
    BY DEF Tags
  <2>2. QED
    BY <1>0, <2>1, PieceType, Zenon
<1>3. /\ s # z /\ v # z /\ x # z /\ y # z
      /\ s[1] # "digit" /\ v[1] # "digit" /\ x[1] # "digit" /\ y[1] # "digit"
      /\ z[1] # "digit"
  OBVIOUS
<1> DEFINE Good(p) == p[1] # "digit"
<1>4. Good(s) /\ Good(v) /\ Good(x) /\ Good(y) /\ Good(z)
  BY <1>3
<1>5. (\A k \in 1 .. Len(EndOfHeader) : Good(EndOfHeader[k])) =>
        \A k \in 1 .. Len(EndOfHeader) : EndOfHeader[k][1] # "digit"
  OBVIOUS
<1>6. s # z /\ v # z /\ x # z /\ y # z
  BY <1>3
<1> HIDE DEF s, v, x, y, z, Good
<1>7. CASE Spaced
  <2>1. EndOfHeader = <<s>> \o <<v, x, y, z>>
    BY <1>1, <1>7
  <2>2. /\ EndOfHeader \in Seq(Pieces) /\ Len(EndOfHeader) = 5
        /\ EndOfHeader[1] = s /\ EndOfHeader[2] = v /\ EndOfHeader[3] = x
        /\ EndOfHeader[4] = y /\ EndOfHeader[5] = z
    BY <2>1, <1>2
  <2>3. \A k \in 1 .. 5 : k = 1 \/ k = 2 \/ k = 3 \/ k = 4 \/ k = 5
    OBVIOUS
  <2>4. \A k \in 1 .. 5 : Good(EndOfHeader[k]) /\ (EndOfHeader[k] = z => k = 5)
    BY <1>4, <1>6, <2>2, <2>3
  <2>5. QED
    BY <1>5, <1>7, <2>2, <2>4 DEF z
<1>8. CASE ~Spaced
  <2>1. EndOfHeader = << >> \o <<v, x, y, z>>
    BY <1>1, <1>8
  <2>2. /\ EndOfHeader \in Seq(Pieces) /\ Len(EndOfHeader) = 4
        /\ EndOfHeader[1] = v /\ EndOfHeader[2] = x
        /\ EndOfHeader[3] = y /\ EndOfHeader[4] = z
    BY <2>1, <1>2
  <2>3. \A k \in 1 .. 4 : k = 1 \/ k = 2 \/ k = 3 \/ k = 4
    OBVIOUS
  <2>4. \A k \in 1 .. 4 : Good(EndOfHeader[k]) /\ (EndOfHeader[k] = z => k = 4)
    BY <1>4, <1>6, <2>2, <2>3
  <2>5. QED
    BY <1>5, <1>8, <2>2, <2>4 DEF z
<1>9. QED
  BY <1>7, <1>8

LEMMA LengthPieces ==
    /\ Length \in Seq(Pieces)
    /\ LastDigit - 4 \in {1, 2} /\ Len(Length) = LastDigit - 4
    /\ Length[LastDigit - 4] = <<"digit", FileLength>>
    /\ \A k \in 1 .. Len(Length) :
         Length[k][1] = "digit" /\ Length[k][2] \in 0 .. FileLength
<1> DEFINE x == <<"digit", FileLength \div 10>>
           y == <<"digit", FileLength>>
           Good(p) == p[1] = "digit" /\ p[2] \in 0 .. FileLength
<1>1. FileLength \in Nat /\ FileLength \div 10 \in 0 .. FileLength
  BY LengthAssumption
<1>2. x \in Pieces /\ y \in Pieces
  <2>1. "digit" \in Tags /\ FileLength \div 10 \in Int /\ FileLength \in Int
    BY <1>1 DEF Tags
  <2>2. QED
    BY <2>1, PieceType, Zenon
<1>3. Good(x) /\ Good(y)
  BY <1>1
<1>4. Length = (IF FileLength < 10 THEN << >> ELSE <<x>>) \o <<y>>
  BY DEF Length
<1>5. (\A k \in 1 .. Len(Length) : Good(Length[k])) =>
        \A k \in 1 .. Len(Length) :
          Length[k][1] = "digit" /\ Length[k][2] \in 0 .. FileLength
  OBVIOUS
<1> HIDE DEF x, y, Good
<1>6. CASE FileLength < 10
  <2>1. Length = << >> \o <<y>>
    BY <1>4, <1>6
  <2>2. Length \in Seq(Pieces) /\ Len(Length) = 1 /\ Length[1] = y
    BY <2>1, <1>2
  <2>3. LastDigit - 4 = 1
    BY <1>6 DEF LastDigit
  <2>4. \A k \in 1 .. Len(Length) : Good(Length[k])
    BY <2>2, <1>3
  <2>5. QED
    BY <1>5, <2>2, <2>3, <2>4 DEF y
<1>7. CASE ~(FileLength < 10)
  <2>1. Length = <<x>> \o <<y>>
    BY <1>4, <1>7
  <2>2. Length \in Seq(Pieces) /\ Len(Length) = 2 /\ Length[1] = x /\ Length[2] = y
    BY <2>1, <1>2
  <2>3. LastDigit - 4 = 2
    BY <1>7 DEF LastDigit
  <2>4. \A k \in 1 .. 2 : k = 1 \/ k = 2
    OBVIOUS
  <2>5. \A k \in 1 .. Len(Length) : Good(Length[k])
    BY <2>2, <2>4, <1>3
  <2>6. QED
    BY <1>5, <2>2, <2>3, <2>5 DEF y
<1>8. QED
  BY <1>6, <1>7

LEMMA OkHeaderPieces ==
    /\ OkHeader \in Seq(Pieces) /\ LastDigit \in {5, 6}
    /\ Len(OkHeader) = LastDigit + IF Spaced THEN 5 ELSE 4
    /\ OkHeader[4] = <<"OK", 0>>
    /\ OkHeader[LastDigit] = <<"digit", FileLength>>
    /\ \A k \in 1 .. Len(OkHeader) :
         /\ OkHeader[k][1] = "digit" <=> k \in 5 .. LastDigit
         /\ k \in 5 .. LastDigit => OkHeader[k][2] \in 0 .. FileLength
         /\ OkHeader[k] = <<"LF", 2>> => k = Len(OkHeader)
<1> DEFINE s == Schema \o <<Piece("O"), Piece("OK")>>
           u == s \o Length
           e == Len(EndOfHeader)
<1>1. /\ s \in Seq(Pieces) /\ Len(s) = 4 /\ s[1] = <<"GET", 0>>
      /\ s[2] = <<"FILE", 0>> /\ s[3] = <<"O", 0>> /\ s[4] = <<"OK", 0>>
  <2>1. "O" \in Tags /\ "OK" \in Tags
    BY DEF Tags
  <2>2. IsStart(StartWith("O", "OK"), "O", "OK")
    BY <2>1, SchemaPieces
  <2>3. QED
    BY <2>2 DEF IsStart, StartWith
<1>2. \A k \in 1 .. 4 : s[k][1] # "digit" /\ s[k] # <<"LF", 2>>
  <2>1. /\ s[1][1] # "digit" /\ s[2][1] # "digit" /\ s[3][1] # "digit"
        /\ s[4][1] # "digit" /\ s[1] # <<"LF", 2>> /\ s[2] # <<"LF", 2>>
        /\ s[3] # <<"LF", 2>> /\ s[4] # <<"LF", 2>>
    BY <1>1
  <2>2. \A k \in 1 .. 4 : k = 1 \/ k = 2 \/ k = 3 \/ k = 4
    OBVIOUS
  <2>3. QED
    BY <2>1, <2>2
<1>3. s \in Seq(Pieces)
  BY <1>1
<1> HIDE DEF s
<1>4. Length \in Seq(Pieces) /\ EndOfHeader \in Seq(Pieces)
  BY LengthPieces, EndPieces
<1>5. /\ u \in Seq(Pieces) /\ Len(u) = Len(s) + Len(Length)
      /\ \A k \in 1 .. Len(s) : u[k] = s[k]
      /\ \A k \in 1 .. Len(Length) : u[Len(s) + k] = Length[k]
  BY <1>3, <1>4, Joined
<1>6. OkHeader = u \o EndOfHeader
  BY DEF OkHeader, s
<1>7. u \in Seq(Pieces)
  BY <1>5
<1> HIDE DEF u
<1>8. /\ OkHeader \in Seq(Pieces) /\ Len(OkHeader) = Len(u) + e
      /\ \A k \in 1 .. Len(u) : OkHeader[k] = u[k]
      /\ \A k \in 1 .. e : OkHeader[Len(u) + k] = EndOfHeader[k]
  BY <1>4, <1>6, <1>7, Joined
<1>9. /\ LastDigit \in {5, 6} /\ Len(u) = LastDigit
      /\ e = (IF Spaced THEN 5 ELSE 4) /\ e \in Nat
  <2>1. LastDigit \in {5, 6} /\ Len(Length) = LastDigit - 4
    BY LengthPieces DEF LastDigit
  <2>2. e = IF Spaced THEN 5 ELSE 4
    BY EndPieces
  <2>3. QED
    BY <1>1, <1>5, <2>1, <2>2
<1> HIDE DEF e
<1>10. \A k \in 1 .. 4 : OkHeader[k] = s[k]
  BY <1>1, <1>5, <1>8, <1>9
<1>11. \A k \in 5 .. LastDigit : OkHeader[k] = Length[k - 4] /\ k - 4 \in 1 .. Len(Length)
  <2>1. Len(Length) = LastDigit - 4
    BY LengthPieces
  <2> SUFFICES ASSUME NEW k \in 5 .. LastDigit
               PROVE  OkHeader[k] = Length[k - 4] /\ k - 4 \in 1 .. Len(Length)
      OBVIOUS
  <2>2. k - 4 \in 1 .. Len(Length) /\ 4 + (k - 4) = k /\ k \in 1 .. LastDigit
    BY <1>9, <2>1
  <2>3. u[4 + (k - 4)] = Length[k - 4]
    BY <1>1, <1>5, <2>2
  <2>4. QED
    BY <1>8, <1>9, <2>2, <2>3
<1>12. \A k \in LastDigit + 1 .. LastDigit + e :
         OkHeader[k] = EndOfHeader[k - LastDigit] /\ k - LastDigit \in 1 .. e
  <2> SUFFICES ASSUME NEW k \in LastDigit + 1 .. LastDigit + e
               PROVE  OkHeader[k] = EndOfHeader[k - LastDigit]
                      /\ k - LastDigit \in 1 .. e
      OBVIOUS
  <2>1. k - LastDigit \in 1 .. e /\ LastDigit + (k - LastDigit) = k
    BY <1>9
  <2>2. QED
    BY <1>8, <1>9, <2>1
<1>13. OkHeader[4] = <<"OK", 0>>
  BY <1>1, <1>10
<1>14. OkHeader[LastDigit] = <<"digit", FileLength>>
  <2>1. LastDigit \in 5 .. LastDigit
    BY <1>9
  <2>2. QED
    BY <1>11, <2>1, LengthPieces
<1>15. ASSUME NEW k \in 1 .. Len(OkHeader)
       PROVE  /\ OkHeader[k][1] = "digit" <=> k \in 5 .. LastDigit
              /\ k \in 5 .. LastDigit => OkHeader[k][2] \in 0 .. FileLength
              /\ OkHeader[k] = <<"LF", 2>> => k = Len(OkHeader)
  <2>1. /\ Len(OkHeader) = LastDigit + e
        /\ k \in 1 .. 4 \/ k \in 5 .. LastDigit \/ k \in LastDigit + 1 .. LastDigit + e
    BY <1>8, <1>9
  <2>2. CASE k \in 1 .. 4
    <3>1. OkHeader[k][1] # "digit" /\ OkHeader[k] # <<"LF", 2>>
      BY <1>2, <1>10, <2>2
    <3>2. k \notin 5 .. LastDigit
      BY <2>2
    <3>3. QED
      BY <3>1, <3>2
  <2>3. CASE k \in 5 .. LastDigit
    <3>1. OkHeader[k][1] = "digit" /\ OkHeader[k][2] \in 0 .. FileLength
      BY <1>11, <2>3, LengthPieces
    <3>2. OkHeader[k] # <<"LF", 2>>
      BY <3>1
    <3>3. QED
      BY <2>3, <3>1, <3>2
  <2>4. CASE k \in LastDigit + 1 .. LastDigit + e
    <3>1. /\ OkHeader[k][1] # "digit"
          /\ OkHeader[k] = <<"LF", 2>> => k - LastDigit = e
      BY <1>12, <2>4, EndPieces DEF e
    <3>2. k \notin 5 .. LastDigit /\ (k - LastDigit = e => k = LastDigit + e)
      BY <1>9, <2>4
    <3>3. QED
      BY <2>1, <3>1, <3>2
  <2>5. QED
    BY <2>1, <2>2, <2>3, <2>4
<1>16. Len(OkHeader) = LastDigit + IF Spaced THEN 5 ELSE 4
  BY <1>8, <1>9
<1>17. QED
  BY <1>8, <1>9, <1>13, <1>14, <1>15, <1>16

LEMMA NotFoundPieces ==
    /\ NotFoundHeader \in Seq(Pieces)
    /\ Len(NotFoundHeader) = 4 + IF Spaced THEN 5 ELSE 4
    /\ NotFoundHeader[4] = <<"FILE_NOT_FOUND", 0>>
    /\ \A k \in 1 .. Len(NotFoundHeader) :
         /\ NotFoundHeader[k][1] # "digit"
         /\ NotFoundHeader[k] = <<"LF", 2>> => k = Len(NotFoundHeader)
<1> DEFINE s == Schema \o <<Piece("FILE_NOT"), Piece("FILE_NOT_FOUND")>>
           e == Len(EndOfHeader)
<1>1. /\ s \in Seq(Pieces) /\ Len(s) = 4 /\ s[1] = <<"GET", 0>>
      /\ s[2] = <<"FILE", 0>> /\ s[3] = <<"FILE_NOT", 0>>
      /\ s[4] = <<"FILE_NOT_FOUND", 0>>
  <2>1. "FILE_NOT" \in Tags /\ "FILE_NOT_FOUND" \in Tags
    BY DEF Tags
  <2>2. IsStart(StartWith("FILE_NOT", "FILE_NOT_FOUND"), "FILE_NOT", "FILE_NOT_FOUND")
    BY <2>1, SchemaPieces
  <2>3. QED
    BY <2>2 DEF IsStart, StartWith
<1>2. \A k \in 1 .. 4 : s[k][1] # "digit" /\ s[k] # <<"LF", 2>>
  <2>1. /\ s[1][1] # "digit" /\ s[2][1] # "digit" /\ s[3][1] # "digit"
        /\ s[4][1] # "digit" /\ s[1] # <<"LF", 2>> /\ s[2] # <<"LF", 2>>
        /\ s[3] # <<"LF", 2>> /\ s[4] # <<"LF", 2>>
    BY <1>1
  <2>2. \A k \in 1 .. 4 : k = 1 \/ k = 2 \/ k = 3 \/ k = 4
    OBVIOUS
  <2>3. QED
    BY <2>1, <2>2
<1>3. s \in Seq(Pieces) /\ EndOfHeader \in Seq(Pieces)
  BY <1>1, EndPieces
<1>4. NotFoundHeader = s \o EndOfHeader
  BY DEF NotFoundHeader
<1> HIDE DEF s
<1>5. /\ NotFoundHeader \in Seq(Pieces) /\ Len(NotFoundHeader) = Len(s) + e
      /\ \A k \in 1 .. Len(s) : NotFoundHeader[k] = s[k]
      /\ \A k \in 1 .. e : NotFoundHeader[Len(s) + k] = EndOfHeader[k]
  BY <1>3, <1>4, Joined
<1>6. e = (IF Spaced THEN 5 ELSE 4) /\ e \in Nat
  BY EndPieces
<1>7. \A k \in 1 .. e : EndOfHeader[k][1] # "digit"
                        /\ (EndOfHeader[k] = <<"LF", 2>> => k = e)
  BY EndPieces
<1> HIDE DEF e
<1>8. ASSUME NEW k \in 1 .. Len(NotFoundHeader)
      PROVE  /\ NotFoundHeader[k][1] # "digit"
             /\ NotFoundHeader[k] = <<"LF", 2>> => k = Len(NotFoundHeader)
  <2>1. CASE k \in 1 .. 4
    BY <1>1, <1>2, <1>5, <2>1
  <2>2. CASE k \notin 1 .. 4
    <3>1. k - 4 \in 1 .. e /\ 4 + (k - 4) = k /\ (k - 4 = e => k = 4 + e)
      BY <1>1, <1>5, <1>6, <2>2
    <3>2. NotFoundHeader[k] = EndOfHeader[k - 4]
      BY <1>1, <1>5, <3>1
    <3>3. QED
      BY <1>1, <1>5, <1>7, <3>1, <3>2
  <2>3. QED
    BY <2>1, <2>2
<1>9. NotFoundHeader[4] = <<"FILE_NOT_FOUND", 0>>
  BY <1>1, <1>5
<1>10. QED
  BY <1>1, <1>5, <1>6, <1>8, <1>9

\* A header, and piece k of what the server sends for a path: the header, then
\* the bytes of the file.
HeaderOf(found) == IF found THEN OkHeader ELSE NotFoundHeader

PieceOf(p, found, k) ==
    IF k <= Len(HeaderOf(found)) THEN HeaderOf(found)[k]
    ELSE <<p, k - Len(HeaderOf(found))>>

SomePaths == {"none", "path", "prefix"}

LEMMA HeaderPieces ==
    \A found \in BOOLEAN :
      /\ HeaderOf(found) \in Seq(Pieces)
      /\ Len(HeaderOf(found)) \in Nat /\ Len(HeaderOf(found)) >= 8
      /\ found => Len(HeaderOf(found)) >= LastDigit + 4
      /\ found /\ ~Spaced => Len(HeaderOf(found)) = LastDigit + 4
<1> SUFFICES ASSUME NEW found \in BOOLEAN
             PROVE  /\ HeaderOf(found) \in Seq(Pieces)
                    /\ Len(HeaderOf(found)) \in Nat /\ Len(HeaderOf(found)) >= 8
                    /\ found => Len(HeaderOf(found)) >= LastDigit + 4
                    /\ found /\ ~Spaced => Len(HeaderOf(found)) = LastDigit + 4
    OBVIOUS
<1> DEFINE h == HeaderOf(found)
<1>1. CASE found
  <2>1. h = OkHeader
    BY <1>1 DEF HeaderOf
  <2>2. /\ h \in Seq(Pieces) /\ LastDigit \in {5, 6}
        /\ Len(h) = LastDigit + IF Spaced THEN 5 ELSE 4
    BY <2>1, OkHeaderPieces
  <2> HIDE DEF h
  <2>3. Len(h) \in Nat /\ Len(h) >= LastDigit + 4 /\ Len(h) >= 8
        /\ (~Spaced => Len(h) = LastDigit + 4)
    BY <2>2
  <2>4. QED
    BY <1>1, <2>2, <2>3 DEF h
<1>2. CASE ~found
  <2>1. h = NotFoundHeader
    BY <1>2 DEF HeaderOf
  <2>2. h \in Seq(Pieces) /\ Len(h) = 4 + IF Spaced THEN 5 ELSE 4
    BY <2>1, NotFoundPieces
  <2> HIDE DEF h
  <2>3. Len(h) \in Nat /\ Len(h) >= 8
    BY <2>2
  <2>4. QED
    BY <1>2, <2>2, <2>3 DEF h
<1>3. QED
  BY <1>1, <1>2

\* What one piece says.
IsPieceOf(x, p, found, k) ==
    /\ x \in Pieces
    /\ x = <<"LF", 2>> => k = Len(HeaderOf(found))
    /\ x[1] = "digit" <=> found /\ k \in 5 .. LastDigit
    /\ x[1] = "digit" => x[2] \in 0 .. FileLength

LEMMA EachPiece ==
    \A p \in SomePaths, found \in BOOLEAN, k \in Nat \ {0} :
      IsPieceOf(PieceOf(p, found, k), p, found, k)
<1> SUFFICES ASSUME NEW p \in SomePaths, NEW found \in BOOLEAN, NEW k \in Nat \ {0}
             PROVE  IsPieceOf(PieceOf(p, found, k), p, found, k)
    OBVIOUS
<1> DEFINE h == HeaderOf(found)
           x == PieceOf(p, found, k)
<1>1. h \in Seq(Pieces) /\ Len(h) \in Nat
  BY HeaderPieces
<1>2. CASE k <= Len(h)
  <2>0. k \in 1 .. Len(h)
    <3> HIDE DEF h
    <3>1. QED
      BY <1>1, <1>2
  <2>1. x = h[k] /\ k \in 1 .. Len(h)
    BY <1>2, <2>0 DEF PieceOf
  <2>2. x \in Pieces
    BY <1>1, <2>1
  <2>3. CASE found
    <3>1. h = OkHeader
      BY <2>3 DEF HeaderOf
    <3>2. /\ x[1] = "digit" <=> k \in 5 .. LastDigit
          /\ k \in 5 .. LastDigit => x[2] \in 0 .. FileLength
          /\ x = <<"LF", 2>> => k = Len(h)
      BY <2>1, <3>1, OkHeaderPieces
    <3> HIDE DEF h, x
    <3>3. QED
      BY <2>2, <2>3, <3>2 DEF IsPieceOf, h, x
  <2>4. CASE ~found
    <3>1. h = NotFoundHeader
      BY <2>4 DEF HeaderOf
    <3>2. x[1] # "digit" /\ (x = <<"LF", 2>> => k = Len(h))
      BY <2>1, <3>1, NotFoundPieces
    <3>3. QED
      BY <2>2, <2>4, <3>2 DEF IsPieceOf
  <2>5. QED
    BY <2>3, <2>4
<1>3. CASE ~(k <= Len(h))
  <2>1. x = <<p, k - Len(h)>> /\ k - Len(h) \in Int
    BY <1>1, <1>3 DEF PieceOf
  <2>2. p \in Tags /\ p # "digit" /\ p # "LF"
    BY DEF SomePaths, Tags
  <2>3. x \in Pieces
    BY <2>1, <2>2, PieceType, Zenon
  <2>4. x[1] # "digit" /\ x # <<"LF", 2>>
    BY <2>1, <2>2
  <2>5. found => LastDigit < k
    <3>1. found => Len(h) >= LastDigit + 4
      BY HeaderPieces
    <3>2. LastDigit \in {5, 6}
      BY OkHeaderPieces
    <3> HIDE DEF h
    <3>3. QED
      BY <1>1, <1>3, <3>1, <3>2
  <2>6. ~(found /\ k \in 5 .. LastDigit)
    BY <2>5, OkHeaderPieces
  <2>7. QED
    BY <2>3, <2>4, <2>6 DEF IsPieceOf
<1>4. QED
  BY <1>2, <1>3

LEMMA CertainPieces ==
    \A p \in SomePaths, found \in BOOLEAN :
      /\ PieceOf(p, found, 4) =
           IF found THEN <<"OK", 0>> ELSE <<"FILE_NOT_FOUND", 0>>
      /\ found => PieceOf(p, found, LastDigit) = <<"digit", FileLength>>
      /\ \A k \in Nat \ {0} : PieceOf(p, found, Len(HeaderOf(found)) + k) = <<p, k>>
<1> SUFFICES ASSUME NEW p \in SomePaths, NEW found \in BOOLEAN
             PROVE  /\ PieceOf(p, found, 4) =
                         IF found THEN <<"OK", 0>> ELSE <<"FILE_NOT_FOUND", 0>>
                    /\ found => PieceOf(p, found, LastDigit) = <<"digit", FileLength>>
                    /\ \A k \in Nat \ {0} :
                         PieceOf(p, found, Len(HeaderOf(found)) + k) = <<p, k>>
    OBVIOUS
<1>1. Len(HeaderOf(found)) \in Nat /\ Len(HeaderOf(found)) >= 8
  BY HeaderPieces
<1>2. PieceOf(p, found, 4) = HeaderOf(found)[4]
  BY <1>1 DEF PieceOf
<1>3. HeaderOf(found)[4] = IF found THEN <<"OK", 0>> ELSE <<"FILE_NOT_FOUND", 0>>
  BY OkHeaderPieces, NotFoundPieces DEF HeaderOf
<1>4. ASSUME found
      PROVE  PieceOf(p, found, LastDigit) = <<"digit", FileLength>>
  <2>1. LastDigit <= Len(HeaderOf(found))
    <3>1. Len(HeaderOf(found)) >= LastDigit + 4
      BY <1>4, HeaderPieces
    <3>2. LastDigit \in {5, 6}
      BY OkHeaderPieces
    <3>3. QED
      BY <1>1, <3>1, <3>2
  <2>2. PieceOf(p, found, LastDigit) = HeaderOf(found)[LastDigit]
    BY <2>1 DEF PieceOf
  <2>3. HeaderOf(found) = OkHeader
    BY <1>4 DEF HeaderOf
  <2>4. QED
    BY <2>2, <2>3, OkHeaderPieces
<1>5. ASSUME NEW k \in Nat \ {0}
      PROVE  PieceOf(p, found, Len(HeaderOf(found)) + k) = <<p, k>>
  <2>1. /\ ~(Len(HeaderOf(found)) + k <= Len(HeaderOf(found)))
        /\ (Len(HeaderOf(found)) + k) - Len(HeaderOf(found)) = k
    BY <1>1
  <2>2. QED
    BY <2>1 DEF PieceOf
<1>6. QED
  BY <1>2, <1>3, <1>4, <1>5

\* A sequence of the first n pieces of what the server sends.
IsStartOf(q, p, found, n) ==
    /\ q \in Seq(Pieces) /\ Len(q) = n
    /\ \A k \in 1 .. n : q[k] = PieceOf(p, found, k)

\* The last digit received is a digit.
LEMMA LastOfDigits ==
    ASSUME NEW p \in SomePaths, NEW found \in BOOLEAN, NEW n \in Nat \ {0},
           NEW q, IsStartOf(q, p, found, n), Digits(q) # {},
           NEW d, d = CHOOSE m \in Digits(q) : \A e \in Digits(q) : e <= m
    PROVE  /\ d \in 1 .. n /\ d \in 5 .. LastDigit /\ found
           /\ q[d][2] \in 0 .. FileLength
           /\ LastDigit <= n => d = LastDigit
<1>1. LastDigit \in {5, 6}
  BY OkHeaderPieces
<1>2. \A k \in Digits(q) :
        k \in 1 .. n /\ k \in 5 .. LastDigit /\ found /\ q[k][2] \in 0 .. FileLength
  <2> SUFFICES ASSUME NEW k \in Digits(q)
               PROVE  k \in 1 .. n /\ k \in 5 .. LastDigit /\ found
                      /\ q[k][2] \in 0 .. FileLength
      OBVIOUS
  <2>1. k \in 1 .. n /\ q[k][1] = "digit" /\ q[k] = PieceOf(p, found, k)
    BY DEF Digits, IsStartOf
  <2>2. k \in Nat \ {0}
    BY <2>1
  <2>3. IsPieceOf(q[k], p, found, k)
    BY <2>1, <2>2, EachPiece
  <2>4. QED
    BY <2>1, <2>3 DEF IsPieceOf
<1>3. LastDigit <= n => LastDigit \in Digits(q)
  <2> SUFFICES ASSUME LastDigit <= n PROVE LastDigit \in Digits(q)
      OBVIOUS
  <2>1. found
    BY <1>2
  <2>2. LastDigit \in 1 .. n
    BY <1>1
  <2>3. q[LastDigit] = <<"digit", FileLength>>
    BY <2>1, <2>2, CertainPieces DEF IsStartOf
  <2>4. QED
    BY <2>2, <2>3 DEF Digits, IsStartOf
<1>4. \E m \in Digits(q) : \A e \in Digits(q) : e <= m
  <2>1. CASE 6 \in Digits(q)
    <3>1. \A e \in Digits(q) : e <= 6
      BY <1>1, <1>2
    <3>2. QED
      BY <2>1, <3>1
  <2>2. CASE 6 \notin Digits(q)
    <3>1. \A e \in Digits(q) : e = 5
      BY <1>1, <1>2, <2>2
    <3>2. QED
      BY <3>1
  <2>3. QED
    BY <2>1, <2>2
<1>5. d \in Digits(q) /\ \A e \in Digits(q) : e <= d
  BY <1>4
<1>6. ASSUME LastDigit <= n PROVE d = LastDigit
  BY <1>1, <1>2, <1>3, <1>5, <1>6
<1>7. QED
  BY <1>2, <1>5, <1>6

\* What the client may conclude from the pieces it was given: the types; that
\* only a short one is refused; and, once the header is whole, what it says.
SoundResult(r, p, found, n) ==
    /\ r.ret \in {"fail", "crash", "go on"}
    /\ r.status \in Statuses /\ r.filelen \in 0 .. FileLength
    /\ r.data \in Seq(Pieces)
    /\ r.ret = "fail" => n < 4
    /\ r.status = "FILE_NOT_FOUND" => r.data = << >>

WholeOK(r, p, n) ==
    /\ r.status = "OK" /\ r.filelen = FileLength
    /\ r.ret = "go on"
    /\ Len(r.data) = n - (LastDigit + 4)
    /\ \A k \in 1 .. Len(r.data) : r.data[k] = <<p, k>>

WholeResult(r, p, found, n) ==
    n >= Len(HeaderOf(found)) =>
      IF found THEN r.status = "OK" /\ (~Spaced => WholeOK(r, p, n))
      ELSE /\ r.status = "FILE_NOT_FOUND" /\ r.ret = "go on"
           /\ r.filelen = 0 /\ r.data = << >>

IsResult(r, ret, s, len, data) ==
    r.ret = ret /\ r.status = s /\ r.filelen = len /\ r.data = data

LEMMA ResultFields ==
    \A a, b, c, d : IsResult(Result(a, b, c, d), a, b, c, d)
BY DEF Result, IsResult

LEMMA NoLengthResult ==
    \A s \in Statuses \cup {"OK"} :
      /\ NoLength(s).ret = "go on" /\ NoLength(s).status = s
      /\ NoLength(s).filelen = 0 /\ NoLength(s).data \in Seq(Pieces)
      /\ s # "OK" => NoLength(s).data = << >>
<1>1. <<Piece("header text")>> \in Seq(Pieces)
  <2>1. "header text" \in Tags /\ 0 \in Int
    BY DEF Tags
  <2>2. Piece("header text") \in Pieces
    BY <2>1, PieceType, Zenon DEF Piece
  <2>3. \A x \in Pieces : <<x>> \in Seq(Pieces)
    OBVIOUS
  <2>4. QED
    BY <2>2, <2>3, Zenon
<1>2. << >> \in Seq(Pieces)
  OBVIOUS
<1>3. ASSUME NEW s \in Statuses \cup {"OK"}
      PROVE  /\ NoLength(s).ret = "go on" /\ NoLength(s).status = s
             /\ NoLength(s).filelen = 0 /\ NoLength(s).data \in Seq(Pieces)
             /\ s # "OK" => NoLength(s).data = << >>
  <2>1. CASE s = "OK"
    <3>1. NoLength(s) = Result("go on", s, 0, <<Piece("header text")>>)
      BY <2>1 DEF NoLength
    <3>2. IsResult(NoLength(s), "go on", s, 0, <<Piece("header text")>>)
      BY <3>1, ResultFields
    <3>3. QED
      BY <1>1, <2>1, <3>2, Zenon DEF IsResult
  <2>2. CASE s # "OK"
    <3>1. NoLength(s) = Result("go on", s, 0, << >>)
      BY <2>2 DEF NoLength
    <3>2. IsResult(NoLength(s), "go on", s, 0, << >>)
      BY <3>1, ResultFields
    <3>3. QED
      BY <1>2, <2>2, <3>2, Zenon DEF IsResult
  <2>3. QED
    BY <2>1, <2>2
<1>4. QED
  BY <1>3

LEMMA AfterLengthResult ==
    ASSUME NEW p \in SomePaths, NEW found \in BOOLEAN, NEW n \in Nat \ {0},
           NEW q, IsStartOf(q, p, found, n), found,
           NEW d, d \in 1 .. n, d \in 5 .. LastDigit,
           q[d][2] \in 0 .. FileLength, LastDigit <= n => d = LastDigit,
           NEW r, r = AfterLength(q, d), n >= 4
    PROVE  SoundResult(r, p, found, n) /\ WholeResult(r, p, found, n)
<1> DEFINE h == Len(HeaderOf(found))
<1>1. q \in Seq(Pieces) /\ Len(q) = n /\ LastDigit \in {5, 6} /\ d \in Int
  BY OkHeaderPieces DEF IsStartOf
<1>2. << >> \in Seq(Pieces) /\ Len(<< >>) = 0
  OBVIOUS
<1>3. /\ h >= LastDigit + 4
      /\ ~Spaced => h = LastDigit + 4
      /\ h \in Nat
  BY HeaderPieces
<1> HIDE DEF h
<1>4. CASE n - d = 0
  <2>1. r = Result("go on", "OK", q[d][2], << >>)
    BY <1>1, <1>4 DEF AfterLength
  <2>2. ~(n >= h)
    <3>1. d <= LastDigit
      BY <1>1
    <3>2. QED
      BY <1>1, <1>3, <1>4, <3>1
  <2>3. r.ret = "go on" /\ r.status = "OK" /\ r.filelen = q[d][2] /\ r.data = << >>
    <3>1. IsResult(r, "go on", "OK", q[d][2], << >>)
      BY <2>1, ResultFields
    <3>2. QED
      BY <3>1, Zenon DEF IsResult
  <2>4. QED
    BY <1>2, <2>2, <2>3 DEF SoundResult, WholeResult, Statuses, h
<1>5. CASE n - d # 0 /\ n - d < 4
  <2>1. r = Result("crash", "OK", 0, << >>)
    BY <1>1, <1>5 DEF AfterLength, Crash
  <2>2. ~(n >= h)
    <3>1. d <= LastDigit
      BY <1>1
    <3>2. QED
      BY <1>1, <1>3, <1>5, <3>1
  <2>3. r.ret = "crash" /\ r.status = "OK" /\ r.filelen = 0 /\ r.data = << >>
    <3>1. IsResult(r, "crash", "OK", 0, << >>)
      BY <2>1, ResultFields
    <3>2. QED
      BY <3>1, Zenon DEF IsResult
  <2>4. 0 \in 0 .. FileLength
    BY LengthAssumption
  <2>5. QED
    BY <1>2, <2>2, <2>3, <2>4 DEF SoundResult, WholeResult, Statuses, h
<1>6. CASE n - d # 0 /\ ~(n - d < 4)
  <2>1. r = Result("go on", "OK", q[d][2], SubSeq(q, d + 5, Len(q)))
    BY <1>1, <1>6 DEF AfterLength
  <2>2. d + 4 \in 0 .. Len(q) /\ (d + 4) + 1 = d + 5
    BY <1>1, <1>6
  <2> DEFINE x == SubSeq(q, d + 5, Len(q))
  <2>3. /\ SubSeq(q, (d + 4) + 1, Len(q)) \in Seq(Pieces)
        /\ Len(SubSeq(q, (d + 4) + 1, Len(q))) = Len(q) - (d + 4)
        /\ \A k \in 1 .. Len(q) - (d + 4) :
             /\ SubSeq(q, (d + 4) + 1, Len(q))[k] = q[(d + 4) + k]
             /\ (d + 4) + k \in 1 .. Len(q)
    BY <1>1, <2>2, OtherPart
  <2>4. /\ x \in Seq(Pieces) /\ Len(x) = Len(q) - (d + 4)
        /\ \A k \in 1 .. Len(q) - (d + 4) :
             x[k] = q[(d + 4) + k] /\ (d + 4) + k \in 1 .. Len(q)
    BY <2>2, <2>3, Zenon
  <2>5. r.ret = "go on" /\ r.status = "OK" /\ r.filelen = q[d][2] /\ r.data = x
    <3>1. IsResult(r, "go on", "OK", q[d][2], x)
      BY <2>1, ResultFields
    <3>2. QED
      BY <3>1, Zenon DEF IsResult
  <2> HIDE DEF x
  <2>6. SoundResult(r, p, found, n)
    BY <2>4, <2>5 DEF SoundResult, Statuses
  <2>7. ASSUME ~Spaced, n >= h
        PROVE  WholeOK(r, p, n)
    <3>1. d = LastDigit
      BY <1>1, <1>3, <2>7
    <3>2. q[d] = <<"digit", FileLength>>
      BY <3>1, CertainPieces DEF IsStartOf
    <3>3. r.filelen = FileLength
      <4>1. <<"digit", FileLength>>[2] = FileLength
        OBVIOUS
      <4>2. QED
        BY <2>5, <3>2, <4>1, Zenon
    <3>4. Len(r.data) = n - (LastDigit + 4)
      BY <1>1, <2>4, <2>5, <3>1
    <3>5. ASSUME NEW k \in 1 .. Len(r.data)
          PROVE  r.data[k] = <<p, k>>
      <4>1. k \in 1 .. Len(q) - (d + 4) /\ d + 4 = LastDigit + 4
        BY <1>1, <3>1, <3>4
      <4>2. r.data[k] = q[(d + 4) + k] /\ (d + 4) + k \in 1 .. n
        BY <1>1, <2>4, <2>5, <4>1
      <4>3. d + 4 = h /\ k \in Nat \ {0}
        BY <1>3, <2>7, <4>1
      <4>4. q[(d + 4) + k] = PieceOf(p, found, h + k)
        BY <4>2, <4>3 DEF IsStartOf
      <4>5. QED
        BY <4>2, <4>3, <4>4, CertainPieces DEF h
    <3>6. QED
      BY <2>5, <3>3, <3>4, <3>5 DEF WholeOK
  <2>8. QED
    BY <2>5, <2>6, <2>7 DEF WholeResult, h
<1>7. QED
  BY <1>4, <1>5, <1>6

LEMMA Parsed ==
    ASSUME NEW p \in SomePaths, NEW found \in BOOLEAN, NEW n \in Nat \ {0},
           NEW q, IsStartOf(q, p, found, n), NEW r \in ParseHeader(q)
    PROVE  SoundResult(r, p, found, n) /\ WholeResult(r, p, found, n)
<1>1. q \in Seq(Pieces) /\ Len(q) = n
  BY DEF IsStartOf
<1>2. << >> \in Seq(Pieces) /\ 0 \in 0 .. FileLength
  BY LengthAssumption
<1>3. Len(HeaderOf(found)) >= 8 /\ Len(HeaderOf(found)) \in Nat
  BY HeaderPieces
<1>4. ASSUME r = Invalid, n < 4
      PROVE  SoundResult(r, p, found, n) /\ WholeResult(r, p, found, n)
  <2>1. r.ret = "fail" /\ r.status = "INVALID" /\ r.filelen = 0 /\ r.data = << >>
    BY <1>4 DEF Invalid, Result
  <2>2. ~(n >= Len(HeaderOf(found)))
    BY <1>3, <1>4
  <2>3. QED
    BY <1>2, <1>4, <2>1, <2>2 DEF SoundResult, WholeResult, Statuses
<1>5. CASE n \in {1, 3}
  <2>1. r = Invalid
    BY <1>1, <1>5 DEF ParseHeader
  <2>2. QED
    BY <1>4, <1>5, <2>1
<1>6. CASE n = 2
  <2>1. r = Invalid \/ \E s \in {"OK", "FILE_NOT_FOUND", "ERROR"} : r = NoLength(s)
    BY <1>1, <1>6 DEF ParseHeader
  <2>2. ASSUME NEW s \in {"OK", "FILE_NOT_FOUND", "ERROR"}, r = NoLength(s)
        PROVE  SoundResult(r, p, found, n) /\ WholeResult(r, p, found, n)
    <3>1. s \in Statuses
      BY DEF Statuses
    <3>2. ~(n >= Len(HeaderOf(found)))
      BY <1>3, <1>6
    <3>3. QED
      BY <1>2, <2>2, <3>1, <3>2, NoLengthResult DEF SoundResult, WholeResult
  <2>3. QED
    BY <1>4, <1>6, <2>1, <2>2
<1>7. CASE n \notin {1, 2, 3}
  <2>1. n >= 4 /\ 4 \in 1 .. n
    BY <1>7
  <2>2. q[4] = IF found THEN <<"OK", 0>> ELSE <<"FILE_NOT_FOUND", 0>>
    BY <2>1, CertainPieces DEF IsStartOf
  <2>3. q[4][1] \in Statuses
    BY <2>2 DEF Statuses
  <2>4. CASE q[4] # Piece("OK") \/ Digits(q) = {}
    <3>1. r = NoLength(q[4][1])
      BY <1>1, <1>7, <2>4 DEF ParseHeader
    <3>2. SoundResult(r, p, found, n)
      BY <1>2, <2>1, <2>3, <3>1, NoLengthResult DEF SoundResult
    <3>3. CASE found
      <4>1. q[4] = Piece("OK") /\ Digits(q) = {}
        BY <2>2, <2>4, <3>3 DEF Piece
      <4>2. ~(n >= Len(HeaderOf(found)))
        <5>1. SUFFICES ASSUME n >= Len(HeaderOf(found)) PROVE FALSE
          OBVIOUS
        <5>2. Len(HeaderOf(found)) >= LastDigit + 4
          BY <3>3, HeaderPieces
        <5>3. LastDigit \in {5, 6}
          BY OkHeaderPieces
        <5>4. LastDigit \in 1 .. n
          BY <1>3, <5>1, <5>2, <5>3
        <5>5. q[LastDigit] = <<"digit", FileLength>>
          BY <3>3, <5>4, CertainPieces DEF IsStartOf
        <5>6. LastDigit \in Digits(q)
          BY <1>1, <5>4, <5>5 DEF Digits
        <5>7. QED
          BY <4>1, <5>6
      <4>3. QED
        BY <3>2, <4>2 DEF WholeResult
    <3>4. CASE ~found
      <4>1. r = NoLength("FILE_NOT_FOUND")
        BY <2>2, <3>1, <3>4
      <4>2. "FILE_NOT_FOUND" \in Statuses
        BY DEF Statuses
      <4>3. r.status = "FILE_NOT_FOUND" /\ r.ret = "go on" /\ r.filelen = 0
            /\ r.data = << >>
        BY <4>1, <4>2, NoLengthResult
      <4>4. QED
        BY <3>2, <3>4, <4>3 DEF WholeResult
    <3>5. QED
      BY <3>3, <3>4
  <2>5. CASE ~(q[4] # Piece("OK") \/ Digits(q) = {})
    <3> DEFINE d == CHOOSE m \in Digits(q) : \A e \in Digits(q) : e <= m
    <3>1. r = AfterLength(q, d)
      BY <1>1, <1>7, <2>5 DEF ParseHeader
    <3>2. /\ d \in 1 .. n /\ d \in 5 .. LastDigit /\ found
          /\ q[d][2] \in 0 .. FileLength
          /\ LastDigit <= n => d = LastDigit
      BY <2>5, LastOfDigits
    <3> HIDE DEF d
    <3>3. QED
      BY <2>1, <3>1, <3>2, AfterLengthResult
  <2>6. QED
    BY <2>4, <2>5
<1>8. QED
  BY <1>5, <1>6, <1>7

-----------------------------------------------------------------------------
(***************************************************************************)
(* The invariant.                                                          *)
(***************************************************************************)
Header == HeaderOf(path \in content)
At(k)  == PieceOf(path, path \in content, k)

Before == {"accept", "recv", "refuse", "handle"}

\* Until the client has a header, what is on its way is a beginning of what
\* the server sends, and all it has sent while it goes on sending.
HeadOK ==
    /\ \A k \in 1 .. Len(wire) : wire[k] = At(k)
    /\ Len(wire) <= Len(Header) + offset
    /\ server = "send" /\ conn = "open" => Len(wire) = Len(Header) + offset

\* After a whole header, what was written and what is on its way are
\* consecutive parts of the file.
CopyOK ==
    /\ status = "OK"
    /\ filelen = FileLength
    /\ bytes = Len(written)
    /\ bytes + Len(wire) <= offset
    /\ \A k \in 1 .. bytes : written[k] = <<path, k>>
    /\ \A k \in 1 .. Len(wire) : wire[k] = <<path, bytes + k>>
    /\ client = "body" /\ server = "send" /\ conn = "open" =>
          bytes + Len(wire) = offset
    /\ client = "closed" /\ rc = 0 => bytes >= FileLength

RefusedOK ==
    /\ status = "FILE_NOT_FOUND"
    /\ filelen = 0
    /\ bytes = 0
    /\ written = << >>
    /\ wire = << >>

\* After a whole header, of either kind.
BodyOK ==
    IF path \in content
    THEN status # "FILE_NOT_FOUND" /\ (~Spaced => CopyOK)
    ELSE RefusedOK

\* What the server has done so far.
ServerOK ==
    /\ server \in Before => wire = << >> /\ offset = 0 /\ ~wholeHeader
    /\ server = "refuse" => path = "none"
    /\ server = "send" => path \in content
    /\ path \notin content => offset = 0
    /\ conn = "closed" => server \in {"returned", "crashed"}
    /\ wholeRequest => path = "path"

ClientOK ==
    /\ client \in {"connect", "send", "header"} => HeadOK /\ ~wholeHeader
    /\ client \in {"body", "closed"} /\ wholeHeader => BodyOK

\* Whatever was cut, no data came with a refusal, and none follows it.
RefusedNothing == status = "FILE_NOT_FOUND" => written = << >>

Words == {"GET", "FILE", "GE", "T", "pa", "th", "end"}

ExchangeInv ==
    /\ TypeOK
    /\ wire \in Seq(Pieces) /\ written \in Seq(Pieces) /\ request \in Seq(Words)
    /\ ServerOK
    /\ ClientOK
    /\ RefusedNothing

-----------------------------------------------------------------------------
(***************************************************************************)
(* Steps of the server and of the network.                                 *)
(***************************************************************************)
LEMMA FileBytesPieces ==
    ASSUME NEW p \in SomePaths, NEW a \in Nat, NEW b \in Nat, a <= b
    PROVE  /\ FileBytes(p, a + 1, b) \in Seq(Pieces)
           /\ Len(FileBytes(p, a + 1, b)) = b - a
           /\ \A k \in 1 .. b - a : FileBytes(p, a + 1, b)[k] = <<p, a + k>>
<1> DEFINE n == b - (a + 1) + 1
           f == [k \in 1 .. n |-> <<p, (a + 1) + k - 1>>]
<1>1. n \in Nat /\ n = b - a
  OBVIOUS
<1>2. \A k \in 1 .. n : (a + 1) + k - 1 = a + k /\ a + k \in Int
  OBVIOUS
<1>3. p \in Tags
  BY DEF SomePaths, Tags
<1>4. \A k \in 1 .. n : f[k] = <<p, a + k>> /\ f[k] \in Pieces
  BY <1>2, <1>3, PieceType
<1>5. f \in [1 .. n -> Pieces]
  BY <1>4
<1>6. f = FileBytes(p, a + 1, b)
  BY DEF FileBytes
<1>7. DOMAIN f = 1 .. n
  OBVIOUS
<1> HIDE DEF f, n
<1>8. f \in Seq(Pieces) /\ Len(f) = n
  BY <1>1, <1>5, <1>7
<1>9. QED
  BY <1>1, <1>4, <1>6, <1>8

\* What is on its way is kept, or its end is lost.
CutWire == wire' = wire \/ \E m \in 0 .. Len(wire) : wire' = SubSeq(wire, 1, m)

LEMMA CutWirePieces ==
    ASSUME wire \in Seq(Pieces), CutWire
    PROVE  /\ wire' \in Seq(Pieces) /\ Len(wire') \in Nat /\ Len(wire) \in Nat
           /\ Len(wire') <= Len(wire)
           /\ \A k \in 1 .. Len(wire') : wire'[k] = wire[k] /\ k \in 1 .. Len(wire)
           /\ wire = << >> => wire' = << >>
<1>1. Len(wire) \in Nat /\ (wire = << >> => Len(wire) = 0)
  OBVIOUS
<1>2. CASE wire' = wire
  BY <1>1, <1>2
<1>3. ASSUME NEW m \in 0 .. Len(wire), wire' = SubSeq(wire, 1, m)
      PROVE  /\ wire' \in Seq(Pieces) /\ Len(wire') = m
             /\ \A k \in 1 .. m : wire'[k] = wire[k]
             /\ wire = << >> => wire' = << >>
  <2>1. /\ wire' \in Seq(Pieces) /\ Len(wire') = m
        /\ \A k \in 1 .. m : wire'[k] = wire[k]
    BY <1>3, FirstPart
  <2>2. wire = << >> => m = 0
    BY <1>1
  <2>3. QED
    BY <2>1, <2>2
<1>4. CASE \E m \in 0 .. Len(wire) : wire' = SubSeq(wire, 1, m)
  <2>1. PICK m \in 0 .. Len(wire) : wire' = SubSeq(wire, 1, m)
    BY <1>4
  <2>2. /\ wire' \in Seq(Pieces) /\ Len(wire') = m
        /\ \A k \in 1 .. m : wire'[k] = wire[k]
        /\ wire = << >> => wire' = << >>
    BY <1>3, <2>1
  <2>3. \A k \in 1 .. m : k \in 1 .. Len(wire)
    BY <1>1
  <2>4. QED
    BY <1>1, <2>2, <2>3
<1>5. QED
  BY <1>2, <1>4 DEF CutWire

SameClient == UNCHANGED <<client, rc, status, filelen, bytes, written,
                          path, content, wholeHeader>>

\* Nothing is added to what the client may still receive.
Silent ==
    /\ offset' \in 0 .. FileLength /\ offset' >= offset
    /\ server' = "send" /\ conn' = "open" =>
          \/ client \in {"closed", "crashed"}
          \/ UNCHANGED <<server, conn, wire, offset>>

LEMMA SilentStep ==
    ASSUME ExchangeInv, SameClient, CutWire, Silent,
           path' \notin content' => offset' = 0
    PROVE  wire' \in Seq(Pieces) /\ ClientOK'
<1>1. /\ wire' \in Seq(Pieces) /\ Len(wire') \in Nat /\ Len(wire) \in Nat
      /\ Len(wire') <= Len(wire)
      /\ \A k \in 1 .. Len(wire') : wire'[k] = wire[k] /\ k \in 1 .. Len(wire)
      /\ wire = << >> => wire' = << >>
  BY CutWirePieces DEF ExchangeInv
<1>2. offset \in Nat /\ offset' \in Nat /\ bytes \in Nat
  BY LengthAssumption DEF ExchangeInv, TypeOK, Silent
<1>3. ASSUME client' \in {"connect", "send", "header"}
      PROVE  HeadOK' /\ ~wholeHeader'
  <2>1. HeadOK /\ ~wholeHeader' /\ client \notin {"closed", "crashed"}
    BY <1>3 DEF ExchangeInv, ClientOK, SameClient
  <2>2. Header' = Header /\ \A k : At(k)' = At(k)
    BY DEF SameClient, Header, At
  <2>3. Len(Header) \in Nat
    BY HeaderPieces DEF Header
  <2>4. \A k \in 1 .. Len(wire') : wire'[k] = At(k)'
    BY <1>1, <2>1, <2>2 DEF HeadOK
  <2>5. Len(wire') <= Len(Header) + offset'
    BY <1>1, <1>2, <2>1, <2>3 DEF HeadOK, Silent
  <2>6. server' = "send" /\ conn' = "open" => Len(wire') = Len(Header) + offset'
    BY <2>1 DEF HeadOK, Silent
  <2>7. QED
    BY <2>1, <2>2, <2>4, <2>5, <2>6 DEF HeadOK
<1>4. ASSUME client' \in {"body", "closed"}, wholeHeader'
      PROVE  BodyOK'
  <2>1. BodyOK
    BY <1>4 DEF ExchangeInv, ClientOK, SameClient
  <2>2. ASSUME CopyOK PROVE CopyOK'
    <3>1. bytes' + Len(wire') <= offset'
      BY <1>1, <1>2, <2>2 DEF CopyOK, Silent, SameClient
    <3>2. \A k \in 1 .. Len(wire') : wire'[k] = <<path', bytes' + k>>
      BY <1>1, <2>2 DEF CopyOK, SameClient
    <3>3. client' = "body" /\ server' = "send" /\ conn' = "open" =>
            bytes' + Len(wire') = offset'
      BY <2>2 DEF CopyOK, Silent, SameClient
    <3>4. QED
      BY <2>2, <3>1, <3>2, <3>3 DEF CopyOK, SameClient
  <2>3. ASSUME RefusedOK PROVE RefusedOK'
    BY <1>1, <2>3 DEF RefusedOK, SameClient
  <2>4. QED
    BY <2>1, <2>2, <2>3 DEF BodyOK, SameClient
<1>5. QED
  BY <1>1, <1>3, <1>4 DEF ClientOK

\* Before the server has sent anything.
LEMMA NothingSent ==
    ASSUME wire' = << >>, offset' \in Nat, ~wholeHeader', server' # "send"
    PROVE  ClientOK' /\ wire' \in Seq(Pieces)
<1>1. wire' \in Seq(Pieces) /\ Len(wire') = 0 /\ 1 .. Len(wire') = {}
  <2>1. << >> \in Seq(Pieces) /\ Len(<< >>) = 0 /\ 1 .. 0 = {}
    OBVIOUS
  <2>2. QED
    BY <2>1, Zenon
<1>2. Len(Header') \in Nat
  BY HeaderPieces DEF Header
<1>3. HeadOK'
  BY <1>1, <1>2 DEF HeadOK
<1>4. QED
  BY <1>1, <1>3 DEF ClientOK

\* The header of this exchange.
LEMMA ThisHeader ==
    ASSUME path \in SomePaths
    PROVE  /\ Header \in Seq(Pieces) /\ Len(Header) \in Nat
           /\ Len(Header) >= 8
           /\ path \in content /\ ~Spaced => Len(Header) = LastDigit + 4
           /\ \A k \in Nat \ {0} : At(Len(Header) + k) = <<path, k>>
<1>0. \E f \in BOOLEAN : f = (path \in content)
  <2>1. CASE path \in content
    <3>1. TRUE \in BOOLEAN /\ TRUE = (path \in content)
      BY <2>1
    <3>2. QED
      BY <3>1, Zenon
  <2>2. CASE path \notin content
    <3>1. FALSE \in BOOLEAN /\ FALSE = (path \in content)
      BY <2>2
    <3>2. QED
      BY <3>1, Zenon
  <2>3. QED
    BY <2>1, <2>2
<1>1. PICK f \in BOOLEAN : f = (path \in content)
  BY <1>0
<1>2. Header = HeaderOf(f) /\ \A k : At(k) = PieceOf(path, f, k)
  BY <1>1, Zenon DEF Header, At
<1>3. /\ HeaderOf(f) \in Seq(Pieces) /\ Len(HeaderOf(f)) \in Nat
      /\ Len(HeaderOf(f)) >= 8
      /\ f /\ ~Spaced => Len(HeaderOf(f)) = LastDigit + 4
  BY HeaderPieces
<1>4. \A k \in Nat \ {0} : PieceOf(path, f, Len(HeaderOf(f)) + k) = <<path, k>>
  BY CertainPieces
<1>5. QED
  BY <1>1, <1>2, <1>3, <1>4, Zenon

\* The server sends a header.
LEMMA HeaderSent ==
    ASSUME ExchangeInv, wire = << >>, offset = 0, ~wholeHeader,
           path' = path, content' = content, offset' = offset,
           wholeHeader' = wholeHeader, wire' = wire \o Header
    PROVE  ClientOK' /\ wire' \in Seq(Pieces)
<1>1. Header \in Seq(Pieces) /\ Len(Header) \in Nat
  BY ThisHeader DEF ExchangeInv, TypeOK, SomePaths
<1>2. wire' = Header
  <2>1. \A q \in Seq(Pieces) : << >> \o q = q
    OBVIOUS
  <2>2. QED
    BY <1>1, <2>1, Zenon
<1>3. Header' = Header /\ \A k : At(k)' = At(k)
  BY DEF Header, At
<1>4. \A k \in 1 .. Len(Header) : Header[k] = At(k)
  BY <1>1 DEF At, PieceOf, Header
<1>5. offset' = 0 /\ Len(Header) <= Len(Header) + 0 /\ Len(Header) = Len(Header) + 0
  BY <1>1
<1>6. HeadOK'
  BY <1>2, <1>3, <1>4, <1>5, Zenon DEF HeadOK
<1>7. QED
  BY <1>1, <1>2, <1>6 DEF ClientOK

\* The server sends the next part of the file.
LEMMA PartSent ==
    ASSUME ExchangeInv, SameClient, server = "send", conn = "open",
           client \notin {"closed", "crashed"},
           NEW last \in 0 .. FileLength, offset <= last,
           offset' = last, wire' = wire \o FileBytes(path, offset + 1, last)
    PROVE  ClientOK' /\ wire' \in Seq(Pieces)
<1> DEFINE part == FileBytes(path, offset + 1, last)
<1>1. /\ wire \in Seq(Pieces) /\ offset \in Nat /\ last \in Nat /\ bytes \in Nat
      /\ path \in SomePaths
  BY LengthAssumption DEF ExchangeInv, TypeOK, SomePaths
<1>2. /\ part \in Seq(Pieces) /\ Len(part) = last - offset
      /\ \A k \in 1 .. last - offset : part[k] = <<path, offset + k>>
  BY <1>1, FileBytesPieces
<1>3. part \in Seq(Pieces) /\ wire' = wire \o part
  BY <1>2
<1> HIDE DEF part
<1>4. /\ wire' \in Seq(Pieces) /\ Len(wire') = Len(wire) + Len(part)
      /\ Len(wire) \in Nat /\ Len(part) \in Nat
      /\ \A k \in 1 .. Len(wire) : wire'[k] = wire[k]
      /\ \A k \in 1 .. Len(part) : wire'[Len(wire) + k] = part[k]
  <2>1. /\ wire \o part \in Seq(Pieces) /\ Len(wire \o part) = Len(wire) + Len(part)
        /\ Len(wire) \in Nat /\ Len(part) \in Nat
        /\ \A k \in 1 .. Len(wire) : (wire \o part)[k] = wire[k]
        /\ \A k \in 1 .. Len(part) : (wire \o part)[Len(wire) + k] = part[k]
    BY <1>1, <1>3, Joined
  <2>2. QED
    BY <1>3, <2>1, Zenon
<1>5. \A k \in 1 .. Len(wire') :
        \/ k \in 1 .. Len(wire) /\ wire'[k] = wire[k]
        \/ /\ k - Len(wire) \in 1 .. last - offset
           /\ wire'[k] = <<path, offset + (k - Len(wire))>>
  <2> SUFFICES ASSUME NEW k \in 1 .. Len(wire'), k \notin 1 .. Len(wire)
               PROVE  /\ k - Len(wire) \in 1 .. last - offset
                      /\ wire'[k] = <<path, offset + (k - Len(wire))>>
      BY <1>4
  <2>1. /\ k - Len(wire) \in 1 .. Len(part) /\ Len(wire) + (k - Len(wire)) = k
        /\ k - Len(wire) \in 1 .. last - offset
    BY <1>2, <1>4
  <2>2. wire'[k] = part[k - Len(wire)]
    BY <1>4, <2>1
  <2>3. QED
    BY <1>2, <2>1, <2>2
<1>6. Len(wire') = Len(wire) + (last - offset)
  BY <1>2, <1>4
<1>7. ASSUME client' \in {"connect", "send", "header"}
      PROVE  HeadOK' /\ ~wholeHeader'
  <2>1. HeadOK /\ ~wholeHeader'
    BY <1>7 DEF ExchangeInv, ClientOK, SameClient
  <2>2. Header' = Header /\ (\A k : At(k)' = At(k)) /\ Len(Header) \in Nat
    BY <1>1, ThisHeader DEF SameClient, Header, At
  <2>3. Len(wire) = Len(Header) + offset
    BY <2>1 DEF HeadOK
  <2>4. ASSUME NEW k \in 1 .. Len(wire')
        PROVE  wire'[k] = At(k)'
    <3>1. CASE k \in 1 .. Len(wire) /\ wire'[k] = wire[k]
      BY <2>1, <2>2, <3>1 DEF HeadOK
    <3>2. CASE /\ k - Len(wire) \in 1 .. last - offset
               /\ wire'[k] = <<path, offset + (k - Len(wire))>>
      <4>1. /\ k = Len(Header) + (k - Len(Header))
            /\ k - Len(Header) \in Nat \ {0}
            /\ offset + (k - Len(wire)) = k - Len(Header)
        BY <1>1, <1>4, <2>2, <2>3, <3>2
      <4>2. At(Len(Header) + (k - Len(Header))) = <<path, k - Len(Header)>>
        BY <1>1, <4>1, ThisHeader
      <4>3. QED
        BY <2>2, <3>2, <4>1, <4>2, Zenon
    <3>3. QED
      BY <1>5, <3>1, <3>2
  <2>5. Len(wire') = Len(Header) + last
    <3> DEFINE w == Len(wire)
               h == Len(Header)
    <3>1. w \in Nat /\ h \in Nat /\ w = h + offset
      BY <1>4, <2>2, <2>3
    <3>2. Len(wire') = w + (last - offset)
      BY <1>6
    <3> HIDE DEF w, h
    <3>3. w + (last - offset) = h + last
      BY <1>1, <3>1
    <3>4. QED
      BY <3>2, <3>3 DEF h
  <2>6. Len(wire') = Len(Header)' + offset' /\ Len(wire') <= Len(Header)' + offset'
    <3>1. Len(Header) + last <= Len(Header) + last
      BY <1>1, <2>2
    <3>2. QED
      BY <2>2, <2>5, <3>1
  <2>7. QED
    BY <2>1, <2>4, <2>6 DEF HeadOK
<1>8. ASSUME client' \in {"body", "closed"}, wholeHeader'
      PROVE  BodyOK'
  <2>1. BodyOK /\ path \in content /\ client = client'
    BY <1>8 DEF ExchangeInv, ServerOK, ClientOK, SameClient
  <2>2. ASSUME CopyOK PROVE CopyOK'
    <3>1. bytes + Len(wire) = offset /\ client = "body"
      BY <1>8, <2>1, <2>2 DEF CopyOK
    <3> DEFINE w == Len(wire)
    <3>0. w \in Nat /\ bytes + w = offset /\ Len(wire') = w + (last - offset)
      BY <1>4, <1>6, <3>1
    <3> HIDE DEF w
    <3>2. bytes + Len(wire') <= last /\ bytes + Len(wire') = last
      <4>1. bytes + (w + (last - offset)) <= last /\ bytes + (w + (last - offset)) = last
        BY <1>1, <3>0
      <4>2. QED
        BY <3>0, <4>1, Zenon
    <3>3. ASSUME NEW k \in 1 .. Len(wire')
          PROVE  wire'[k] = <<path, bytes + k>>
      <4>1. CASE k \in 1 .. Len(wire) /\ wire'[k] = wire[k]
        BY <2>2, <4>1 DEF CopyOK
      <4>2. CASE /\ k - Len(wire) \in 1 .. last - offset
                 /\ wire'[k] = <<path, offset + (k - Len(wire))>>
        <5>1. offset + (k - w) = bytes + k
          BY <1>1, <3>0
        <5>2. offset + (k - Len(wire)) = bytes + k
          BY <5>1 DEF w
        <5>3. QED
          BY <4>2, <5>2
      <4>3. QED
        BY <1>5, <4>1, <4>2
    <3>4. QED
      BY <2>2, <3>1, <3>2, <3>3 DEF CopyOK, SameClient
  <2>3. QED
    BY <2>1, <2>2 DEF BodyOK, SameClient
<1>9. QED
  BY <1>4, <1>7, <1>8 DEF ClientOK

-----------------------------------------------------------------------------
(***************************************************************************)
(* Steps of the client.                                                    *)
(***************************************************************************)
\* The client received the first n pieces of what the server sends.
LEMMA HeaderReceived ==
    ASSUME ExchangeInv, HeadOK, NEW n \in 1 .. Len(wire),
           NEW r \in ParseHeader(SubSeq(wire, 1, n)), NEW h, h = Len(Header)
    PROVE  /\ r.ret \in {"fail", "crash", "go on"}
           /\ r.status \in Statuses /\ r.filelen \in 0 .. FileLength
           /\ r.data \in Seq(Pieces)
           /\ r.status = "FILE_NOT_FOUND" => r.data = << >>
           /\ (\E k \in 1 .. n : SubSeq(wire, 1, n)[k] = <<"LF", 2>>) =>
                n >= h /\ r.ret # "fail"
           /\ n >= h /\ path \in content =>
                r.status = "OK" /\ (~Spaced => WholeOK(r, path, n))
           /\ n >= h /\ path \notin content =>
                /\ r.status = "FILE_NOT_FOUND" /\ r.ret = "go on"
                /\ r.filelen = 0 /\ r.data = << >>
<1>1. PICK f \in BOOLEAN : f = (path \in content)
  <2>1. CASE path \in content
    <3>1. TRUE \in BOOLEAN /\ TRUE = (path \in content)
      BY <2>1
    <3>2. QED
      BY <3>1, Zenon
  <2>2. CASE path \notin content
    <3>1. FALSE \in BOOLEAN /\ FALSE = (path \in content)
      BY <2>2
    <3>2. QED
      BY <3>1, Zenon
  <2>3. QED
    BY <2>1, <2>2
<1>2. PICK p \in SomePaths : p = path
  BY DEF ExchangeInv, TypeOK, SomePaths
<1>3. Header = HeaderOf(f) /\ \A k : At(k) = PieceOf(p, f, k)
  BY <1>1, <1>2, Zenon DEF Header, At
<1> DEFINE q == SubSeq(wire, 1, n)
<1>4. IsStartOf(q, p, f, n)
  <2>1. wire \in Seq(Pieces) /\ n \in 0 .. Len(wire) /\ Len(wire) \in Nat
    BY DEF ExchangeInv
  <2>2. q \in Seq(Pieces) /\ Len(q) = n /\ \A k \in 1 .. n : q[k] = wire[k]
    BY <2>1, FirstPart
  <2>3. \A k \in 1 .. n : wire[k] = PieceOf(p, f, k)
    BY <1>3, <2>1 DEF HeadOK
  <2>4. QED
    BY <2>2, <2>3 DEF IsStartOf
<1>5. n \in Nat \ {0} /\ r \in ParseHeader(q)
  OBVIOUS
<1> HIDE DEF q
<1>6. SoundResult(r, p, f, n) /\ WholeResult(r, p, f, n)
  BY <1>4, <1>5, Parsed
<1>7. h = Len(HeaderOf(f)) /\ h \in Nat /\ h >= 8
  <2>1. Len(HeaderOf(f)) \in Nat /\ Len(HeaderOf(f)) >= 8
    BY HeaderPieces
  <2>2. QED
    BY <1>3, <2>1, Zenon
<1>8. ASSUME NEW k \in 1 .. n, q[k] = <<"LF", 2>>
      PROVE  n >= h /\ r.ret # "fail"
  <2>1. k \in Nat \ {0} /\ q[k] = PieceOf(p, f, k)
    BY <1>4 DEF IsStartOf
  <2>2. k = Len(HeaderOf(f))
    BY <1>8, <2>1, EachPiece DEF IsPieceOf
  <2>3. n >= h
    BY <1>7, <2>2
  <2>4. ~(n < 4)
    BY <1>7, <2>3
  <2>5. QED
    BY <1>6, <2>3, <2>4 DEF SoundResult
<1>9. ASSUME n >= h, path \in content
      PROVE  r.status = "OK" /\ (~Spaced => WholeOK(r, path, n))
  BY <1>1, <1>2, <1>6, <1>7, <1>9, Zenon DEF WholeResult
<1>10. ASSUME n >= h, path \notin content
       PROVE  /\ r.status = "FILE_NOT_FOUND" /\ r.ret = "go on"
              /\ r.filelen = 0 /\ r.data = << >>
  BY <1>1, <1>6, <1>7, <1>10, Zenon DEF WholeResult
<1>11. QED
  BY <1>6, <1>8, <1>9, <1>10 DEF SoundResult, q

LEMMA RecvHeaderStep ==
    ASSUME ExchangeInv, RecvHeader
    PROVE  ExchangeInv'
<1>1. PICK n \in 1 .. Len(wire) :
        /\ \E r \in ParseHeader(SubSeq(wire, 1, n)) :
             /\ IF r.ret = "fail"
                THEN Return(-1, r.status)
                ELSE /\ client' = IF r.ret = "crash" THEN "crashed" ELSE "body"
                     /\ status' = r.status
                     /\ UNCHANGED rc
             /\ filelen' = r.filelen
             /\ written' = r.data
             /\ bytes' = Len(r.data)
        /\ wholeHeader' = \E k \in 1 .. n : SubSeq(wire, 1, n)[k] = <<"LF", 2>>
        /\ wire' = SubSeq(wire, n + 1, Len(wire))
  BY DEF RecvHeader
<1>2. PICK r \in ParseHeader(SubSeq(wire, 1, n)) :
        /\ IF r.ret = "fail"
           THEN Return(-1, r.status)
           ELSE /\ client' = IF r.ret = "crash" THEN "crashed" ELSE "body"
                /\ status' = r.status
                /\ UNCHANGED rc
        /\ filelen' = r.filelen
        /\ written' = r.data
        /\ bytes' = Len(r.data)
  BY <1>1
<1>3. /\ client = "header" /\ UNCHANGED <<request, finished, server, path, offset,
                                          content, conn, wholeRequest>>
      /\ HeadOK /\ ~wholeHeader
  BY DEF RecvHeader, requestVars, serverVars, ExchangeInv, ClientOK
<1>4. /\ wire \in Seq(Pieces) /\ Len(wire) \in Nat /\ n \in 0 .. Len(wire)
      /\ n \in Nat /\ n <= Len(wire) /\ n > 0 /\ offset \in Nat
  BY LengthAssumption DEF ExchangeInv, TypeOK
<1> DEFINE h == Len(Header)
<1>5. h \in Nat /\ h >= 8 /\ (path \in content /\ ~Spaced => h = LastDigit + 4)
      /\ \A k \in Nat \ {0} : At(h + k) = <<path, k>>
  BY ThisHeader DEF ExchangeInv, TypeOK, SomePaths
<1>6. /\ r.ret \in {"fail", "crash", "go on"}
      /\ r.status \in Statuses /\ r.filelen \in 0 .. FileLength
      /\ r.data \in Seq(Pieces)
      /\ r.status = "FILE_NOT_FOUND" => r.data = << >>
      /\ (\E k \in 1 .. n : SubSeq(wire, 1, n)[k] = <<"LF", 2>>) =>
           n >= h /\ r.ret # "fail"
      /\ n >= h /\ path \in content =>
           r.status = "OK" /\ (~Spaced => WholeOK(r, path, n))
      /\ n >= h /\ path \notin content =>
           /\ r.status = "FILE_NOT_FOUND" /\ r.ret = "go on"
           /\ r.filelen = 0 /\ r.data = << >>
  BY <1>3, HeaderReceived
<1>7. /\ wire' \in Seq(Pieces) /\ Len(wire') = Len(wire) - n
      /\ \A k \in 1 .. Len(wire') : wire'[k] = wire[n + k] /\ n + k \in 1 .. Len(wire)
  <2>1. /\ SubSeq(wire, n + 1, Len(wire)) \in Seq(Pieces)
        /\ Len(SubSeq(wire, n + 1, Len(wire))) = Len(wire) - n
        /\ \A k \in 1 .. Len(wire) - n :
             /\ SubSeq(wire, n + 1, Len(wire))[k] = wire[n + k]
             /\ n + k \in 1 .. Len(wire)
    BY <1>4, OtherPart
  <2>2. QED
    BY <1>1, <2>1, Zenon
<1>8. /\ Len(wire) <= h + offset
      /\ \A k \in 1 .. Len(wire) : wire[k] = At(k)
      /\ server = "send" /\ conn = "open" => Len(wire) = h + offset
  BY <1>3 DEF HeadOK
<1> HIDE DEF h
<1>9. TypeOK'
  <2>1. bytes' \in Nat
    <3>1. \A s \in Seq(Pieces) : Len(s) \in Nat
      OBVIOUS
    <3>2. QED
      BY <1>2, <1>6, <3>1, Zenon
  <2>2. wholeHeader' \in BOOLEAN
    BY <1>1
  <2>3. client' \in {"closed", "crashed", "body"} /\ rc' \in {0, -1}
        /\ status' \in Statuses /\ filelen' \in 0 .. FileLength
    BY <1>2, <1>6 DEF Return, ExchangeInv, TypeOK
  <2>4. QED
    BY <1>3, <2>1, <2>2, <2>3 DEF ExchangeInv, TypeOK
<1>10. ServerOK'
  <2>1. wire # << >>
    BY <1>4
  <2>2. QED
    BY <1>3, <2>1 DEF ExchangeInv, ServerOK
<1>11. client' \in {"closed", "crashed", "body"}
  BY <1>2, <1>6 DEF Return
<1>12. ASSUME client' \in {"body", "closed"}, wholeHeader'
       PROVE  BodyOK'
  <2>1. n >= h /\ r.ret # "fail"
    BY <1>1, <1>6, <1>12
  <2>2. client' = "body"
    BY <1>2, <1>12, <2>1
  <2>3. status' = r.status
    BY <1>2, <2>1
  <2>4. CASE path \in content
    <3>1. status' = "OK"
      BY <1>6, <2>1, <2>3, <2>4
    <3>2. ASSUME ~Spaced PROVE CopyOK'
      <4>1. WholeOK(r, path, n) /\ h = LastDigit + 4
        BY <1>5, <1>6, <2>1, <2>4, <3>2
      <4>2. /\ filelen' = FileLength /\ bytes' = Len(written') /\ bytes' = n - h
            /\ \A k \in 1 .. bytes' : written'[k] = <<path, k>>
        BY <1>2, <4>1, Zenon DEF WholeOK
      <4>3. /\ bytes' + Len(wire') <= offset
            /\ server = "send" /\ conn = "open" => bytes' + Len(wire') = offset
        <5>1. PICK l \in Nat : l = Len(wire) /\ n <= l
          BY <1>4
        <5>2. Len(wire') = l - n /\ l <= h + offset
              /\ (server = "send" /\ conn = "open" => l = h + offset)
          BY <1>7, <1>8, <5>1
        <5>3. (n - h) + (l - n) <= offset /\ (l = h + offset => (n - h) + (l - n) = offset)
          <6>1. n \in Int /\ h \in Int /\ l \in Int /\ offset \in Int /\ l <= h + offset
            BY <1>4, <1>5, <5>1, <5>2
          <6>2. QED
            BY <6>1
        <5>4. bytes' + Len(wire') = (n - h) + (l - n)
          BY <4>2, <5>2, Zenon
        <5>5. QED
          BY <5>2, <5>3, <5>4
      <4>4. ASSUME NEW k \in 1 .. Len(wire')
            PROVE  wire'[k] = <<path, bytes' + k>>
        <5>1. wire'[k] = At(n + k)
          BY <1>7, <1>8
        <5>2. h + (bytes' + k) = n + k /\ bytes' + k \in Nat \ {0}
          <6>1. bytes' = n - h /\ n >= h /\ k \in Nat \ {0}
            BY <1>4, <1>7, <2>1, <4>2
          <6>2. h + ((n - h) + k) = n + k /\ (n - h) + k \in Nat \ {0}
            BY <1>4, <1>5, <6>1
          <6>3. QED
            BY <6>1, <6>2, Zenon
        <5>3. At(h + (bytes' + k)) = <<path, bytes' + k>>
          BY <1>5, <5>2
        <5>4. QED
          BY <5>1, <5>2, <5>3, Zenon
      <4>5. QED
        BY <1>3, <2>2, <3>1, <4>2, <4>3, <4>4 DEF CopyOK
    <3>3. QED
      BY <1>3, <2>4, <3>1, <3>2 DEF BodyOK
  <2>5. CASE path \notin content
    <3>1. status' = "FILE_NOT_FOUND" /\ filelen' = 0 /\ written' = << >>
      BY <1>2, <1>6, <2>1, <2>3, <2>5
    <3>2. bytes' = 0
      BY <1>2, <3>1
    <3>3. wire' = << >>
      <4>1. offset = 0
        BY <2>5 DEF ExchangeInv, ServerOK
      <4>2. Len(wire') = 0
        BY <1>4, <1>5, <1>7, <1>8, <2>1, <4>1
      <4>3. QED
        BY <1>7, <4>2
    <3>4. QED
      BY <1>3, <2>5, <3>1, <3>2, <3>3 DEF BodyOK, RefusedOK
  <2>6. QED
    BY <2>4, <2>5
<1>13. written' \in Seq(Pieces) /\ request' = request
  BY <1>2, <1>3, <1>6
<1>14. RefusedNothing'
  <2>1. status' = r.status /\ written' = r.data
    BY <1>2 DEF Return
  <2>2. QED
    BY <1>6, <2>1 DEF RefusedNothing
<1>15. QED
  BY <1>7, <1>9, <1>10, <1>11, <1>12, <1>13, <1>14 DEF ExchangeInv, ClientOK

LEMMA RecvChunkStep ==
    ASSUME ExchangeInv, RecvChunk
    PROVE  ExchangeInv'
<1>1. PICK n \in 1 .. Len(wire) :
        /\ written' = written \o SubSeq(wire, 1, n)
        /\ bytes' = bytes + n
        /\ wire' = SubSeq(wire, n + 1, Len(wire))
  BY DEF RecvChunk
<1>2. /\ client = "body" /\ status = "OK" /\ bytes < filelen
      /\ UNCHANGED <<client, rc, status, filelen, request, finished, server, path,
                     offset, content, conn, wholeRequest, wholeHeader>>
  BY DEF RecvChunk, Transferring, requestVars, serverVars, history
<1>3. /\ wire \in Seq(Pieces) /\ Len(wire) \in Nat /\ n \in 0 .. Len(wire)
      /\ n \in Nat /\ n <= Len(wire) /\ n > 0 /\ offset \in Nat
      /\ written \in Seq(Pieces) /\ bytes \in Nat
  BY LengthAssumption DEF ExchangeInv, TypeOK
<1>4. PICK l \in Nat : l = Len(wire) /\ n <= l
  BY <1>3
<1> DEFINE part == SubSeq(wire, 1, n)
<1>5. part \in Seq(Pieces) /\ Len(part) = n /\ \A k \in 1 .. n : part[k] = wire[k]
  BY <1>3, FirstPart
<1>6. part \in Seq(Pieces) /\ written' = written \o part
  BY <1>1, <1>5
<1> HIDE DEF part
<1>7. /\ written' \in Seq(Pieces) /\ Len(written') = Len(written) + Len(part)
      /\ \A k \in 1 .. Len(written) : written'[k] = written[k]
      /\ \A k \in 1 .. Len(part) : written'[Len(written) + k] = part[k]
  <2>1. /\ written \o part \in Seq(Pieces)
        /\ Len(written \o part) = Len(written) + Len(part)
        /\ \A k \in 1 .. Len(written) : (written \o part)[k] = written[k]
        /\ \A k \in 1 .. Len(part) : (written \o part)[Len(written) + k] = part[k]
    BY <1>3, <1>6, Joined
  <2>2. QED
    BY <1>6, <2>1, Zenon
<1>8. /\ wire' \in Seq(Pieces) /\ Len(wire') = Len(wire) - n
      /\ \A k \in 1 .. Len(wire') : wire'[k] = wire[n + k] /\ n + k \in 1 .. Len(wire)
  <2>1. /\ SubSeq(wire, n + 1, Len(wire)) \in Seq(Pieces)
        /\ Len(SubSeq(wire, n + 1, Len(wire))) = Len(wire) - n
        /\ \A k \in 1 .. Len(wire) - n :
             /\ SubSeq(wire, n + 1, Len(wire))[k] = wire[n + k]
             /\ n + k \in 1 .. Len(wire)
    BY <1>3, OtherPart
  <2>2. QED
    BY <1>1, <2>1, Zenon
<1>9. bytes' \in Nat
  BY <1>1, <1>3
<1>10. TypeOK'
  BY <1>2, <1>9 DEF ExchangeInv, TypeOK
<1>11. ServerOK'
  <2>1. wire # << >>
    BY <1>3
  <2>2. QED
    BY <1>2, <2>1 DEF ExchangeInv, ServerOK
<1>12. ASSUME CopyOK PROVE CopyOK'
  <2>1. /\ bytes = Len(written) /\ bytes + l <= offset
        /\ \A k \in 1 .. bytes : written[k] = <<path, k>>
        /\ \A k \in 1 .. l : wire[k] = <<path, bytes + k>>
        /\ server = "send" /\ conn = "open" => bytes + l = offset
    BY <1>2, <1>4, <1>12 DEF CopyOK
  <2>2. bytes' = Len(written')
    <3>1. Len(written') = bytes + n
      BY <1>5, <1>7, <2>1
    <3>2. QED
      BY <1>1, <3>1
  <2>3. /\ bytes' + Len(wire') <= offset
        /\ server = "send" /\ conn = "open" => bytes' + Len(wire') = offset
    <3>1. bytes' + Len(wire') = (bytes + n) + (l - n)
      BY <1>1, <1>4, <1>8, Zenon
    <3>2. (bytes + n) + (l - n) = bytes + l
      BY <1>3, <1>4
    <3>3. QED
      BY <2>1, <3>1, <3>2
  <2>4. ASSUME NEW k \in 1 .. bytes'
        PROVE  written'[k] = <<path, k>>
    <3>1. CASE k \in 1 .. bytes
      BY <1>7, <2>1, <3>1
    <3>2. CASE k \notin 1 .. bytes
      <4>1. k - bytes \in 1 .. n /\ bytes + (k - bytes) = k /\ k - bytes \in 1 .. l
        BY <1>1, <1>3, <1>4, <3>2
      <4>2. written'[bytes + (k - bytes)] = part[k - bytes]
        BY <1>5, <1>7, <2>1, <4>1
      <4>3. part[k - bytes] = <<path, bytes + (k - bytes)>>
        BY <1>5, <2>1, <4>1
      <4>4. QED
        BY <4>1, <4>2, <4>3, Zenon
    <3>3. QED
      BY <3>1, <3>2
  <2>5. ASSUME NEW k \in 1 .. Len(wire')
        PROVE  wire'[k] = <<path, bytes' + k>>
    <3>1. wire'[k] = wire[n + k] /\ n + k \in 1 .. l
      BY <1>4, <1>8
    <3>2. wire[n + k] = <<path, bytes + (n + k)>>
      BY <2>1, <3>1
    <3>3. bytes + (n + k) = bytes' + k
      BY <1>1, <1>3
    <3>4. QED
      BY <3>1, <3>2, <3>3, Zenon
  <2>6. QED
    BY <1>2, <1>12, <2>2, <2>3, <2>4, <2>5 DEF CopyOK
<1>13. ASSUME wholeHeader' PROVE BodyOK'
  <2>1. BodyOK
    BY <1>2, <1>13 DEF ExchangeInv, ClientOK
  <2>2. path \in content
    BY <1>2, <2>1 DEF BodyOK, RefusedOK
  <2>3. QED
    BY <1>2, <1>12, <2>1, <2>2 DEF BodyOK
<1>14. RefusedNothing'
  BY <1>2 DEF RefusedNothing
<1>15. QED
  BY <1>2, <1>7, <1>8, <1>10, <1>11, <1>13, <1>14 DEF ExchangeInv, ClientOK

\* The steps of the client that receive nothing.
LEMMA OtherClientStep ==
    ASSUME ExchangeInv,
           Connect \/ ConnectFails \/ SendRequest \/ NoHeader \/ ChunkEOF
             \/ ChunkError \/ Finish \/ LeftInBacklog
    PROVE  ExchangeInv'
<1> DEFINE Quiet ==
        /\ UNCHANGED <<filelen, bytes, written, server, path, offset, content, wire,
                       conn, wholeRequest, wholeHeader>>
        /\ rc' \in {0, -1} /\ status' \in Statuses /\ finished' \in BOOLEAN
        /\ client' \in {"send", "header", "closed", "crashed"}
        /\ client' \in {"send", "header"} => client \in {"connect", "send"}
        /\ client' = "closed" /\ wholeHeader =>
              /\ client = "body" /\ status' = status
              /\ rc' = 0 => ~Transferring
<1>1. Quiet
  <2> USE DEF Return, Statuses, requestVars, serverVars, wireVars, history,
          ExchangeInv, ClientOK, TypeOK
  <2>1. CASE Connect
    BY <2>1 DEF Connect
  <2>2. CASE ConnectFails
    BY <2>2 DEF ConnectFails
  <2>3. CASE SendRequest
    BY <2>3 DEF SendRequest
  <2>4. CASE NoHeader
    BY <2>4 DEF NoHeader
  <2>5. CASE ChunkEOF
    BY <2>5 DEF ChunkEOF, Transferring
  <2>6. CASE ChunkError
    BY <2>6 DEF ChunkError, Transferring
  <2>7. CASE Finish
    BY <2>7 DEF Finish, Transferring
  <2>8. CASE LeftInBacklog
    BY <2>8 DEF LeftInBacklog
  <2>9. QED
    BY <2>1, <2>2, <2>3, <2>4, <2>5, <2>6, <2>7, <2>8
<1>2. request' \in Seq(Words)
  <2>1. request' = request \/ request' = << >> \/ request' = RequestPieces
    BY DEF Connect, ConnectFails, SendRequest, NoHeader, ChunkEOF, ChunkError, Finish,
           LeftInBacklog, requestVars
  <2>2. RequestPieces \in Seq(Words)
    BY DEF RequestPieces, Words
  <2>3. << >> \in Seq(Words)
    OBVIOUS
  <2>4. QED
    BY <2>1, <2>2, <2>3 DEF ExchangeInv
<1>3. TypeOK'
  BY <1>1 DEF ExchangeInv, TypeOK
<1>4. ServerOK'
  BY <1>1 DEF ExchangeInv, ServerOK
<1>5. ASSUME client' \in {"connect", "send", "header"}
      PROVE  HeadOK' /\ ~wholeHeader'
  <2>1. HeadOK /\ ~wholeHeader
    BY <1>1, <1>5 DEF ExchangeInv, ClientOK
  <2>2. Header' = Header /\ \A k : At(k)' = At(k)
    BY <1>1 DEF Header, At
  <2>3. QED
    BY <1>1, <2>1, <2>2 DEF HeadOK
<1>6. ASSUME client' \in {"body", "closed"}, wholeHeader'
      PROVE  BodyOK'
  <2>1. BodyOK /\ client = "body" /\ client' = "closed" /\ status' = status
        /\ (rc' = 0 => ~Transferring)
    BY <1>1, <1>6 DEF ExchangeInv, ClientOK
  <2>2. ASSUME CopyOK PROVE CopyOK'
    <3>1. rc' = 0 => bytes >= FileLength
      <4>1. status = "OK" /\ filelen = FileLength
        BY <2>2 DEF CopyOK
      <4>2. filelen \in Int /\ bytes \in Int
        BY LengthAssumption DEF ExchangeInv, TypeOK
      <4>3. QED
        BY <2>1, <4>1, <4>2 DEF Transferring
    <3>2. QED
      BY <1>1, <2>1, <2>2, <3>1 DEF CopyOK
  <2>3. QED
    BY <1>1, <2>1, <2>2 DEF BodyOK, RefusedOK
<1>7. RefusedNothing'
  <2>1. status' \in {status, "ERROR", "INVALID"}
    BY DEF Connect, ConnectFails, SendRequest, NoHeader, ChunkEOF, ChunkError, Finish,
           LeftInBacklog, Return
  <2>2. QED
    BY <1>1, <2>1 DEF ExchangeInv, RefusedNothing
<1>8. QED
  BY <1>1, <1>2, <1>3, <1>4, <1>5, <1>6, <1>7 DEF ExchangeInv, ClientOK

-----------------------------------------------------------------------------
(***************************************************************************)
(* Every step keeps the invariant.                                         *)
(***************************************************************************)
LEMMA SilentServerStep ==
    ASSUME ExchangeInv,
           \/ AcceptFails \/ Accept \/ BrokenPipe \/ SendFails \/ Sent \/ Close
           \/ NetworkReset
           \/ (Refuse \/ Handle \/ SendChunk) /\ Gone /\ UNCHANGED wireVars
    PROVE  ExchangeInv'
<1> DEFINE Last == IF offset + Chunk < FileLength THEN offset + Chunk ELSE FileLength
           Effect ==
             /\ SameClient /\ CutWire
             /\ UNCHANGED <<request, finished, wholeRequest>>
             /\ \/ conn' = conn
                \/ conn' = "reset"
                \/ conn' = "closed" /\ server' \in {"returned", "crashed"}
             /\ \/ offset' = offset
                \/ server = "send" /\ offset < FileLength /\ offset' = Last
             /\ \/ server' = server
                \/ server' \in {"returned", "crashed", "close"} /\ conn # "closed"
                \/ server = "accept" /\ server' = "recv"
                \/ server = "handle" /\ server' = "send" /\ path \in content
             /\ server' = "send" /\ conn' = "open" =>
                  \/ client \in {"closed", "crashed"}
                  \/ UNCHANGED <<server, conn, wire, offset>>
<1>1. CloseConn => /\ CutWire
                   /\ conn' = "reset" \/ conn' = "closed"
  BY DEF CloseConn, CutWire, wireVars
<1>2. wire' = wire => CutWire
  BY DEF CutWire
<1>3. Effect
  <2> USE DEF SameClient, clientVars, requestVars, serverVars, wireVars, history
  <2>0. server \notin {"returned", "crashed"} => conn # "closed"
    BY DEF ExchangeInv, ServerOK
  <2>1. CASE AcceptFails
    BY <1>2, <2>0, <2>1 DEF AcceptFails
  <2>2. CASE Accept
    BY <1>2, <2>2 DEF Accept
  <2>3. CASE BrokenPipe
    BY <1>1, <2>0, <2>3 DEF BrokenPipe
  <2>4. CASE SendFails
    BY <1>1, <2>0, <2>4 DEF SendFails
  <2>5. CASE Sent
    BY <1>2, <2>0, <2>5 DEF Sent
  <2>6. CASE Close
    BY <1>1, <2>0, <2>6 DEF Close
  <2>7. CASE NetworkReset
    <3>1. CutWire
      BY <2>7 DEF NetworkReset, CutWire
    <3>2. QED
      BY <2>7, <3>1 DEF NetworkReset
  <2>8. CASE Refuse /\ Gone /\ UNCHANGED wireVars
    BY <1>2, <2>0, <2>8 DEF Refuse, Deliver
  <2>9. CASE Handle /\ Gone /\ UNCHANGED wireVars
    BY <1>2, <2>0, <2>9 DEF Handle, Deliver, Gone
  <2>10. CASE SendChunk /\ Gone /\ UNCHANGED wireVars
    BY <1>2, <2>0, <2>10 DEF SendChunk, Deliver, Gone
  <2>11. QED
    BY <2>1, <2>2, <2>3, <2>4, <2>5, <2>6, <2>7, <2>8, <2>9, <2>10
<1>4. offset' \in 0 .. FileLength /\ offset' >= offset
  <2>1. offset \in 0 .. FileLength /\ FileLength \in Nat /\ Chunk \in Nat
    BY LengthAssumption, ChunkAssumption DEF ExchangeInv, TypeOK
  <2>2. offset < FileLength => Last \in 0 .. FileLength /\ Last >= offset
    BY <2>1
  <2> HIDE DEF Last
  <2>3. QED
    BY <1>3, <2>1, <2>2
<1>5. Silent
  BY <1>3, <1>4 DEF Silent
<1> HIDE DEF Last
<1>6. TypeOK'
  BY <1>3, <1>4 DEF ExchangeInv, TypeOK, SameClient
<1>7. ServerOK'
  <2>1. wire = << >> => wire' = << >>
    BY <1>3, CutWirePieces DEF ExchangeInv
  <2>2. server' \in Before => wire' = << >> /\ offset' = 0 /\ ~wholeHeader'
    BY <1>3, <2>1 DEF ExchangeInv, ServerOK, Before, SameClient
  <2>3. QED
    BY <1>3, <2>2 DEF ExchangeInv, ServerOK, Before, SameClient
<1>8. path' \notin content' => offset' = 0
  BY <1>7 DEF ServerOK
<1>9. wire' \in Seq(Pieces) /\ ClientOK'
  BY <1>3, <1>5, <1>8, SilentStep
<1>10. RefusedNothing'
  BY <1>3 DEF ExchangeInv, RefusedNothing, SameClient
<1>11. QED
  BY <1>3, <1>6, <1>7, <1>9, <1>10 DEF ExchangeInv, SameClient

LEMMA RecvRequestStep ==
    ASSUME ExchangeInv, RecvRequest
    PROVE  ExchangeInv'
<1>1. PICK n \in 0 .. Len(request) :
        /\ path' = IF ParseRequest(n) = "crash" THEN "none" ELSE ParseRequest(n)
        /\ server' = CASE ParseRequest(n) = "crash" -> "crashed"
                       [] ParseRequest(n) = "none" -> "refuse"
                       [] OTHER -> "handle"
        /\ request' = SubSeq(request, n + 1, Len(request))
        /\ wholeRequest' = (n = Len(RequestPieces))
        /\ IF ParseRequest(n) = "crash" THEN conn' = "reset" ELSE UNCHANGED conn
  BY DEF RecvRequest
<1>2. /\ UNCHANGED <<clientVars, finished, content, offset, wire, wholeHeader>>
      /\ server = "recv"
  BY DEF RecvRequest
<1>3. wire = << >> /\ offset = 0 /\ ~wholeHeader /\ conn # "closed"
  BY <1>2 DEF ExchangeInv, ServerOK, Before
<1>4. request \in Seq(Words) /\ Len(request) \in Nat /\ n \in Nat
  BY DEF ExchangeInv, Words
<1>5. request' \in Seq(Words)
  BY <1>1, <1>4, OtherPart
<1>6. Len(RequestPieces) = 7
  BY DEF RequestPieces, Words
<1>7. /\ ParseRequest(n) \in {"none", "crash", "prefix", "path"}
      /\ n = 7 => ParseRequest(n) = "path"
  <2>1. CASE n \in {0, 1, 3, 4}
    BY <2>1 DEF ParseRequest
  <2>2. CASE n = 2
    BY <2>2 DEF ParseRequest
  <2>3. CASE n = 5
    BY <2>3 DEF ParseRequest
  <2>4. CASE n >= 6
    BY <1>4, <2>4 DEF ParseRequest
  <2>5. QED
    BY <1>4, <2>1, <2>2, <2>3, <2>4
<1>8. /\ path' \in {"none", "prefix", "path"} /\ server' \in {"crashed", "refuse", "handle"}
      /\ server' = "refuse" => path' = "none"
      /\ conn' = conn \/ conn' = "reset"
      /\ wholeRequest' \in BOOLEAN /\ (wholeRequest' => path' = "path")
  BY <1>1, <1>6, <1>7
<1>9. ClientOK' /\ wire' \in Seq(Pieces)
  <2>1. offset' \in Nat /\ server' # "send"
    BY <1>2, <1>3, <1>8
  <2>2. QED
    BY <1>2, <1>3, <2>1, NothingSent
<1>10. TypeOK'
  BY <1>2, <1>8 DEF ExchangeInv, TypeOK, clientVars
<1>11. ServerOK'
  BY <1>2, <1>3, <1>8 DEF ServerOK
<1>12. RefusedNothing'
  BY <1>2 DEF ExchangeInv, RefusedNothing, clientVars
<1>13. QED
  BY <1>2, <1>5, <1>9, <1>10, <1>11, <1>12 DEF ExchangeInv, Words, clientVars

LEMMA HeaderSentStep ==
    ASSUME ExchangeInv, Refuse \/ Handle, ~Gone
    PROVE  ExchangeInv'
<1>1. /\ UNCHANGED <<clientVars, requestVars, path, content, offset, history, conn>>
      /\ wire' = wire \o Header
      /\ server' \in {"close", "send"} /\ (server' = "send" => path \in content)
      /\ server \in Before
  <2>1. CASE Refuse
    <3>1. path \notin content
      BY <2>1 DEF Refuse, ExchangeInv, ServerOK, TypeOK
    <3>2. QED
      BY <2>1, <3>1 DEF Refuse, Deliver, Header, HeaderOf, Before
  <2>2. CASE Handle
    BY <2>2 DEF Handle, Deliver, Header, HeaderOf, Before
  <2>3. QED
    BY <2>1, <2>2
<1>2. wire = << >> /\ offset = 0 /\ ~wholeHeader /\ conn # "closed"
  BY <1>1 DEF ExchangeInv, ServerOK, Before
<1>3. ClientOK' /\ wire' \in Seq(Pieces)
  BY <1>1, <1>2, HeaderSent DEF history
<1>4. TypeOK'
  BY <1>1 DEF ExchangeInv, TypeOK, clientVars, requestVars, history
<1>5. ServerOK'
  BY <1>1, <1>2 DEF ExchangeInv, ServerOK, Before, history
<1>6. RefusedNothing'
  BY <1>1 DEF ExchangeInv, RefusedNothing, clientVars
<1>7. QED
  BY <1>1, <1>3, <1>4, <1>5, <1>6 DEF ExchangeInv, clientVars, requestVars

LEMMA PartSentStep ==
    ASSUME ExchangeInv, SendChunk, ~Gone
    PROVE  ExchangeInv'
<1> DEFINE last == IF offset + Chunk < FileLength THEN offset + Chunk ELSE FileLength
<1>1. /\ UNCHANGED <<clientVars, requestVars, path, content, history, conn>>
      /\ wire' = wire \o FileBytes(path, offset + 1, last) /\ offset' = last
      /\ server = "send" /\ server' = "send" /\ offset < FileLength
      /\ client \notin {"closed", "crashed"} /\ conn # "reset"
  BY DEF SendChunk, Deliver, Gone
<1>2. conn = "open"
  BY <1>1 DEF ExchangeInv, ServerOK, TypeOK
<1>3. last \in 0 .. FileLength /\ offset <= last
  <2>1. offset \in 0 .. FileLength /\ FileLength \in Nat /\ Chunk \in Nat
    BY LengthAssumption, ChunkAssumption DEF ExchangeInv, TypeOK
  <2>2. QED
    BY <1>1, <2>1
<1> HIDE DEF last
<1>4. ClientOK' /\ wire' \in Seq(Pieces)
  <2>1. SameClient
    BY <1>1 DEF SameClient, clientVars, history
  <2>2. QED
    BY <1>1, <1>2, <1>3, <2>1, PartSent
<1>5. TypeOK'
  BY <1>1, <1>3 DEF ExchangeInv, TypeOK, clientVars, requestVars, history
<1>6. ServerOK'
  BY <1>1, <1>2 DEF ExchangeInv, ServerOK, Before, history
<1>7. RefusedNothing'
  BY <1>1 DEF ExchangeInv, RefusedNothing, clientVars
<1>8. QED
  BY <1>1, <1>4, <1>5, <1>6, <1>7 DEF ExchangeInv, clientVars, requestVars

LEMMA ExchangeStep ==
    ASSUME ExchangeInv, ClientStep \/ LeftInBacklog \/ ServerStep \/ ServerFault
                          \/ NetworkReset
    PROVE  ExchangeInv'
<1>1. CASE ClientStep \/ LeftInBacklog
  BY <1>1, RecvHeaderStep, RecvChunkStep, OtherClientStep DEF ClientStep
<1>2. CASE Accept \/ Sent \/ Close \/ ServerFault \/ NetworkReset
  BY <1>2, SilentServerStep DEF ServerFault
<1>3. CASE RecvRequest
  BY <1>3, RecvRequestStep
<1>4. CASE Refuse \/ Handle
  <2>1. CASE Gone
    <3>1. UNCHANGED wireVars
      BY <1>4, <2>1 DEF Refuse, Handle, Deliver
    <3>2. QED
      BY <1>4, <2>1, <3>1, SilentServerStep
  <2>2. CASE ~Gone
    BY <1>4, <2>2, HeaderSentStep
  <2>3. QED
    BY <2>1, <2>2
<1>5. CASE SendChunk
  <2>1. CASE Gone
    <3>1. UNCHANGED wireVars
      BY <1>5, <2>1 DEF SendChunk, Deliver
    <3>2. QED
      BY <1>5, <2>1, <3>1, SilentServerStep
  <2>2. CASE ~Gone
    BY <1>5, <2>2, PartSentStep
  <2>3. QED
    BY <2>1, <2>2
<1>6. QED
  BY <1>1, <1>2, <1>3, <1>4, <1>5 DEF ServerStep

LEMMA ExchangeInit == Init => ExchangeInv
<1> SUFFICES ASSUME Init PROVE ExchangeInv
    OBVIOUS
<1>1. /\ << >> \in Seq(Pieces) /\ << >> \in Seq(Words) /\ Len(<< >>) = 0
      /\ 1 .. 0 = {} /\ 0 \in 0 .. FileLength
  BY LengthAssumption
<1>2. TypeOK
  BY <1>1 DEF Init, TypeOK, Statuses
<1>3. HeadOK
  <2>1. Len(Header) \in Nat
    BY <1>2, ThisHeader DEF TypeOK, SomePaths
  <2>2. 0 <= Len(Header) + 0
    BY <2>1
  <2>3. Len(wire) = 0 /\ 1 .. Len(wire) = {} /\ offset = 0 /\ server = "accept"
    BY <1>1, Zenon DEF Init
  <2>4. QED
    BY <2>2, <2>3, Zenon DEF HeadOK
<1>4. ServerOK /\ ClientOK
  BY <1>3 DEF Init, ServerOK, ClientOK, Before
<1>5. RefusedNothing
  BY DEF Init, RefusedNothing
<1>6. QED
  BY <1>1, <1>2, <1>4, <1>5 DEF Init, ExchangeInv, Words

LEMMA OpenStep == ExchangeInv /\ Open => ExchangeInv'
<1> SUFFICES ASSUME ExchangeInv, Open PROVE ExchangeInv'
    OBVIOUS
<1>1. /\ wire' = << >> /\ written' = << >> /\ request' = << >> /\ rc' = 0 /\ bytes' = 0
      /\ filelen' = 0 /\ status' = "OK" /\ client' = "connect" /\ finished' = FALSE
      /\ wholeRequest' = FALSE /\ wholeHeader' = FALSE
      /\ UNCHANGED <<server, path, offset, content>>
      /\ server \in {"returned", "crashed", "accept"}
      /\ conn' \in {"open", "reset"}
  BY DEF Open, ServerOver, serverVars
<1>2. /\ << >> \in Seq(Pieces) /\ << >> \in Seq(Words) /\ 0 \in 0 .. FileLength
  BY LengthAssumption
<1>3. offset \in Nat
  BY LengthAssumption DEF ExchangeInv, TypeOK
<1>4. ClientOK'
  BY <1>1, <1>3, NothingSent
<1>5. TypeOK'
  BY <1>1, <1>2 DEF ExchangeInv, TypeOK, Statuses
<1>6. ServerOK'
  BY <1>1 DEF ExchangeInv, ServerOK, Before
<1>7. RefusedNothing'
  BY <1>1 DEF RefusedNothing
<1>8. QED
  BY <1>1, <1>2, <1>4, <1>5, <1>6, <1>7 DEF ExchangeInv, Words

LEMMA ExchangeStutter == ExchangeInv /\ UNCHANGED vars => ExchangeInv'
<1> SUFFICES ASSUME ExchangeInv, UNCHANGED vars PROVE ExchangeInv'
    OBVIOUS
<1>1. UNCHANGED <<client, rc, status, filelen, bytes, written, request, finished,
                  server, path, offset, content, wire, conn, wholeRequest, wholeHeader>>
  BY DEF vars, clientVars, requestVars, serverVars, wireVars, history
<1>2. TypeOK' /\ ServerOK'
  BY <1>1 DEF ExchangeInv, TypeOK, ServerOK
<1>3. HeadOK => HeadOK'
  BY <1>1 DEF HeadOK, At, Header
<1>4. BodyOK => BodyOK'
  BY <1>1 DEF BodyOK, CopyOK, RefusedOK
<1>5. ClientOK'
  BY <1>1, <1>3, <1>4 DEF ExchangeInv, ClientOK
<1>6. RefusedNothing'
  BY <1>1 DEF ExchangeInv, RefusedNothing
<1>7. QED
  BY <1>1, <1>2, <1>5, <1>6 DEF ExchangeInv

LEMMA DownloadNextStep == ExchangeInv /\ [DownloadNext]_downloadVars => ExchangeInv'
<1> SUFFICES ASSUME ExchangeInv, [DownloadNext]_downloadVars PROVE ExchangeInv'
    OBVIOUS
<1>1. CASE Open
  BY <1>1, OpenStep
<1>2. CASE Perform \/ LeftInBacklog \/ Serve \/ Fault
  BY <1>2, ExchangeStep DEF Perform, Serve, Fault
<1>3. CASE \/ OpenFails \/ Cleanup \/ AllRequested \/ Rest
           \/ UNCHANGED downloadVars
  <2>1. UNCHANGED vars
    BY <1>3 DEF OpenFails, Cleanup, AllRequested, Rest, downloadVars
  <2>2. QED
    BY <2>1, ExchangeStutter
<1>4. QED
  BY <1>1, <1>2, <1>3 DEF DownloadNext, MainStep

\* Along every behaviour of the two programs, with or without the space that
\* gfserver.c puts at the end of a header: what is on its way to the client and
\* what it was given are consecutive parts of what the server sends.
THEOREM ExchangeInvariance == DownloadSpec => []ExchangeInv
<1>1. DownloadInit => ExchangeInv
  BY ExchangeInit DEF DownloadInit
<1>2. ExchangeInv /\ [DownloadNext]_downloadVars => ExchangeInv'
  BY DownloadNextStep
<1>3. QED
  BY <1>1, <1>2, PTL DEF DownloadSpec

\* A refusal is told from a failure: if gfc_perform returns 0 with
\* GF_FILE_NOT_FOUND then nothing was written, whatever the connection cut up,
\* and if one recv returned the whole header the server did not have the file
\* that it took to be asked for: the one asked for, if its one recv returned the
\* whole request (HonestRefusal).
THEOREM RefusalCorrect == DownloadSpec => []HonestRefusal
<1>1. ASSUME ExchangeInv PROVE HonestRefusal
  <2> SUFFICES ASSUME Returned(0, "FILE_NOT_FOUND")
               PROVE  /\ written = << >>
                      /\ wholeHeader => Understood /\ path \notin content
      BY DEF HonestRefusal
  <2>1. client = "closed" /\ status = "FILE_NOT_FOUND"
    BY DEF Returned
  <2>2. written = << >>
    BY <1>1, <2>1 DEF ExchangeInv, RefusedNothing
  <2>3. Understood
    BY <1>1 DEF ExchangeInv, ServerOK, Understood
  <2>4. ASSUME wholeHeader PROVE path \notin content
    <3>1. BodyOK
      BY <1>1, <2>1, <2>4 DEF ExchangeInv, ClientOK
    <3>2. QED
      BY <2>1, <3>1 DEF BodyOK
  <2>5. QED
    BY <2>2, <2>3, <2>4
<1>2. QED
  BY <1>1, ExchangeInvariance, PTL

LEMMA CopyComplete ==
    ASSUME ExchangeInv, ~Spaced
    PROVE  ExactCopy
<1> SUFFICES ASSUME Returned(0, "OK"), wholeHeader
             PROVE  /\ Understood /\ path \in content
                    /\ written = FileBytes(path, 1, FileLength)
    BY DEF ExactCopy, ExchangeInv
<1>1. BodyOK /\ status = "OK" /\ client = "closed" /\ rc = 0
  BY DEF ExchangeInv, ClientOK, Returned
<1>2. path \in content /\ CopyOK /\ Understood
  BY <1>1 DEF BodyOK, RefusedOK, ExchangeInv, ServerOK, Understood
<1>3. /\ bytes \in Nat /\ offset \in 0 .. FileLength /\ FileLength \in Nat
      /\ written \in Seq(Pieces) /\ Len(wire) \in Nat
  BY LengthAssumption DEF ExchangeInv, TypeOK
<1>4. bytes = Len(written) /\ bytes >= FileLength /\ bytes + Len(wire) <= offset
      /\ \A k \in 1 .. bytes : written[k] = <<path, k>>
  BY <1>1, <1>2 DEF CopyOK
<1>5. bytes = FileLength
  BY <1>3, <1>4
<1>6. PICK p \in SomePaths : p = path
  BY DEF ExchangeInv, TypeOK, SomePaths
<1> DEFINE f == FileBytes(p, 1, FileLength)
<1>7. f \in Seq(Pieces) /\ Len(f) = FileLength
      /\ \A k \in 1 .. FileLength : f[k] = <<p, k>>
  <2>1. 0 \in Nat /\ 0 <= FileLength /\ 0 + 1 = 1 /\ FileLength - 0 = FileLength
    BY <1>3
  <2>2. /\ FileBytes(p, 0 + 1, FileLength) \in Seq(Pieces)
        /\ Len(FileBytes(p, 0 + 1, FileLength)) = FileLength - 0
        /\ \A k \in 1 .. FileLength - 0 :
             FileBytes(p, 0 + 1, FileLength)[k] = <<p, 0 + k>>
    BY <1>3, <2>1, FileBytesPieces
  <2>3. \A k \in 1 .. FileLength : 0 + k = k
    OBVIOUS
  <2>4. QED
    BY <2>1, <2>2, <2>3, Zenon
<1> HIDE DEF f
<1>8. written = f
  <2>1. Len(written) = Len(f) /\ \A k \in 1 .. Len(written) : written[k] = f[k]
    BY <1>4, <1>5, <1>6, <1>7
  <2>2. QED
    BY <1>3, <1>7, <2>1, SeqEqual
<1>9. f = FileBytes(path, 1, FileLength)
  BY <1>6, Zenon DEF f
<1>10. QED
  BY <1>2, <1>8, <1>9

\* The file of a request that is over: a copy, if the header came whole.
Kept(f) ==
    f.header => \E p \in content : /\ f.data = FileBytes(p, 1, FileLength)
                                   /\ f.request => p = "path"

DiskInv ==
    /\ main \in {"open", "perform", "exited", "returned"}
    /\ i \in 0 .. NRequests
    /\ main = "perform" => i < NRequests
    /\ \A r \in DOMAIN disk : r \in Nat /\ r < i /\ Kept(disk[r])

LEMMA DiskStep ==
    ASSUME ~Spaced, ExchangeInv, DiskInv, [DownloadNext]_downloadVars
    PROVE  DiskInv'
<1>1. NRequests \in Nat /\ i \in Nat /\ i <= NRequests
  BY RequestsAssumption DEF DiskInv
<1>2. content' = content
  BY DEF DownloadNext, MainStep, Open, OpenFails, Perform, LeftInBacklog, Cleanup,
         AllRequested, Serve, Fault, Rest, downloadVars, vars, ClientStep, Connect,
         ConnectFails, SendRequest, RecvHeader, NoHeader, RecvChunk, ChunkEOF,
         ChunkError, Finish, ServerStep, Accept, RecvRequest, Refuse, Handle,
         SendChunk, Sent, Close, ServerFault, AcceptFails, BrokenPipe, SendFails,
         NetworkReset
<1>3. CASE Open \/ OpenFails \/ AllRequested
  BY <1>1, <1>2, <1>3 DEF Open, OpenFails, AllRequested, DiskInv, Kept
<1>4. CASE Perform \/ LeftInBacklog \/ Serve \/ Fault \/ Rest \/ UNCHANGED downloadVars
  BY <1>2, <1>4 DEF Perform, LeftInBacklog, Serve, Fault, Rest, downloadVars, mainVars,
                    DiskInv, Kept
<1>5. CASE Cleanup
  <2>1. /\ main = "perform" /\ client = "closed" /\ main' = "open" /\ i' = i + 1
        /\ i < NRequests
        /\ disk' = IF rc < 0 \/ status # "OK" THEN disk
                   ELSE [r \in DOMAIN disk \cup {i} |->
                           IF r = i THEN [data |-> written, request |-> wholeRequest,
                                          header |-> wholeHeader]
                           ELSE disk[r]]
    BY <1>5 DEF Cleanup, DiskInv
  <2>2. i' \in 0 .. NRequests /\ i < i' /\ \A r \in Nat : r < i => r < i'
    BY <1>1, <2>1
  <2>3. ASSUME NEW r \in DOMAIN disk'
        PROVE  r \in Nat /\ r < i' /\ Kept(disk[r])'
    <3>1. CASE r = i /\ ~(rc < 0 \/ status # "OK")
      <4>1. Returned(0, "OK")
        BY <2>1, <3>1 DEF Returned, ExchangeInv, TypeOK
      <4>2. disk'[r] = [data |-> written, request |-> wholeRequest,
                        header |-> wholeHeader]
        BY <2>1, <3>1
      <4>3. /\ disk'[r].data = written /\ disk'[r].request = wholeRequest
            /\ disk'[r].header = wholeHeader
        <5> DEFINE x == [data |-> written, request |-> wholeRequest,
                         header |-> wholeHeader]
        <5>1. disk'[r] = x
          BY <4>2
        <5>2. x.data = written /\ x.request = wholeRequest /\ x.header = wholeHeader
          OBVIOUS
        <5> HIDE DEF x
        <5>3. QED
          BY <5>1, <5>2, Zenon
      <4>4. wholeHeader => /\ path \in content
                           /\ written = FileBytes(path, 1, FileLength)
                           /\ wholeRequest => path = "path"
        BY <4>1, CopyComplete DEF ExactCopy, Understood
      <4>5. Kept(disk[r])'
        BY <1>2, <4>3, <4>4 DEF Kept
      <4>6. QED
        BY <1>1, <2>2, <3>1, <4>5
    <3>2. CASE ~(r = i /\ ~(rc < 0 \/ status # "OK"))
      <4>1. r \in DOMAIN disk /\ disk'[r] = disk[r]
        BY <2>1, <3>2
      <4>2. Kept(disk[r])'
        BY <1>2, <4>1 DEF DiskInv, Kept
      <4>3. QED
        BY <2>2, <4>1, <4>2 DEF DiskInv
    <3>3. QED
      BY <3>1, <3>2
  <2>4. QED
    BY <1>2, <2>1, <2>2, <2>3 DEF DiskInv
<1>6. QED
  BY <1>3, <1>4, <1>5 DEF DownloadNext, MainStep

\* With the header the client expects, whose end follows the length at once, and
\* when one recv returns the whole header: what gfc_perform reports complete is
\* the file that the server took to be asked for, every byte once and in order,
\* and the program leaves only such copies, of the file asked for if the server's
\* one recv returned the whole request (FilesAreCopies).  Of a header that is cut
\* it says nothing.  With the space before the end of the header that gfserver.c
\* sends, run getfile_spaced refutes ExactCopy.
THEOREM CopiesCorrect ==
    ASSUME ~Spaced
    PROVE  DownloadSpec => []FilesAreCopies
<1>1. DownloadInit => DiskInv
  BY RequestsAssumption DEF DownloadInit, DiskInv
<1>2. ExchangeInv /\ DiskInv /\ [DownloadNext]_downloadVars => DiskInv'
  BY DiskStep
<1>3. ExchangeInv /\ DiskInv => FilesAreCopies
  BY CopyComplete DEF DiskInv, FilesAreCopies, Kept
<1>4. QED
  BY <1>1, <1>2, <1>3, ExchangeInvariance, PTL DEF DownloadSpec
=============================================================================
