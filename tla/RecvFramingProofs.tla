------------------------- MODULE RecvFramingProofs -------------------------
(***************************************************************************)
(* Every line that extractMessage cuts off is clean, whatever bytes came   *)
(* in whatever chunks, for any limit on the length of a line.              *)
(***************************************************************************)
EXTENDS RecvFraming, WellOrder, FiniteSetTheorems, SequenceTheorems

\* Where there is a CRLF, there is a first one.
LEMMA FirstCRLFExists ==
  ASSUME NEW s \in Seq(Bytes), NEW j, CRLFAt(s, j)
  PROVE  \E i \in 1..j : FirstCRLF(s, i)
<1>1. j \in Nat /\ j >= 1
  BY DEF CRLFAt
<1>2. {k \in 1..j : CRLFAt(s, k)} \in SUBSET Nat
  OBVIOUS
<1>3. j \in {k \in 1..j : CRLFAt(s, k)}
  BY <1>1
<1>4. PICK i \in {k \in 1..j : CRLFAt(s, k)} : \A k \in {l \in 1..j : CRLFAt(s, l)} : i <= k
  BY <1>2, <1>3, Smallest
<1>5. i \in 1..j /\ CRLFAt(s, i)
  BY <1>4
<1>6. ASSUME NEW k \in 1..(i - 1) PROVE ~CRLFAt(s, k)
  BY <1>1, <1>4, <1>5
<1> QED
  BY <1>5, <1>6 DEF FirstCRLF

\* What a C string keeps of a chunk has no NUL and is no longer than the chunk.
LEMMA CStringClean ==
  ASSUME NEW chunk \in Seq(Bytes)
  PROVE  /\ CString(chunk) \in Seq(Bytes)
         /\ \A i \in 1..Len(CString(chunk)) : CString(chunk)[i] # NUL
         /\ Len(CString(chunk)) <= Len(chunk)
<1>1. CASE \A i \in 1..Len(chunk) : chunk[i] # NUL
  BY <1>1 DEF CString
<1>2. CASE ~\A i \in 1..Len(chunk) : chunk[i] # NUL
  <2> DEFINE At(i) == chunk[i] = NUL /\ \A j \in 1..(i - 1) : chunk[j] # NUL
             end == CHOOSE i \in 1..Len(chunk) : At(i)
             nuls == {i \in 1..Len(chunk) : chunk[i] = NUL}
  <2>1. nuls \in SUBSET Nat /\ nuls # {}
    BY <1>2
  <2>2. PICK i \in nuls : \A j \in nuls : i <= j
    BY <2>1, Smallest
  <2>3. i \in 1..Len(chunk) /\ At(i)
    <3>1. i \in 1..Len(chunk) /\ chunk[i] = NUL
      BY <2>2
    <3>2. ASSUME NEW j \in 1..(i - 1) PROVE chunk[j] # NUL
      BY <2>2, <3>1
    <3> QED
      BY <3>1, <3>2
  <2>4. end \in 1..Len(chunk) /\ At(end)
    <3> HIDE DEF At
    <3> QED
      BY <2>3
  <2>5. CString(chunk) = SubSeq(chunk, 1, end - 1)
    BY <1>2 DEF CString
  <2> HIDE DEF end
  <2>6. /\ SubSeq(chunk, 1, end - 1) \in Seq(Bytes)
        /\ Len(SubSeq(chunk, 1, end - 1)) = end - 1
        /\ \A k \in 1..(end - 1) : SubSeq(chunk, 1, end - 1)[k] = chunk[k]
    BY <2>4
  <2> QED
    BY <2>4, <2>5, <2>6
<1> QED
  BY <1>1, <1>2

\* The invariant: the types, and that the buffer and the lines are clean.
RecvInv == RecvTypeOK /\ LinesClean

LEMMA RecvInitInv == RecvInit => RecvInv
BY DEF RecvInit, RecvInv, RecvTypeOK, LinesClean

\* A recv adds to the buffer what is clean already.
LEMMA RecvKeepsInv ==
  ASSUME RecvInv, NEW chunk \in Seq(Bytes), Recv(chunk)
  PROVE  RecvInv'
<1>1. /\ recvBuffer \in Seq(Bytes) /\ heard \in Seq(Bytes) /\ lines \in Seq(Seq(Bytes))
      /\ \A i \in 1..Len(recvBuffer) : recvBuffer[i] # NUL
  BY DEF RecvInv, RecvTypeOK, LinesClean
<1>2. PICK tail \in Seq(Bytes) :
        /\ tail = CString(chunk)
        /\ \A i \in 1..Len(tail) : tail[i] # NUL
  BY CStringClean
<1>3. recvBuffer' = recvBuffer \o tail /\ heard' = heard \o chunk /\ lines' = lines
  BY <1>2 DEF Recv
<1>4. \A i \in 1..Len(recvBuffer \o tail) : (recvBuffer \o tail)[i] # NUL
  BY <1>1, <1>2
<1>5. RecvTypeOK'
  BY <1>1, <1>2, <1>3 DEF RecvTypeOK
<1>6. LinesClean'
  BY <1>3, <1>4 DEF RecvInv, LinesClean, CRLFAt
<1> QED
  BY <1>5, <1>6 DEF RecvInv

\* A part of a clean buffer is clean.
LEMMA PartClean ==
  ASSUME NEW s \in Seq(Bytes), NEW m \in Nat, NEW n \in Nat, m >= 1, n <= Len(s),
         \A i \in 1..Len(s) : s[i] # NUL
  PROVE  /\ SubSeq(s, m, n) \in Seq(Bytes)
         /\ \A i \in 1..Len(SubSeq(s, m, n)) : SubSeq(s, m, n)[i] # NUL
<1>1. CASE m <= n + 1
  <2>1. /\ SubSeq(s, m, n) \in Seq(Bytes)
        /\ Len(SubSeq(s, m, n)) = n - m + 1
        /\ \A i \in 1..(n - m + 1) : SubSeq(s, m, n)[i] = s[m + i - 1]
    BY <1>1
  <2>2. \A i \in 1..(n - m + 1) : m + i - 1 \in 1..Len(s)
    BY <1>1
  <2> QED
    BY <2>1, <2>2
<1>2. CASE ~(m <= n + 1)
  <2>1. SubSeq(s, m, n) \in Seq(Bytes) /\ Len(SubSeq(s, m, n)) = 0
    BY <1>2
  <2> QED
    BY <2>1
<1> QED
  BY <1>1, <1>2

\* What is cut off the front of the buffer is a clean line when it is not too
\* long and no CRLF begins within it.
LEMMA CutClean ==
  ASSUME RecvInv, NEW n \in Nat, n <= LineMax, n <= Len(recvBuffer),
         \A i \in 1..(n - 1) : ~CRLFAt(recvBuffer, i),
         NEW m \in Nat, m >= 1,
         lines' = Append(lines, SubSeq(recvBuffer, 1, n)),
         recvBuffer' = SubSeq(recvBuffer, m, Len(recvBuffer)),
         UNCHANGED heard
  PROVE  RecvInv'
<1>1. /\ recvBuffer \in Seq(Bytes) /\ heard \in Seq(Bytes) /\ lines \in Seq(Seq(Bytes))
      /\ \A i \in 1..Len(recvBuffer) : recvBuffer[i] # NUL
  BY DEF RecvInv, RecvTypeOK, LinesClean
<1>2. PICK line \in Seq(Bytes) :
        /\ line = SubSeq(recvBuffer, 1, n)
        /\ Len(line) = n
        /\ \A i \in 1..n : line[i] = recvBuffer[i]
  <2>1. /\ SubSeq(recvBuffer, 1, n) \in Seq(Bytes)
        /\ Len(SubSeq(recvBuffer, 1, n)) = n
        /\ \A i \in 1..n : SubSeq(recvBuffer, 1, n)[i] = recvBuffer[i]
    BY <1>1
  <2> QED
    BY <2>1
<1>3. PICK rest \in Seq(Bytes) :
        /\ rest = SubSeq(recvBuffer, m, Len(recvBuffer))
        /\ \A i \in 1..Len(rest) : rest[i] # NUL
  <2>1. Len(recvBuffer) \in Nat /\ Len(recvBuffer) <= Len(recvBuffer)
    BY <1>1
  <2>2. /\ SubSeq(recvBuffer, m, Len(recvBuffer)) \in Seq(Bytes)
        /\ \A i \in 1..Len(SubSeq(recvBuffer, m, Len(recvBuffer))) :
             SubSeq(recvBuffer, m, Len(recvBuffer))[i] # NUL
    BY <1>1, <2>1, PartClean
  <2> QED
    BY <2>2
<1>4. ASSUME NEW i \in 1..Len(line) PROVE line[i] # NUL /\ ~CRLFAt(line, i)
  <2>1. line[i] # NUL
    BY <1>1, <1>2
  <2>2. ASSUME CRLFAt(line, i) PROVE FALSE
    <3>1. i \in 1..(n - 1) /\ line[i] = CR /\ line[i + 1] = LF
      BY <1>2, <2>2 DEF CRLFAt
    <3>2. recvBuffer[i] = CR /\ recvBuffer[i + 1] = LF
      BY <1>2, <3>1
    <3>3. CRLFAt(recvBuffer, i)
      BY <1>1, <3>1, <3>2 DEF CRLFAt
    <3> QED
      BY <3>1, <3>3
  <2> QED
    BY <2>1, <2>2
<1>5. lines' = Append(lines, line) /\ recvBuffer' = rest /\ heard' = heard
  BY <1>2, <1>3
<1>6. RecvTypeOK'
  BY <1>1, <1>2, <1>3, <1>5 DEF RecvTypeOK
<1>7. LinesClean'
  <2>1. ASSUME NEW k \in 1..Len(lines')
        PROVE  /\ Len(lines'[k]) <= LineMax
               /\ \A i \in 1..Len(lines'[k]) : lines'[k][i] # NUL /\ ~CRLFAt(lines'[k], i)
    <3>1. CASE k \in 1..Len(lines)
      <4>1. lines'[k] = lines[k]
        BY <1>1, <1>5, <3>1
      <4> QED
        BY <3>1, <4>1 DEF RecvInv, LinesClean
    <3>2. CASE k = Len(lines) + 1
      <4>1. lines'[k] = line
        BY <1>1, <1>5, <3>2
      <4> QED
        BY <1>2, <1>4, <4>1
    <3>3. k \in 1..Len(lines) \/ k = Len(lines) + 1
      BY <1>1, <1>5
    <3> QED
      BY <3>1, <3>2, <3>3
  <2>2. \A i \in 1..Len(recvBuffer') : recvBuffer'[i] # NUL
    BY <1>3, <1>5
  <2> HIDE DEF CRLFAt
  <2> QED
    BY <2>1, <2>2 DEF LinesClean
<1> QED
  BY <1>6, <1>7 DEF RecvInv

\* extractMessage cuts off clean lines: a short one ends before the first CRLF,
\* and a CRLF within the first LineMax bytes would have been found.
LEMMA ExtractKeepsInv == RecvInv /\ ExtractMessage => RecvInv'
<1> SUFFICES ASSUME RecvInv, ExtractMessage PROVE RecvInv'
  OBVIOUS
<1> USE FramingAssumption
<1>a. recvBuffer \in Seq(Bytes) /\ LineMax \in Nat
  BY DEF RecvInv, RecvTypeOK
<1>1. ASSUME NEW i \in 1..(LineMax + 1),
             FirstCRLF(recvBuffer, i),
             lines' = Append(lines, SubSeq(recvBuffer, 1, i - 1)),
             recvBuffer' = SubSeq(recvBuffer, i + 2, Len(recvBuffer))
      PROVE  RecvInv'
  <2>1. i - 1 \in Nat /\ i + 2 \in Nat /\ i + 2 >= 1 /\ i - 1 <= LineMax
    BY <1>a
  <2>2. i - 1 <= Len(recvBuffer)
    BY <1>1, <1>a DEF FirstCRLF, CRLFAt
  <2>3. \A j \in 1..((i - 1) - 1) : ~CRLFAt(recvBuffer, j)
    BY <1>1, <1>a DEF FirstCRLF
  <2>4. UNCHANGED heard
    BY DEF ExtractMessage
  <2> QED
    BY <1>1, <2>1, <2>2, <2>3, <2>4, CutClean
<1>2. ASSUME \A i \in 1..(LineMax + 1) : ~FirstCRLF(recvBuffer, i),
             lines' = Append(lines, SubSeq(recvBuffer, 1, LineMax)),
             recvBuffer' = SubSeq(recvBuffer, LineMax + 1, Len(recvBuffer))
      PROVE  RecvInv'
  <2>1. LineMax <= Len(recvBuffer)
    BY <1>2, <1>a DEF ExtractMessage, HasLine
  <2>2. ASSUME NEW j \in 1..(LineMax - 1), CRLFAt(recvBuffer, j) PROVE FALSE
    <3>1. PICK i \in 1..j : FirstCRLF(recvBuffer, i)
      BY <1>a, <2>2, FirstCRLFExists
    <3> QED
      BY <1>2, <1>a, <3>1
  <2>3. UNCHANGED heard
    BY DEF ExtractMessage
  <2>4. LineMax + 1 \in Nat /\ LineMax + 1 >= 1 /\ LineMax <= LineMax
    BY <1>a
  <2> QED
    BY <1>2, <1>a, <2>1, <2>2, <2>3, <2>4, CutClean
<1> QED
  BY <1>1, <1>2 DEF ExtractMessage

\* A recv adds no more than it returned.
LEMMA RecvAddsChunk ==
  ASSUME RecvInv, NEW chunk \in Seq(Bytes), Recv(chunk)
  PROVE  Len(recvBuffer') <= Len(recvBuffer) + Len(chunk)
<1>1. PICK tail \in Seq(Bytes) : tail = CString(chunk) /\ Len(tail) <= Len(chunk)
  BY CStringClean
<1>2. recvBuffer' = recvBuffer \o tail /\ recvBuffer \in Seq(Bytes)
  BY <1>1 DEF Recv, RecvInv, RecvTypeOK
<1> QED
  BY <1>1, <1>2

\* A line that is cut off makes the buffer shorter.
LEMMA ExtractShortens ==
  ASSUME RecvInv, ExtractMessage
  PROVE  Len(recvBuffer') <= Len(recvBuffer)
<1>1. recvBuffer \in Seq(Bytes) /\ LineMax \in Nat
  BY FramingAssumption DEF RecvInv, RecvTypeOK
<1>2. PICK m \in Nat \ {0} : recvBuffer' = SubSeq(recvBuffer, m, Len(recvBuffer))
  <2>1. \A i \in 1..(LineMax + 1) : i + 2 \in Nat \ {0}
    BY <1>1
  <2>2. LineMax + 1 \in Nat \ {0}
    BY <1>1
  <2> QED
    BY <2>1, <2>2 DEF ExtractMessage
<1>3. CASE m <= Len(recvBuffer)
  <2>1. Len(SubSeq(recvBuffer, m, Len(recvBuffer))) = Len(recvBuffer) - m + 1
    BY <1>1, <1>3
  <2> QED
    BY <1>1, <1>2, <2>1
<1>4. CASE ~(m <= Len(recvBuffer))
  <2>1. Len(SubSeq(recvBuffer, m, Len(recvBuffer))) = 0
    BY <1>1, <1>4
  <2> QED
    BY <1>1, <1>2, <2>1
<1> QED
  BY <1>3, <1>4

-----------------------------------------------------------------------------
(***************************************************************************)
(* The lines that are cut off a buffer are those of the whole stream.      *)
(***************************************************************************)

\* Whole blocks that begin in one piece do not overlap.
LEMMA Multiples ==
  ASSUME NEW a \in Nat, NEW n \in Nat, NEW m \in Nat, NEW L \in Nat \ {0},
         a + n * L < a + m * L
  PROVE  a + n * L + L <= a + m * L
<1>1. n * L \in Nat /\ m * L \in Nat
  OBVIOUS
<1>2. n < m
  <2>1. SUFFICES ASSUME m <= n PROVE FALSE
    OBVIOUS
  <2>2. PICK d \in Nat : n = m + d
    <3>1. n - m \in Nat /\ n = m + (n - m)
      BY <2>1
    <3> QED
      BY <3>1
  <2>3. n * L = m * L + d * L /\ d * L \in Nat
    BY <2>2
  <2> QED
    BY <1>1, <2>3
<1>3. PICK d \in Nat : m = n + 1 + d
  <2>1. m - n - 1 \in Nat /\ m = n + 1 + (m - n - 1)
    BY <1>2
  <2> QED
    BY <2>1
<1>4. m * L = n * L + L + d * L /\ d * L \in Nat
  BY <1>3
<1> QED
  BY <1>1, <1>4

\* The number of blocks is no more than that of their bytes.
LEMMA FewBlocks ==
  ASSUME NEW n \in Nat, NEW L \in Nat \ {0}
  PROVE  n <= n * L /\ n * L \in Nat
<1>1. PICK d \in Nat : L = d + 1
  <2>1. L - 1 \in Nat /\ L = (L - 1) + 1
    OBVIOUS
  <2> QED
    BY <2>1
<1>2. n * L = n * d + n /\ n * d \in Nat
  BY <1>1
<1> QED
  BY <1>2

LEMMA EndsType ==
  ASSUME NEW s \in Seq(Bytes)
  PROVE  /\ Split!Ends(s) \subseteq Nat \ {0}
         /\ \A i : i \in Split!Ends(s) <=> CRLFAt(s, i)
         /\ \A i \in Split!Ends(s) : i + 1 <= Len(s)
BY DEF Split!Ends, CRLFAt

\* Two CRLFs do not overlap.
LEMMA EndsApart ==
  ASSUME NEW s \in Seq(Bytes), NEW i \in Split!Ends(s)
  PROVE  i + 1 \notin Split!Ends(s)
BY FramingAssumption DEF Split!Ends

\* Between the beginnings of two pieces there is the end of one.
LEMMA PiecesApart ==
  ASSUME NEW s \in Seq(Bytes), NEW a \in Split!PieceStarts(s),
         NEW b \in Split!PieceStarts(s), a < b
  PROVE  b - 2 \in Split!Ends(s) /\ a <= b - 2
<1>1. a = 1 \/ \E i \in Split!Ends(s) : a = i + 2
  BY DEF Split!PieceStarts
<1>2. b = 1 \/ \E i \in Split!Ends(s) : b = i + 2
  BY DEF Split!PieceStarts
<1>3. a \in Nat /\ b \in Nat /\ a >= 1
  BY <1>1, <1>2, EndsType
<1>4. PICK i \in Split!Ends(s) : b = i + 2
  BY <1>2, <1>3
<1>5. i \in Nat /\ i >= 1
  BY EndsType
<1>6. b - 2 = i
  BY <1>4, <1>5
<1>7. a # i + 1
  <2>1. CASE a = 1
    BY <2>1, <1>5
  <2>2. ASSUME NEW j \in Split!Ends(s), a = j + 2 PROVE a # i + 1
    <3>1. j \in Nat /\ j + 1 \notin Split!Ends(s)
      BY EndsType, EndsApart
    <3>2. i # j + 1
      BY <3>1
    <3> QED
      BY <2>2, <3>1, <3>2, <1>5
  <2> QED
    BY <1>1, <2>1, <2>2
<1>8. a <= i
  BY <1>3, <1>4, <1>5, <1>7
<1> QED
  BY <1>6, <1>8

LEMMA PieceStartsType ==
  ASSUME NEW s \in Seq(Bytes), NEW a \in Split!PieceStarts(s)
  PROVE  a \in Nat \ {0} /\ a <= Len(s) + 1
<1>1. a = 1 \/ \E i \in Split!Ends(s) : a = i + 2
  BY DEF Split!PieceStarts
<1>2. Len(s) \in Nat
  OBVIOUS
<1> QED
  BY <1>1, <1>2, EndsType

\* Behind the beginning of a block, the next one begins behind a CRLF, or LineMax
\* bytes further in the same piece.
LEMMA BlocksApart ==
  ASSUME NEW s \in Seq(Bytes), NEW p, NEW q, p < q,
         Split!BeginsBlock(s, p), Split!BeginsBlock(s, q)
  PROVE  \/ \E i \in Split!Ends(s) : p <= i /\ i + 2 <= q
         \/ /\ p + LineMax <= q
            /\ Split!Ends(s) \cap (p..q) = {}
            /\ q \notin Split!PieceStarts(s)
<1> USE FramingAssumption
<1>1. PICK a \in Split!PieceStarts(s), n \in Nat :
        p = a + n * LineMax /\ (p = a \/ Split!Ends(s) \cap (a..p) = {})
  BY DEF Split!BeginsBlock
<1>2. PICK b \in Split!PieceStarts(s), m \in Nat :
        q = b + m * LineMax /\ (q = b \/ Split!Ends(s) \cap (b..q) = {})
  <2>1. PICK b \in Split!PieceStarts(s) : \E m \in 0..Len(s) :
          q = b + m * LineMax /\ (q = b \/ Split!Ends(s) \cap (b..q) = {})
    BY DEF Split!BeginsBlock
  <2> QED
    BY <2>1
<1>3. /\ a \in Nat /\ b \in Nat
      /\ n * LineMax \in Nat /\ m * LineMax \in Nat
  BY PieceStartsType
<1>4. p \in Nat /\ q \in Nat /\ a <= p /\ b <= q
  BY <1>1, <1>2, <1>3
\* A piece that begins behind p ends one that p is in.
<1>5. ASSUME NEW d \in Split!PieceStarts(s), p < d, d <= q
      PROVE  \E i \in Split!Ends(s) : p <= i /\ i + 2 <= q
  <2>0. d \in Nat
    BY PieceStartsType
  <2>1. d - 2 \in Split!Ends(s) /\ a <= d - 2
    BY <1>3, <1>4, <1>5, <2>0, PiecesApart
  <2>2. p <= d - 2
    <3>1. CASE p = a
      BY <2>1, <3>1
    <3>2. CASE Split!Ends(s) \cap (a..p) = {}
      BY <1>3, <1>4, <2>0, <2>1, <3>2, EndsType
    <3> QED
      BY <1>1, <3>1, <3>2
  <2>3. (d - 2) + 2 <= q
    BY <1>5, <2>0
  <2> QED
    BY <2>1, <2>2, <2>3
<1>6. CASE p < b
  BY <1>4, <1>5, <1>6
<1>7. CASE b <= p /\ q \in Split!PieceStarts(s)
  BY <1>4, <1>5, <1>7
<1>8. CASE b <= p /\ q \notin Split!PieceStarts(s)
  <2>1. q # b /\ Split!Ends(s) \cap (b..q) = {}
    BY <1>2, <1>8
  <2>2. Split!Ends(s) \cap (p..q) = {}
    BY <1>3, <1>4, <1>8, <2>1
  <2>3. a = b
    <3>1. ASSUME a < b PROVE FALSE
      <4>1. b - 2 \in Split!Ends(s) /\ a <= b - 2
        BY <3>1, PiecesApart
      <4>2. p # a /\ Split!Ends(s) \cap (a..p) = {}
        BY <1>1, <1>3, <1>4, <1>8, <3>1
      <4> QED
        BY <1>3, <1>4, <1>8, <4>1, <4>2
    <3>2. ASSUME b < a PROVE FALSE
      <4>1. a - 2 \in Split!Ends(s) /\ b <= a - 2
        BY <3>2, PiecesApart
      <4> QED
        BY <1>3, <1>4, <2>1, <4>1
    <3> QED
      BY <1>3, <3>1, <3>2
  <2>4. p + LineMax <= q
    BY <1>1, <1>2, <1>3, <2>3, Multiples
  <2> QED
    BY <1>8, <2>2, <2>4
<1> QED
  BY <1>3, <1>4, <1>6, <1>7, <1>8

\* No block begins between the two bytes of a CRLF.
LEMMA NotWithinEnd ==
  ASSUME NEW s \in Seq(Bytes), NEW i \in Split!Ends(s)
  PROVE  ~Split!BeginsBlock(s, i + 1)
<1> USE FramingAssumption
<1>1. SUFFICES ASSUME Split!BeginsBlock(s, i + 1) PROVE FALSE
  OBVIOUS
<1>2. PICK a \in Split!PieceStarts(s) : \E n \in 0..Len(s) :
        i + 1 = a + n * LineMax /\ (i + 1 = a \/ Split!Ends(s) \cap (a..(i + 1)) = {})
  BY <1>1 DEF Split!BeginsBlock
<1>3. PICK n \in Nat :
        i + 1 = a + n * LineMax /\ (i + 1 = a \/ Split!Ends(s) \cap (a..(i + 1)) = {})
  BY <1>2
<1>4. i \in Nat /\ i >= 1 /\ a \in Nat /\ n * LineMax \in Nat
  BY EndsType, PieceStartsType
<1>5. CASE i + 1 = a
  <2>1. PICK j \in Split!Ends(s) : a = j + 2
    BY <1>4, <1>5 DEF Split!PieceStarts
  <2>2. j \in Nat /\ j + 1 = i
    BY <1>4, <1>5, <2>1, EndsType
  <2> QED
    BY <2>2, EndsApart
<1>6. CASE i + 1 # a
  <2>1. a <= i
    BY <1>3, <1>4, <1>6
  <2>2. i \in a..(i + 1)
    BY <1>4, <2>1
  <2> QED
    BY <1>3, <1>6, <2>2
<1> QED
  BY <1>5, <1>6

\* The length of a line is the only one that fits: it goes up to a CRLF or to
\* LineMax.
LEMMA LengthUnique ==
  ASSUME NEW s \in Seq(Bytes), NEW p \in Nat, NEW n \in 0..LineMax,
         Split!Ends(s) \cap (p..(p + n - 1)) = {},
         n = LineMax \/ p + n \in Split!Ends(s)
  PROVE  Split!LineLength(s, p) = n
<1> USE FramingAssumption
<1> DEFINE Fits(m) == /\ Split!Ends(s) \cap (p..(p + m - 1)) = {}
                      /\ m = LineMax \/ p + m \in Split!Ends(s)
<1>1. ASSUME NEW m \in 0..LineMax, NEW l \in 0..LineMax, m < l, Fits(m), Fits(l)
      PROVE  FALSE
  <2>1. p + m \in Split!Ends(s)
    BY <1>1
  <2>2. p + m \in p..(p + l - 1)
    BY <1>1
  <2> QED
    BY <1>1, <2>1, <2>2
<1>2. \A m \in 0..LineMax : Fits(m) => m = n
  <2> SUFFICES ASSUME NEW m \in 0..LineMax, Fits(m) PROVE m = n
    OBVIOUS
  <2>1. Fits(n)
    OBVIOUS
  <2> HIDE DEF Fits
  <2>2. ~(m < n) /\ ~(n < m)
    BY <1>1, <2>1
  <2> QED
    BY <2>2
<1>3. Fits(n)
  OBVIOUS
<1>4. Split!LineLength(s, p) = CHOOSE m \in 0..LineMax : Fits(m)
  BY DEF Split!LineLength
<1> HIDE DEF Fits
<1> QED
  BY <1>2, <1>3, <1>4

\* Every line has such a length.
LEMMA LengthExists ==
  ASSUME NEW s \in Seq(Bytes), NEW p \in Nat
  PROVE  \E n \in 0..LineMax :
           /\ Split!LineLength(s, p) = n
           /\ Split!Ends(s) \cap (p..(p + n - 1)) = {}
           /\ n = LineMax \/ p + n \in Split!Ends(s)
<1> USE FramingAssumption
<1> DEFINE here == Split!Ends(s) \cap (p..(p + LineMax))
<1>1. CASE here = {}
  <2>1. Split!Ends(s) \cap (p..(p + LineMax - 1)) = {}
    BY <1>1
  <2>2. LineMax \in 0..LineMax
    OBVIOUS
  <2> QED
    BY <2>1, <2>2, LengthUnique
<1>2. CASE here # {}
  <2>1. here \in SUBSET Nat
    BY EndsType
  <2>2. PICK e \in here : \A j \in here : e <= j
    BY <1>2, <2>1, Smallest
  <2>3. e \in Nat /\ p <= e /\ e <= p + LineMax /\ e \in Split!Ends(s)
    BY <2>1, <2>2
  <2>4. PICK n \in 0..LineMax : p + n = e
    <3>1. e - p \in 0..LineMax /\ p + (e - p) = e
      BY <2>3
    <3> QED
      BY <3>1
  <2>5. Split!Ends(s) \cap (p..(p + n - 1)) = {}
    <3>1. ASSUME NEW j \in Split!Ends(s), j \in p..(p + n - 1) PROVE FALSE
      <4>1. j \in here /\ j < e
        BY <2>3, <2>4, <3>1
      <4> QED
        BY <2>2, <2>3, <4>1, <3>1
    <3> QED
      BY <3>1
  <2>6. p + n \in Split!Ends(s)
    BY <2>3, <2>4
  <2> QED
    BY <2>5, <2>6, LengthUnique
<1> QED
  BY <1>1, <1>2

\* More bytes add CRLFs only behind the last but one that was there.
LEMMA EndsExtend ==
  ASSUME NEW s \in Seq(Bytes), NEW u \in Seq(Bytes)
  PROVE  /\ s \o u \in Seq(Bytes) /\ Len(s \o u) = Len(s) + Len(u)
         /\ Split!Ends(s) \subseteq Split!Ends(s \o u)
         /\ \A i \in Split!Ends(s \o u) : i + 1 <= Len(s) => i \in Split!Ends(s)
<1>1. /\ s \o u \in Seq(Bytes) /\ Len(s \o u) = Len(s) + Len(u)
      /\ \A i \in 1..Len(s) : (s \o u)[i] = s[i]
  OBVIOUS
<1>2. ASSUME NEW i \in Nat, i >= 1, i + 1 <= Len(s)
      PROVE  i \in Split!Ends(s) <=> i \in Split!Ends(s \o u)
  <2>1. (s \o u)[i] = s[i] /\ (s \o u)[i + 1] = s[i + 1]
    BY <1>1, <1>2
  <2>2. i \in 1..(Len(s) - 1) /\ i \in 1..(Len(s \o u) - 1)
    BY <1>1, <1>2
  <2> QED
    BY <2>1, <2>2 DEF Split!Ends
<1>3. Split!Ends(s) \subseteq Split!Ends(s \o u)
  BY <1>2, EndsType
<1>4. \A i \in Split!Ends(s \o u) : i + 1 <= Len(s) => i \in Split!Ends(s)
  <2>1. Split!Ends(s \o u) \subseteq Nat \ {0}
    BY <1>1, EndsType
  <2> QED
    BY <1>2, <2>1
<1> QED
  BY <1>1, <1>3, <1>4

LEMMA PartElements ==
  ASSUME NEW s \in Seq(Bytes), NEW p \in Nat \ {0}, NEW m \in Int, m <= Len(s)
  PROVE  /\ SubSeq(s, p, m) \in Seq(Bytes)
         /\ Len(SubSeq(s, p, m)) = IF p <= m THEN m - p + 1 ELSE 0
         /\ \A i \in 1..(m - p + 1) : SubSeq(s, p, m)[i] = s[p + i - 1]
<1>1. \A i \in p..m : s[i] \in Bytes
  OBVIOUS
<1>2. p \in Int
  OBVIOUS
<1> QED
  BY <1>1, <1>2, SubSeqProperties

LEMMA SamePart ==
  ASSUME NEW s \in Seq(Bytes), NEW t \in Seq(Bytes), NEW p \in Nat \ {0}, NEW m \in Int,
         m <= Len(s), m <= Len(t), \A i \in p..m : s[i] = t[i]
  PROVE  SubSeq(s, p, m) = SubSeq(t, p, m)
<1> DEFINE x == SubSeq(s, p, m)
           y == SubSeq(t, p, m)
<1>1. /\ x \in Seq(Bytes)
      /\ Len(x) = IF p <= m THEN m - p + 1 ELSE 0
      /\ \A i \in 1..(m - p + 1) : x[i] = s[p + i - 1]
  BY PartElements
<1>2. /\ y \in Seq(Bytes)
      /\ Len(y) = IF p <= m THEN m - p + 1 ELSE 0
      /\ \A i \in 1..(m - p + 1) : y[i] = t[p + i - 1]
  BY PartElements
<1> HIDE DEF x, y
<1>3. Len(x) = Len(y)
  BY <1>1, <1>2
<1>4. ASSUME NEW i \in 1..Len(x) PROVE x[i] = y[i]
  <2>1. i \in 1..(m - p + 1) /\ p + i - 1 \in p..m
    BY <1>1
  <2> QED
    BY <1>1, <1>2, <2>1
<1>5. x = y
  BY <1>1, <1>2, <1>3, <1>4, SeqEqual
<1> QED
  BY <1>5 DEF x, y

\* A line that is known to end stays what it is.
LEMMA SameLine ==
  ASSUME NEW s \in Seq(Bytes), NEW u \in Seq(Bytes), NEW p \in Nat \ {0},
         Split!Complete(s, p)
  PROVE  Split!LineAt(s \o u, p) = Split!LineAt(s, p)
<1> USE FramingAssumption
<1>1. PICK n \in 0..LineMax :
        /\ Split!LineLength(s, p) = n
        /\ Split!Ends(s) \cap (p..(p + n - 1)) = {}
        /\ n = LineMax \/ p + n \in Split!Ends(s)
  BY LengthExists
<1>2. p + n + 1 <= Len(s)
  <2>1. CASE p + n \in Split!Ends(s)
    BY <2>1, EndsType
  <2>2. CASE n = LineMax /\ p + LineMax < Len(s)
    BY <2>2
  <2>3. ASSUME n = LineMax, NEW i \in Split!Ends(s), i \in p..(p + LineMax)
        PROVE  p + n + 1 <= Len(s)
    <3>1. i = p + n
      BY <1>1, <2>3
    <3> QED
      BY <2>3, <3>1, EndsType
  <2> QED
    BY <1>1, <2>1, <2>2, <2>3 DEF Split!Complete
<1>3. Split!Ends(s \o u) \cap (p..(p + n - 1)) = {}
  <2>1. SUFFICES ASSUME NEW i \in Split!Ends(s \o u), i \in p..(p + n - 1) PROVE FALSE
    OBVIOUS
  <2>2. i \in Split!Ends(s)
    BY <1>2, <2>1, EndsExtend
  <2> QED
    BY <1>1, <2>1, <2>2
<1>4. n = LineMax \/ p + n \in Split!Ends(s \o u)
  BY <1>1, EndsExtend
<1>5. Split!LineLength(s \o u, p) = n
  BY <1>3, <1>4, LengthUnique, EndsExtend
<1>6. SubSeq(s \o u, p, p + n - 1) = SubSeq(s, p, p + n - 1)
  <2>1. /\ s \o u \in Seq(Bytes) /\ Len(s \o u) = Len(s) + Len(u)
        /\ \A i \in 1..Len(s) : (s \o u)[i] = s[i]
    OBVIOUS
  <2>2. PICK m \in Int : m = p + n - 1
    OBVIOUS
  <2>3. m <= Len(s) /\ m <= Len(s \o u)
    BY <1>2, <2>1, <2>2
  <2>4. \A i \in p..m : (s \o u)[i] = s[i]
    BY <2>1, <2>3
  <2>5. SubSeq(s \o u, p, m) = SubSeq(s, p, m)
    BY <2>1, <2>3, <2>4, SamePart
  <2> QED
    BY <2>2, <2>5
<1> QED
  BY <1>1, <1>5, <1>6 DEF Split!LineAt

\* Where extractMessage may have cut: a block begins there, and it is known that
\* the block before it has ended.
Settled(s, p) ==
  /\ p \in 1..(Len(s) + 1)
  /\ Split!BeginsBlock(s, p)
  /\ p \in Split!PieceStarts(s) \/ p < Len(s)

\* The blocks in front of it.
Before(s, p) == {q \in 1..(p - 1) : Split!BeginsBlock(s, q)}

\* ... end, all of them.
LEMMA BeforeComplete ==
  ASSUME NEW s \in Seq(Bytes), NEW p, Settled(s, p), NEW q \in Before(s, p)
  PROVE  Split!Complete(s, q)
<1> USE FramingAssumption
<1>1. p \in Nat /\ q \in Nat /\ q < p /\ q >= 1 /\ p <= Len(s) + 1
  BY DEF Settled, Before
<1>2. Split!BeginsBlock(s, q) /\ Split!BeginsBlock(s, p)
  BY DEF Settled, Before
<1>3. ASSUME NEW i \in Split!Ends(s), q <= i, i + 2 <= p PROVE Split!Complete(s, q)
  <2>1. i \in Nat /\ i + 1 <= Len(s)
    BY EndsType
  <2>2. CASE i <= q + LineMax
    BY <1>1, <1>3, <2>1, <2>2 DEF Split!Complete
  <2>3. CASE q + LineMax < i
    BY <1>1, <2>1, <2>3 DEF Split!Complete
  <2> QED
    BY <1>1, <2>1, <2>2, <2>3
<1>4. CASE q + LineMax <= p /\ p \notin Split!PieceStarts(s)
  BY <1>1, <1>4 DEF Split!Complete, Settled
<1> QED
  BY <1>1, <1>2, <1>3, <1>4, BlocksApart

\* Where blocks begin does not change, but near the end of what has come.
LEMMA SameBlocks ==
  ASSUME NEW s \in Seq(Bytes), NEW u \in Seq(Bytes), NEW q \in Nat \ {0}, q < Len(s)
  PROVE  Split!BeginsBlock(s, q) <=> Split!BeginsBlock(s \o u, q)
<1> USE FramingAssumption
<1> DEFINE t == s \o u
<1>1. /\ t \in Seq(Bytes) /\ Len(t) = Len(s) + Len(u)
      /\ Split!Ends(s) \subseteq Split!Ends(t)
      /\ \A i \in Split!Ends(t) : i + 1 <= Len(s) => i \in Split!Ends(s)
  BY EndsExtend
<1> HIDE DEF t
<1>2. Split!PieceStarts(s) \subseteq Split!PieceStarts(t)
  BY <1>1 DEF Split!PieceStarts
<1>3. ASSUME NEW a \in Split!PieceStarts(t), a <= q PROVE a \in Split!PieceStarts(s)
  <2>1. CASE a = 1
    BY <2>1 DEF Split!PieceStarts
  <2>2. ASSUME NEW i \in Split!Ends(t), a = i + 2 PROVE a \in Split!PieceStarts(s)
    <3>1. i \in Nat /\ i + 1 <= Len(s)
      BY <1>1, <1>3, <2>2, EndsType
    <3> QED
      BY <1>1, <2>2, <3>1 DEF Split!PieceStarts
  <2> QED
    BY <2>1, <2>2 DEF Split!PieceStarts
<1>4. ASSUME NEW a \in Nat
      PROVE  Split!Ends(s) \cap (a..q) = Split!Ends(t) \cap (a..q)
  <2>1. ASSUME NEW i \in Split!Ends(t), i \in a..q PROVE i \in Split!Ends(s)
    BY <1>1, <2>1
  <2> QED
    BY <1>1, <2>1
<1>5. ASSUME Split!BeginsBlock(s, q) PROVE Split!BeginsBlock(t, q)
  <2>1. PICK a \in Split!PieceStarts(s) : \E n \in 0..Len(s) :
          q = a + n * LineMax /\ (q = a \/ Split!Ends(s) \cap (a..q) = {})
    BY <1>5 DEF Split!BeginsBlock
  <2>2. PICK n \in 0..Len(s) :
          q = a + n * LineMax /\ (q = a \/ Split!Ends(s) \cap (a..q) = {})
    BY <2>1
  <2>3. a \in Nat /\ n \in 0..Len(t) /\ a \in Split!PieceStarts(t)
    BY <1>1, <1>2, PieceStartsType
  <2> QED
    BY <1>4, <2>2, <2>3 DEF Split!BeginsBlock
<1>6. ASSUME Split!BeginsBlock(t, q) PROVE Split!BeginsBlock(s, q)
  <2>1. PICK a \in Split!PieceStarts(t) : \E n \in 0..Len(t) :
          q = a + n * LineMax /\ (q = a \/ Split!Ends(t) \cap (a..q) = {})
    BY <1>6 DEF Split!BeginsBlock
  <2>2. PICK n \in 0..Len(t) :
          q = a + n * LineMax /\ (q = a \/ Split!Ends(t) \cap (a..q) = {})
    BY <2>1
  <2>3. a \in Nat \ {0}
    BY <1>1, PieceStartsType
  <2>4. n \in Nat /\ n <= n * LineMax /\ n * LineMax \in Nat
    BY <1>1, FewBlocks
  <2>5. a <= q /\ n \in 0..Len(s)
    BY <2>2, <2>3, <2>4
  <2>6. a \in Split!PieceStarts(s)
    BY <1>3, <2>5
  <2> QED
    BY <1>4, <2>2, <2>3, <2>5, <2>6 DEF Split!BeginsBlock
<1> QED
  BY <1>5, <1>6 DEF t

LEMMA PieceBegins ==
  ASSUME NEW s \in Seq(Bytes), NEW p \in Split!PieceStarts(s)
  PROVE  Split!BeginsBlock(s, p)
<1>1. p \in Nat /\ LineMax \in Nat /\ Len(s) \in Nat
  BY FramingAssumption, PieceStartsType
<1>2. p = p + 0 * LineMax /\ 0 \in 0..Len(s)
  BY <1>1
<1> QED
  BY <1>2 DEF Split!BeginsBlock

\* What is settled stays so whatever comes.
LEMMA SettledStays ==
  ASSUME NEW s \in Seq(Bytes), NEW u \in Seq(Bytes), NEW p, Settled(s, p)
  PROVE  /\ Settled(s \o u, p)
         /\ Before(s \o u, p) = Before(s, p)
<1>1. /\ s \o u \in Seq(Bytes) /\ Len(s \o u) = Len(s) + Len(u)
      /\ Split!Ends(s) \subseteq Split!Ends(s \o u)
  BY EndsExtend
<1>2. p \in Nat \ {0} /\ p <= Len(s) + 1 /\ Split!BeginsBlock(s, p)
  BY DEF Settled
<1>3. Split!PieceStarts(s) \subseteq Split!PieceStarts(s \o u)
  BY <1>1 DEF Split!PieceStarts
<1>4. CASE p \in Split!PieceStarts(s)
  <2>1. p \in Split!PieceStarts(s \o u) /\ p \in 1..(Len(s \o u) + 1)
    BY <1>1, <1>2, <1>3, <1>4
  <2>2. Settled(s \o u, p)
    BY <1>1, <2>1, PieceBegins DEF Settled
  <2>3. ASSUME NEW q \in 1..(p - 1)
        PROVE  Split!BeginsBlock(s, q) <=> Split!BeginsBlock(s \o u, q)
    <3>1. CASE q < Len(s)
      BY <1>2, <3>1, SameBlocks
    <3>2. CASE ~(q < Len(s))
      <4>1. q \in Nat /\ q >= 1 /\ q + 1 = p
        BY <1>2, <3>2
      <4>2. PICK i \in Split!Ends(s) : p = i + 2
        BY <1>4, <4>1 DEF Split!PieceStarts
      <4>3. q = i + 1 /\ i \in Split!Ends(s \o u)
        BY <1>1, <4>1, <4>2, EndsType
      <4> QED
        BY <1>1, <4>3, NotWithinEnd
    <3> QED
      BY <3>1, <3>2
  <2> QED
    BY <2>2, <2>3 DEF Before
<1>5. CASE p < Len(s)
  <2>1. Split!BeginsBlock(s \o u, p)
    BY <1>2, <1>5, SameBlocks
  <2>2. p \in 1..(Len(s \o u) + 1) /\ p < Len(s \o u)
    BY <1>1, <1>2, <1>5
  <2>3. Settled(s \o u, p)
    BY <2>1, <2>2 DEF Settled
  <2>4. ASSUME NEW q \in 1..(p - 1)
        PROVE  Split!BeginsBlock(s, q) <=> Split!BeginsBlock(s \o u, q)
    <3>1. q \in Nat \ {0} /\ q < Len(s)
      BY <1>2, <1>5
    <3> QED
      BY <3>1, SameBlocks
  <2> QED
    BY <2>3, <2>4 DEF Before
<1> QED
  BY <1>4, <1>5 DEF Settled

\* ls are the lines in front of p, in their order.
Told(s, p, ls) ==
  /\ Len(ls) = Cardinality(Before(s, p))
  /\ \A k \in 1..Len(ls) : \E q \in Before(s, p) :
       Split!Rank(Before(s, p), q) = k /\ ls[k] = Split!LineAt(s, q)

\* The invariant: the buffer holds the stream from a settled place on, and all
\* lines in front of it have been extracted.
Framed ==
  NulFree(heard) =>
    \E p \in 1..(Len(heard) + 1) :
      /\ recvBuffer = SubSeq(heard, p, Len(heard))
      /\ Settled(heard, p)
      /\ Told(heard, p, lines)

LEMMA ToldStays ==
  ASSUME NEW s \in Seq(Bytes), NEW u \in Seq(Bytes), NEW p, Settled(s, p),
         NEW ls, Told(s, p, ls)
  PROVE  Told(s \o u, p, ls)
<1>1. Before(s \o u, p) = Before(s, p)
  BY SettledStays
<1>2. ASSUME NEW q \in Before(s, p)
      PROVE  Split!LineAt(s \o u, q) = Split!LineAt(s, q)
  <2>1. q \in Nat \ {0}
    BY DEF Before, Settled
  <2> QED
    BY <2>1, BeforeComplete, SameLine
<1> QED
  BY <1>1, <1>2 DEF Told

\* The rest of a stream that grows grows with it.
LEMMA RestGrows ==
  ASSUME NEW s \in Seq(Bytes), NEW u \in Seq(Bytes), NEW p \in 1..(Len(s) + 1)
  PROVE  SubSeq(s, p, Len(s)) \o u = SubSeq(s \o u, p, Len(s \o u))
<1> DEFINE t == s \o u
           x == SubSeq(s, p, Len(s))
           y == SubSeq(t, p, Len(t))
           z == x \o u
<1>1. /\ t \in Seq(Bytes) /\ Len(t) = Len(s) + Len(u)
      /\ \A i \in 1..(Len(s) + Len(u)) : t[i] = IF i <= Len(s) THEN s[i] ELSE u[i - Len(s)]
  BY ConcatProperties
<1> HIDE DEF t
<1>2. p \in Nat \ {0} /\ Len(s) \in Nat /\ Len(u) \in Nat /\ p <= Len(s) + 1
  OBVIOUS
<1>3. /\ x \in Seq(Bytes)
      /\ Len(x) = Len(s) - p + 1
      /\ \A i \in 1..(Len(s) - p + 1) : x[i] = s[p + i - 1]
  <2>1. /\ x \in Seq(Bytes)
        /\ Len(x) = IF p <= Len(s) THEN Len(s) - p + 1 ELSE 0
        /\ \A i \in 1..(Len(s) - p + 1) : x[i] = s[p + i - 1]
    BY <1>2, PartElements
  <2> QED
    BY <1>2, <2>1
<1>4. /\ y \in Seq(Bytes)
      /\ Len(y) = Len(t) - p + 1
      /\ \A i \in 1..(Len(t) - p + 1) : y[i] = t[p + i - 1]
  <2>1. /\ y \in Seq(Bytes)
        /\ Len(y) = IF p <= Len(t) THEN Len(t) - p + 1 ELSE 0
        /\ \A i \in 1..(Len(t) - p + 1) : y[i] = t[p + i - 1]
    BY <1>1, <1>2, PartElements
  <2> QED
    BY <1>1, <1>2, <2>1
<1> HIDE DEF x, y
<1>5. /\ z \in Seq(Bytes) /\ Len(z) = Len(x) + Len(u)
      /\ \A i \in 1..(Len(x) + Len(u)) : z[i] = IF i <= Len(x) THEN x[i] ELSE u[i - Len(x)]
  BY <1>3, ConcatProperties
<1> HIDE DEF z
<1>6. Len(z) = Len(y)
  BY <1>1, <1>2, <1>3, <1>4, <1>5
<1>7. ASSUME NEW i \in 1..Len(z) PROVE z[i] = y[i]
  <2>1. i \in 1..(Len(t) - p + 1) /\ p + i - 1 \in 1..(Len(s) + Len(u))
    BY <1>1, <1>2, <1>3, <1>5
  <2>2. y[i] = t[p + i - 1]
    BY <1>4, <2>1
  <2>3. CASE i <= Len(x)
    <3>1. p + i - 1 <= Len(s) /\ i \in 1..(Len(s) - p + 1) /\ i \in 1..(Len(x) + Len(u))
      BY <1>2, <1>3, <2>1, <2>3
    <3> QED
      BY <1>1, <1>3, <1>5, <2>1, <2>2, <2>3, <3>1
  <2>4. CASE ~(i <= Len(x))
    <3>1. ~(p + i - 1 <= Len(s)) /\ i - Len(x) = (p + i - 1) - Len(s)
      BY <1>2, <1>3, <2>4
    <3>2. i \in 1..(Len(x) + Len(u))
      BY <1>2, <1>3, <1>5
    <3>3. z[i] = u[i - Len(x)]
      BY <1>5, <2>4, <3>2
    <3>4. t[p + i - 1] = u[(p + i - 1) - Len(s)]
      BY <1>1, <2>1, <3>1
    <3> QED
      BY <2>2, <3>1, <3>3, <3>4
  <2> QED
    BY <2>3, <2>4
<1>8. z = y
  BY <1>4, <1>5, <1>6, <1>7, SeqEqual
<1> QED
  BY <1>8 DEF t, x, y, z

LEMMA RecvKeepsFramed ==
  ASSUME RecvInv, Framed, NEW chunk \in Seq(Bytes), Recv(chunk)
  PROVE  Framed'
<1>1. heard \in Seq(Bytes) /\ lines \in Seq(Seq(Bytes))
  BY DEF RecvInv, RecvTypeOK
<1>2. heard' = heard \o chunk /\ recvBuffer' = recvBuffer \o CString(chunk) /\ lines' = lines
  BY DEF Recv
<1>3. SUFFICES ASSUME NulFree(heard \o chunk)
               PROVE  \E p \in 1..(Len(heard \o chunk) + 1) :
                        /\ recvBuffer' = SubSeq(heard \o chunk, p, Len(heard \o chunk))
                        /\ Settled(heard \o chunk, p)
                        /\ Told(heard \o chunk, p, lines)
  BY <1>2 DEF Framed
<1>4. NulFree(heard) /\ \A i \in 1..Len(chunk) : chunk[i] # NUL
  <2>1. /\ Len(heard \o chunk) = Len(heard) + Len(chunk)
        /\ \A i \in 1..(Len(heard) + Len(chunk)) :
             (heard \o chunk)[i] = IF i <= Len(heard) THEN heard[i] ELSE chunk[i - Len(heard)]
    BY <1>1, ConcatProperties
  <2>2. ASSUME NEW i \in 1..Len(heard) PROVE heard[i] # NUL
    <3>1. i \in 1..(Len(heard) + Len(chunk)) /\ i <= Len(heard)
      BY <1>1
    <3> QED
      BY <1>3, <2>1, <3>1 DEF NulFree
  <2>3. ASSUME NEW i \in 1..Len(chunk) PROVE chunk[i] # NUL
    <3>1. PICK j \in 1..(Len(heard) + Len(chunk)) : j = Len(heard) + i
      BY <1>1
    <3>2. ~(j <= Len(heard)) /\ j - Len(heard) = i
      BY <1>1, <3>1
    <3>3. (heard \o chunk)[j] = chunk[i]
      BY <2>1, <3>1, <3>2
    <3> QED
      BY <1>3, <2>1, <3>3 DEF NulFree
  <2> QED
    BY <2>2, <2>3 DEF NulFree
<1>5. CString(chunk) = chunk
  BY <1>4 DEF CString
<1>6. PICK p \in 1..(Len(heard) + 1) :
        /\ recvBuffer = SubSeq(heard, p, Len(heard))
        /\ Settled(heard, p)
        /\ Told(heard, p, lines)
  BY <1>4 DEF Framed
<1>7. recvBuffer' = SubSeq(heard \o chunk, p, Len(heard \o chunk))
  BY <1>1, <1>2, <1>5, <1>6, RestGrows
<1>8. Settled(heard \o chunk, p) /\ Told(heard \o chunk, p, lines)
  BY <1>1, <1>6, SettledStays, ToldStays
<1>9. p \in 1..(Len(heard \o chunk) + 1)
  BY <1>8 DEF Settled
<1> QED
  BY <1>7, <1>8, <1>9

\* The instance counts as everyone does.
LEMMA SplitCounts ==
  ASSUME NEW S
  PROVE  Split!Cardinality(S) = Cardinality(S)
BY DEF Split!Cardinality, Cardinality

LEMMA RankCounts ==
  ASSUME NEW S, NEW p
  PROVE  Split!Rank(S, p) = Cardinality({q \in S : q <= p})
BY SplitCounts DEF Split!Rank

LEMMA BeforeFinite ==
  ASSUME NEW s, NEW p \in Nat
  PROVE  IsFiniteSet(Before(s, p)) /\ Cardinality(Before(s, p)) \in Nat
<1>1. IsFiniteSet(1..(p - 1))
  BY FS_Interval
<1>2. Before(s, p) \in SUBSET (1..(p - 1))
  BY DEF Before
<1> QED
  BY <1>1, <1>2, FS_Subset, FS_CardinalityType

\* The line at p is the next one.
LEMMA ToldMore ==
  ASSUME NEW s \in Seq(Bytes), NEW p \in Nat \ {0}, NEW b \in Nat,
         NEW ls \in Seq(Seq(Bytes)), NEW line \in Seq(Bytes),
         Told(s, p, ls), line = Split!LineAt(s, p),
         Before(s, b) = Before(s, p) \cup {p}
  PROVE  Told(s, b, Append(ls, line))
<1> DEFINE B == Before(s, p)
           new == Append(ls, line)
<1>1. /\ IsFiniteSet(B) /\ Cardinality(B) \in Nat
      /\ \A q \in B : q \in Nat /\ q < p
  <2>1. IsFiniteSet(B) /\ Cardinality(B) \in Nat
    BY BeforeFinite
  <2>2. \A q \in B : q \in Nat /\ q < p
    BY DEF Before
  <2> QED
    BY <2>1, <2>2
<1>2. p \notin B
  BY <1>1
<1> HIDE DEF B
<1>3. Before(s, b) = B \cup {p}
  BY DEF B
<1>4. IsFiniteSet(B \cup {p}) /\ Cardinality(B \cup {p}) = Cardinality(B) + 1
  BY <1>1, <1>2, FS_AddElement
<1>5. /\ new \in Seq(Seq(Bytes)) /\ Len(new) = Len(ls) + 1
      /\ new[Len(ls) + 1] = line
      /\ \A k \in 1..Len(ls) : new[k] = ls[k]
  OBVIOUS
<1> HIDE DEF new
<1>6. /\ Len(ls) = Cardinality(B)
      /\ \A k \in 1..Len(ls) : \E q \in B : Split!Rank(B, q) = k /\ ls[k] = Split!LineAt(s, q)
  BY DEF Told, B
<1>7. ASSUME NEW q \in B PROVE Split!Rank(B \cup {p}, q) = Split!Rank(B, q)
  <2>1. {r \in B \cup {p} : r <= q} = {r \in B : r <= q}
    BY <1>1
  <2> QED
    BY <2>1 DEF Split!Rank
<1>8. Split!Rank(B \cup {p}, p) = Len(ls) + 1
  <2>1. {r \in B \cup {p} : r <= p} = B \cup {p}
    BY <1>1
  <2>2. Split!Rank(B \cup {p}, p) = Cardinality({r \in B \cup {p} : r <= p})
    BY RankCounts
  <2> QED
    BY <1>4, <1>6, <2>1, <2>2
<1>9. ASSUME NEW k \in 1..Len(new)
      PROVE  \E q \in B \cup {p} :
               Split!Rank(B \cup {p}, q) = k /\ new[k] = Split!LineAt(s, q)
  <2>1. CASE k \in 1..Len(ls)
    BY <1>5, <1>6, <1>7, <2>1
  <2>2. CASE k = Len(ls) + 1
    BY <1>5, <1>8, <2>2
  <2>3. k \in 1..Len(ls) \/ k = Len(ls) + 1
    BY <1>5
  <2> QED
    BY <2>1, <2>2, <2>3
<1>10. Len(new) = Cardinality(B \cup {p})
  BY <1>4, <1>5, <1>6
<1> QED
  BY <1>3, <1>9, <1>10 DEF Told, new

\* Where a CRLF is in the buffer, there is one in the stream.
LEMMA BufferEnds ==
  ASSUME NEW s \in Seq(Bytes), NEW p \in 1..(Len(s) + 1), NEW r,
         r = SubSeq(s, p, Len(s))
  PROVE  /\ r \in Seq(Bytes) /\ Len(r) = Len(s) - p + 1
         /\ \A i \in Nat \ {0} : CRLFAt(r, i) <=> p + i - 1 \in Split!Ends(s)
<1>1. p \in Nat \ {0} /\ Len(s) \in Nat /\ p <= Len(s) + 1 /\ Len(s) \in Int
  OBVIOUS
<1>2. /\ r \in Seq(Bytes)
      /\ Len(r) = Len(s) - p + 1
      /\ \A i \in 1..(Len(s) - p + 1) : r[i] = s[p + i - 1]
  <2>1. /\ r \in Seq(Bytes)
        /\ Len(r) = IF p <= Len(s) THEN Len(s) - p + 1 ELSE 0
        /\ \A i \in 1..(Len(s) - p + 1) : r[i] = s[p + i - 1]
    BY <1>1, PartElements
  <2> QED
    BY <1>1, <2>1
<1>3. ASSUME NEW i \in Nat \ {0}
      PROVE  CRLFAt(r, i) <=> p + i - 1 \in Split!Ends(s)
  <2>1. CASE i <= Len(s) - p
    <3>1. r[i] = s[p + i - 1] /\ r[i + 1] = s[p + i]
      <4>1. i \in 1..(Len(s) - p + 1) /\ i + 1 \in 1..(Len(s) - p + 1)
        BY <1>1, <2>1
      <4>2. r[i + 1] = s[p + (i + 1) - 1] /\ p + (i + 1) - 1 = p + i
        BY <1>1, <1>2, <4>1
      <4> QED
        BY <1>2, <4>1, <4>2
    <3>2. i \in 1..(Len(r) - 1) /\ p + i - 1 \in 1..(Len(s) - 1) /\ (p + i - 1) + 1 = p + i
      BY <1>1, <1>2, <2>1
    <3> QED
      BY <3>1, <3>2 DEF CRLFAt, Split!Ends
  <2>2. CASE ~(i <= Len(s) - p)
    <3>1. i \notin 1..(Len(r) - 1) /\ p + i - 1 \notin 1..(Len(s) - 1)
      BY <1>1, <1>2, <2>2
    <3> QED
      BY <3>1 DEF CRLFAt, Split!Ends
  <2> QED
    BY <2>1, <2>2
<1> QED
  BY <1>2, <1>3

\* A block that ends at a CRLF is followed by one behind it.
LEMMA BehindEnd ==
  ASSUME NEW s \in Seq(Bytes), NEW p, Settled(s, p), NEW e \in Split!Ends(s),
         p <= e, e <= p + LineMax, Split!Ends(s) \cap (p..(e - 1)) = {}
  PROVE  Settled(s, e + 2) /\ Before(s, e + 2) = Before(s, p) \cup {p}
<1> USE FramingAssumption
<1>1. /\ p \in Nat \ {0} /\ p <= Len(s) + 1 /\ Split!BeginsBlock(s, p)
      /\ e \in Nat /\ e + 1 <= Len(s)
  BY EndsType DEF Settled
<1>2. e + 2 \in Split!PieceStarts(s)
  BY DEF Split!PieceStarts
<1>3. Settled(s, e + 2)
  BY <1>1, <1>2, PieceBegins DEF Settled
<1>4. ASSUME NEW q \in Nat, p < q, q < e + 2, Split!BeginsBlock(s, q) PROVE FALSE
  <2>1. ASSUME NEW i \in Split!Ends(s), p <= i, i + 2 <= q PROVE FALSE
    <3>1. i \in Nat /\ i \in p..(e - 1)
      BY <1>1, <1>4, <2>1, EndsType
    <3> QED
      BY <3>1
  <2>2. ASSUME p + LineMax <= q, Split!Ends(s) \cap (p..q) = {} PROVE FALSE
    <3>1. e \in p..q
      BY <1>1, <2>2
    <3> QED
      BY <2>2, <3>1
  <2> QED
    BY <1>1, <1>4, <2>1, <2>2, BlocksApart
<1>5. Before(s, e + 2) = Before(s, p) \cup {p}
  <2>1. ASSUME NEW q \in Before(s, e + 2) PROVE q \in Before(s, p) \cup {p}
    <3>1. q \in Nat \ {0} /\ q < e + 2 /\ Split!BeginsBlock(s, q)
      BY <1>1 DEF Before
    <3>2. ~(p < q)
      BY <1>4, <3>1
    <3> QED
      BY <1>1, <3>1, <3>2 DEF Before
  <2>2. ASSUME NEW q \in Before(s, p) \cup {p} PROVE q \in Before(s, e + 2)
    <3>1. q \in 1..p /\ Split!BeginsBlock(s, q)
      BY <1>1 DEF Before
    <3> QED
      BY <1>1, <3>1 DEF Before
  <2> QED
    BY <2>1, <2>2
<1> QED
  BY <1>3, <1>5

\* One that is full is followed by another of the same piece.
LEMMA BehindFull ==
  ASSUME NEW s \in Seq(Bytes), NEW p, Settled(s, p),
         p + LineMax < Len(s), Split!Ends(s) \cap (p..(p + LineMax)) = {}
  PROVE  Settled(s, p + LineMax) /\ Before(s, p + LineMax) = Before(s, p) \cup {p}
<1> USE FramingAssumption
<1>1. p \in Nat \ {0} /\ Split!BeginsBlock(s, p)
  BY DEF Settled
<1>2. PICK a \in Split!PieceStarts(s) : \E n \in 0..Len(s) :
        p = a + n * LineMax /\ (p = a \/ Split!Ends(s) \cap (a..p) = {})
  BY <1>1 DEF Split!BeginsBlock
<1>3. PICK n \in 0..Len(s) :
        p = a + n * LineMax /\ (p = a \/ Split!Ends(s) \cap (a..p) = {})
  BY <1>2
<1>4. /\ a \in Nat \ {0} /\ n \in Nat /\ n * LineMax \in Nat
      /\ n + 1 <= (n + 1) * LineMax /\ (n + 1) * LineMax = n * LineMax + LineMax
  <2>1. a \in Nat \ {0}
    BY PieceStartsType
  <2>2. n \in Nat /\ n + 1 \in Nat /\ LineMax \in Nat \ {0}
    OBVIOUS
  <2>3. n * LineMax \in Nat /\ n + 1 <= (n + 1) * LineMax
    BY <2>2, FewBlocks
  <2>4. (n + 1) * LineMax = n * LineMax + LineMax
    BY <2>2
  <2> QED
    BY <2>1, <2>2, <2>3, <2>4
<1>5. p + LineMax = a + (n + 1) * LineMax /\ n + 1 \in 0..Len(s)
  BY <1>1, <1>3, <1>4
<1>6. Split!Ends(s) \cap (a..(p + LineMax)) = {}
  <2>1. SUFFICES ASSUME NEW i \in Split!Ends(s), i \in a..(p + LineMax) PROVE FALSE
    OBVIOUS
  <2>2. i < p
    BY <1>1, <1>4, <2>1
  <2>3. p # a /\ i \in a..p
    BY <1>1, <1>4, <2>1, <2>2
  <2> QED
    BY <1>3, <2>3
<1>7. Settled(s, p + LineMax)
  <2>1. Split!BeginsBlock(s, p + LineMax)
    BY <1>5, <1>6 DEF Split!BeginsBlock
  <2> QED
    BY <1>1, <2>1 DEF Settled
<1>8. ASSUME NEW q \in Nat, p < q, q < p + LineMax, Split!BeginsBlock(s, q) PROVE FALSE
  <2>1. ASSUME NEW i \in Split!Ends(s), p <= i, i + 2 <= q PROVE FALSE
    <3>1. i \in Nat /\ i \in p..(p + LineMax)
      BY <1>1, <1>8, <2>1, EndsType
    <3> QED
      BY <3>1
  <2>2. ~(p + LineMax <= q)
    BY <1>1, <1>8
  <2> QED
    BY <1>1, <1>8, <2>1, <2>2, BlocksApart
<1>9. Before(s, p + LineMax) = Before(s, p) \cup {p}
  <2>1. ASSUME NEW q \in Before(s, p + LineMax) PROVE q \in Before(s, p) \cup {p}
    <3>1. q \in Nat \ {0} /\ q < p + LineMax /\ Split!BeginsBlock(s, q)
      BY <1>1 DEF Before
    <3>2. ~(p < q)
      BY <1>8, <3>1
    <3> QED
      BY <1>1, <3>1, <3>2 DEF Before
  <2>2. ASSUME NEW q \in Before(s, p) \cup {p} PROVE q \in Before(s, p + LineMax)
    <3>1. q \in 1..p /\ Split!BeginsBlock(s, q)
      BY <1>1 DEF Before
    <3> QED
      BY <1>1, <3>1 DEF Before
  <2> QED
    BY <2>1, <2>2
<1> QED
  BY <1>7, <1>9

\* A part of the buffer is a part of the stream.
LEMMA PartOfRest ==
  ASSUME NEW s \in Seq(Bytes), NEW p \in 1..(Len(s) + 1), NEW r,
         r = SubSeq(s, p, Len(s)),
         NEW m \in Nat \ {0}, NEW n \in Nat, n <= Len(r)
  PROVE  SubSeq(r, m, n) = SubSeq(s, p + m - 1, p + n - 1)
<1> DEFINE x == SubSeq(r, m, n)
           y == SubSeq(s, p + m - 1, p + n - 1)
<1>1. p \in Nat \ {0} /\ Len(s) \in Nat /\ p <= Len(s) + 1 /\ Len(s) \in Int
  OBVIOUS
<1>2. /\ r \in Seq(Bytes)
      /\ Len(r) = Len(s) - p + 1
      /\ \A i \in 1..(Len(s) - p + 1) : r[i] = s[p + i - 1]
  <2>1. /\ r \in Seq(Bytes)
        /\ Len(r) = IF p <= Len(s) THEN Len(s) - p + 1 ELSE 0
        /\ \A i \in 1..(Len(s) - p + 1) : r[i] = s[p + i - 1]
    BY <1>1, PartElements
  <2> QED
    BY <1>1, <2>1
<1>3. PICK a \in Nat \ {0} : a = p + m - 1
  BY <1>1
<1>4. PICK b \in Int : b = p + n - 1
  BY <1>1
<1>5. b <= Len(s)
  BY <1>1, <1>2, <1>4
<1>6. /\ x \in Seq(Bytes)
      /\ Len(x) = IF m <= n THEN n - m + 1 ELSE 0
      /\ \A i \in 1..(n - m + 1) : x[i] = r[m + i - 1]
  BY <1>2, PartElements
<1>7. /\ y \in Seq(Bytes)
      /\ Len(y) = IF a <= b THEN b - a + 1 ELSE 0
      /\ \A i \in 1..(b - a + 1) : y[i] = s[a + i - 1]
  <2>1. y = SubSeq(s, a, b)
    BY <1>3, <1>4
  <2> HIDE DEF y
  <2> QED
    BY <1>5, <2>1, PartElements
<1> HIDE DEF x, y
<1>8. Len(x) = Len(y)
  BY <1>1, <1>3, <1>4, <1>6, <1>7
<1>9. ASSUME NEW i \in 1..Len(x) PROVE x[i] = y[i]
  <2>1. i \in 1..(n - m + 1) /\ i \in 1..(b - a + 1)
    BY <1>1, <1>3, <1>4, <1>6
  <2>2. PICK j \in 1..(Len(s) - p + 1) : j = m + i - 1
    BY <1>1, <1>2, <2>1
  <2>3. p + j - 1 = a + i - 1
    BY <1>1, <1>3, <2>1, <2>2
  <2>4. x[i] = r[j] /\ y[i] = s[a + i - 1]
    BY <1>6, <1>7, <2>1, <2>2
  <2> QED
    BY <1>2, <2>2, <2>3, <2>4
<1> QED
  BY <1>6, <1>7, <1>8, <1>9, SeqEqual DEF x, y

\* What is cut off is the line at the beginning of the buffer, and the rest
\* begins at the next one.
LEMMA ExtractKeepsFramed ==
  ASSUME RecvInv, Framed, ExtractMessage
  PROVE  Framed'
<1> USE FramingAssumption
<1>1. heard \in Seq(Bytes) /\ lines \in Seq(Seq(Bytes)) /\ heard' = heard
  BY DEF RecvInv, RecvTypeOK, ExtractMessage
<1>2. SUFFICES ASSUME NulFree(heard)
               PROVE  \E b \in 1..(Len(heard) + 1) :
                        /\ recvBuffer' = SubSeq(heard, b, Len(heard))
                        /\ Settled(heard, b)
                        /\ Told(heard, b, lines')
  BY <1>1 DEF Framed
<1>3. PICK p \in 1..(Len(heard) + 1) :
        /\ recvBuffer = SubSeq(heard, p, Len(heard))
        /\ Settled(heard, p)
        /\ Told(heard, p, lines)
  BY <1>2 DEF Framed
<1>4. /\ recvBuffer \in Seq(Bytes) /\ Len(recvBuffer) = Len(heard) - p + 1
      /\ \A i \in Nat \ {0} : CRLFAt(recvBuffer, i) <=> p + i - 1 \in Split!Ends(heard)
  BY <1>1, <1>3, BufferEnds
<1>5. p \in Nat \ {0} /\ p <= Len(heard) + 1 /\ Len(heard) \in Nat
  BY <1>1
<1>6. p + Len(recvBuffer) - 1 = Len(heard)
  BY <1>4, <1>5
\* Any cut that leaves a settled place will do.
<1>7. ASSUME NEW n \in 0..LineMax, n <= Len(recvBuffer), NEW d \in Nat \ {0},
             Split!LineLength(heard, p) = n,
             lines' = Append(lines, SubSeq(recvBuffer, 1, n)),
             recvBuffer' = SubSeq(recvBuffer, d + 1, Len(recvBuffer)),
             Settled(heard, p + d),
             Before(heard, p + d) = Before(heard, p) \cup {p}
      PROVE  \E b \in 1..(Len(heard) + 1) :
               /\ recvBuffer' = SubSeq(heard, b, Len(heard))
               /\ Settled(heard, b)
               /\ Told(heard, b, lines')
  <2>1. SubSeq(recvBuffer, 1, n) = Split!LineAt(heard, p)
    <3>1. SubSeq(recvBuffer, 1, n) = SubSeq(heard, p + 1 - 1, p + n - 1)
      BY <1>1, <1>3, <1>4, <1>7, PartOfRest
    <3>2. p + 1 - 1 = p
      BY <1>5
    <3> QED
      BY <1>7, <3>1, <3>2 DEF Split!LineAt
  <2>2. SubSeq(recvBuffer, 1, n) \in Seq(Bytes)
    BY <1>4, <1>7
  <2>3. Told(heard, p + d, lines')
    <3>1. PICK line \in Seq(Bytes) : line = SubSeq(recvBuffer, 1, n)
      BY <2>2
    <3>2. p + d \in Nat
      BY <1>5
    <3>3. Told(heard, p + d, Append(lines, line))
      BY <1>1, <1>3, <1>5, <1>7, <2>1, <3>1, <3>2, ToldMore
    <3> QED
      BY <1>7, <3>1, <3>3
  <2>4. recvBuffer' = SubSeq(heard, p + d, Len(heard))
    <3>1. d + 1 \in Nat \ {0} /\ Len(recvBuffer) \in Nat
      BY <1>4
    <3>2. recvBuffer' = SubSeq(heard, p + (d + 1) - 1, p + Len(recvBuffer) - 1)
      BY <1>1, <1>3, <1>7, <3>1, PartOfRest
    <3>3. p + (d + 1) - 1 = p + d
      BY <1>5
    <3> QED
      BY <1>6, <3>2, <3>3
  <2>5. p + d \in 1..(Len(heard) + 1)
    BY <1>7 DEF Settled
  <2> QED
    BY <1>7, <2>3, <2>4, <2>5
<1>8. ASSUME NEW i \in 1..(LineMax + 1),
             FirstCRLF(recvBuffer, i),
             lines' = Append(lines, SubSeq(recvBuffer, 1, i - 1)),
             recvBuffer' = SubSeq(recvBuffer, i + 2, Len(recvBuffer))
      PROVE  \E b \in 1..(Len(heard) + 1) :
               /\ recvBuffer' = SubSeq(heard, b, Len(heard))
               /\ Settled(heard, b)
               /\ Told(heard, b, lines')
  <2>1. PICK e \in Nat : e = p + i - 1
    BY <1>5
  <2>2. i \in Nat \ {0} /\ e \in Split!Ends(heard) /\ p <= e /\ e <= p + LineMax
    <3>1. i \in Nat \ {0} /\ CRLFAt(recvBuffer, i)
      BY <1>8 DEF FirstCRLF
    <3> QED
      BY <1>4, <1>5, <2>1, <3>1
  <2>3. Split!Ends(heard) \cap (p..(e - 1)) = {}
    <3>1. SUFFICES ASSUME NEW j \in Split!Ends(heard), j \in p..(e - 1) PROVE FALSE
      OBVIOUS
    <3>2. PICK k \in Nat \ {0} : j = p + k - 1
      <4>1. j - p + 1 \in Nat \ {0} /\ j = p + (j - p + 1) - 1
        BY <1>5, <3>1
      <4> QED
        BY <4>1
    <3>3. k \in 1..(i - 1)
      BY <1>5, <2>1, <2>2, <3>1, <3>2
    <3>4. CRLFAt(recvBuffer, k)
      BY <1>4, <3>1, <3>2
    <3> QED
      BY <1>8, <3>3, <3>4 DEF FirstCRLF
  <2>4. PICK n \in 0..LineMax : n = i - 1
    OBVIOUS
  <2>5. Split!LineLength(heard, p) = n
    <3>1. p + n - 1 = e - 1 /\ p + n = e
      BY <1>5, <2>1, <2>4
    <3> QED
      BY <1>1, <1>5, <2>2, <2>3, <3>1, LengthUnique
  <2>6. PICK d \in Nat \ {0} : d = i + 1
    BY <2>2
  <2>7. p + d = e + 2 /\ d + 1 = i + 2
    BY <1>5, <2>1, <2>2, <2>6
  <2>8. Settled(heard, p + d) /\ Before(heard, p + d) = Before(heard, p) \cup {p}
    BY <1>1, <1>3, <2>2, <2>3, <2>7, BehindEnd
  <2>9. n <= Len(recvBuffer)
    BY <1>8, <1>4, <2>2, <2>4 DEF FirstCRLF, CRLFAt
  <2> QED
    BY <1>7, <1>8, <2>4, <2>5, <2>7, <2>8, <2>9
<1>9. ASSUME \A i \in 1..(LineMax + 1) : ~FirstCRLF(recvBuffer, i),
             lines' = Append(lines, SubSeq(recvBuffer, 1, LineMax)),
             recvBuffer' = SubSeq(recvBuffer, LineMax + 1, Len(recvBuffer))
      PROVE  \E b \in 1..(Len(heard) + 1) :
               /\ recvBuffer' = SubSeq(heard, b, Len(heard))
               /\ Settled(heard, b)
               /\ Told(heard, b, lines')
  <2>1. Len(recvBuffer) >= LineMax + 2
    BY <1>9 DEF ExtractMessage, HasLine
  <2>2. /\ p + LineMax < Len(heard) /\ LineMax <= Len(recvBuffer)
        /\ LineMax \in 0..LineMax /\ LineMax \in Nat \ {0}
    <3>1. Len(recvBuffer) = Len(heard) - p + 1
      BY <1>4
    <3> QED
      BY <1>5, <2>1, <3>1
  <2>3. Split!Ends(heard) \cap (p..(p + LineMax)) = {}
    <3>1. SUFFICES ASSUME NEW j \in Split!Ends(heard), j \in p..(p + LineMax) PROVE FALSE
      OBVIOUS
    <3>2. PICK k \in Nat \ {0} : j = p + k - 1
      <4>1. j - p + 1 \in Nat \ {0} /\ j = p + (j - p + 1) - 1
        BY <1>5, <3>1
      <4> QED
        BY <4>1
    <3>3. k <= LineMax + 1 /\ CRLFAt(recvBuffer, k)
      BY <1>4, <1>5, <3>1, <3>2
    <3>4. PICK i \in 1..k : FirstCRLF(recvBuffer, i)
      BY <1>4, <3>3, FirstCRLFExists
    <3>5. i \in 1..(LineMax + 1)
      BY <3>3, <3>4
    <3> QED
      BY <1>9, <3>4, <3>5
  <2>4. Split!LineLength(heard, p) = LineMax
    <3>1. Split!Ends(heard) \cap (p..(p + LineMax - 1)) = {}
      BY <1>5, <2>3
    <3> QED
      BY <1>1, <1>5, <3>1, LengthUnique
  <2>5. Settled(heard, p + LineMax) /\ Before(heard, p + LineMax) = Before(heard, p) \cup {p}
    BY <1>1, <1>3, <2>2, <2>3, BehindFull
  <2> QED
    BY <1>7, <1>9, <2>2, <2>4, <2>5
<1> QED
  BY <1>8, <1>9 DEF ExtractMessage

\* Elements of a set have different places in it.
LEMMA RankApart ==
  ASSUME NEW S, IsFiniteSet(S), S \subseteq Nat, NEW p \in S, NEW q \in S, p < q
  PROVE  Split!Rank(S, p) # Split!Rank(S, q)
<1> DEFINE P == {r \in S : r <= p}
           Q == {r \in S : r <= q}
<1>1. IsFiniteSet(P) /\ IsFiniteSet(Q)
  BY FS_Subset
<1>2. P \in SUBSET Q /\ q \in Q /\ q \notin P
  <2>1. p \in Nat /\ q \in Nat /\ \A r \in S : r \in Nat
    OBVIOUS
  <2>2. \A r \in S : r <= p => r <= q
    BY <2>1
  <2>3. P \in SUBSET Q
    BY <2>2
  <2>4. q \in Q /\ q \notin P
    BY <2>1
  <2> QED
    BY <2>3, <2>4
<1>3. Cardinality(P) # Cardinality(Q)
  <2> HIDE DEF P, Q
  <2> QED
    BY <1>1, <1>2, FS_Subset
<1> QED
  BY <1>3, RankCounts

LEMMA FunctionIsSeq ==
  ASSUME NEW V, NEW n \in Nat, NEW f \in [1..n -> V]
  PROVE  f \in Seq(V) /\ Len(f) = n
<1>1. f \in Seq(V)
  BY SeqDef
<1> QED
  BY <1>1

LEMMA LineStartsFinite ==
  ASSUME NEW s \in Seq(Bytes)
  PROVE  IsFiniteSet(Split!LineStarts(s)) /\ Split!LineStarts(s) \subseteq Nat
<1>1. IsFiniteSet(1..Len(s))
  BY FS_Interval
<1>2. Split!LineStarts(s) \in SUBSET (1..Len(s))
  BY DEF Split!LineStarts
<1>3. Split!LineStarts(s) \subseteq Nat
  BY <1>2
<1> QED
  BY <1>1, <1>2, <1>3, FS_Subset

\* The lines in front of a settled place are the first ones of the stream.
LEMMA ToldIsPrefix ==
  ASSUME NEW s \in Seq(Bytes), NEW p, Settled(s, p),
         NEW ls \in Seq(Seq(Bytes)), Told(s, p, ls)
  PROVE  /\ Len(ls) <= Len(Split!Lines(s))
         /\ ls = SubSeq(Split!Lines(s), 1, Len(ls))
         /\ Before(s, p) = Split!LineStarts(s) => Len(ls) = Len(Split!Lines(s))
<1> DEFINE A == Split!LineStarts(s)
           B == Before(s, p)
           all == Split!Lines(s)
<1>1. IsFiniteSet(A) /\ A \subseteq Nat /\ Cardinality(A) \in Nat
  BY LineStartsFinite, FS_CardinalityType
<1>2. p \in Nat \ {0} /\ p <= Len(s) + 1 /\ Len(s) \in Nat
  BY DEF Settled
<1>3. B = {q \in A : q < p}
  <2>1. ASSUME NEW q \in B PROVE q \in A /\ q < p
    <3>1. q \in 1..(p - 1) /\ Split!BeginsBlock(s, q)
      BY DEF Before
    <3>2. Split!Complete(s, q)
      BY BeforeComplete
    <3>3. q \in 1..Len(s) /\ q < p
      BY <1>2, <3>1
    <3> QED
      BY <3>1, <3>2, <3>3 DEF Split!LineStarts
  <2>2. ASSUME NEW q \in A, q < p PROVE q \in B
    <3>1. q \in 1..Len(s) /\ Split!BeginsBlock(s, q)
      BY DEF Split!LineStarts
    <3>2. q \in 1..(p - 1)
      BY <1>2, <2>2, <3>1
    <3> QED
      BY <3>1, <3>2 DEF Before
  <2> QED
    BY <2>1, <2>2
<1>4. /\ Len(ls) = Cardinality(B)
      /\ \A k \in 1..Len(ls) : \E q \in B : Split!Rank(B, q) = k /\ ls[k] = Split!LineAt(s, q)
  BY DEF Told
<1>5. all = [k \in 1..Cardinality(A) |->
               Split!LineAt(s, CHOOSE q \in A : Split!Rank(A, q) = k)]
  BY SplitCounts DEF Split!Lines
<1> HIDE DEF A, B, all
<1>6. Cardinality(B) <= Cardinality(A)
  BY <1>1, <1>3, FS_Subset
<1> DEFINE V == {all[k] : k \in 1..Cardinality(A)}
<1>v. \A k \in 1..Cardinality(A) : all[k] \in V
  OBVIOUS
<1> HIDE DEF V
<1>7. Len(all) = Cardinality(A)
  <2>1. all \in [1..Cardinality(A) -> V]
    BY <1>5, <1>v
  <2> QED
    BY <1>1, <2>1, FunctionIsSeq
<1>8. ASSUME NEW k \in 1..Len(ls) PROVE ls[k] = all[k]
  <2>1. PICK q \in B : Split!Rank(B, q) = k /\ ls[k] = Split!LineAt(s, q)
    BY <1>4
  <2>2. Split!Rank(A, q) = k
    <3>1. q \in Nat /\ q < p /\ \A r \in A : r \in Nat
      BY <1>1, <1>3
    <3>2. \A r \in A : r <= q => r < p
      BY <1>2, <3>1
    <3>3. {r \in A : r <= q} = {r \in B : r <= q}
      BY <1>3, <3>2
    <3>4. Split!Rank(A, q) = Split!Rank(B, q)
      BY <3>3 DEF Split!Rank
    <3> QED
      BY <2>1, <3>4
  <2>3. \A r \in A : Split!Rank(A, r) = k => r = q
    <3> SUFFICES ASSUME NEW r \in A, Split!Rank(A, r) = k PROVE r = q
      OBVIOUS
    <3>1. q \in A /\ q \in Nat /\ r \in Nat
      BY <1>1, <1>3
    <3>2. ~(r < q) /\ ~(q < r)
      BY <1>1, <2>2, <3>1, RankApart
    <3> QED
      BY <3>1, <3>2
  <2>4. (CHOOSE r \in A : Split!Rank(A, r) = k) = q
    <3>1. q \in A
      BY <1>3
    <3> QED
      BY <2>2, <2>3, <3>1
  <2>5. k \in 1..Cardinality(A)
    BY <1>1, <1>4, <1>6
  <2> QED
    BY <1>5, <2>1, <2>4, <2>5
<1>9. ls = SubSeq(all, 1, Len(ls))
  <2> DEFINE x == SubSeq(all, 1, Len(ls))
  <2>1. Len(ls) \in Nat /\ Len(ls) <= Cardinality(A)
    BY <1>4, <1>6
  <2>2. ls \in Seq(V)
    <3>1. ASSUME NEW k \in 1..Len(ls) PROVE ls[k] \in V
      <4>1. k \in 1..Cardinality(A)
        BY <1>1, <2>1
      <4> QED
        BY <1>8, <1>v, <4>1
    <3>2. ls \in [1..Len(ls) -> V]
      BY <3>1
    <3> QED
      BY <2>1, <3>2, FunctionIsSeq
  <2>3. /\ x \in Seq(V)
        /\ Len(x) = Len(ls)
        /\ \A k \in 1..Len(ls) : x[k] = all[k]
    <3>1. \A k \in 1..Len(ls) : all[k] \in V
      BY <1>1, <1>v, <2>1
    <3>2. 1 \in Int /\ Len(ls) \in Int
      BY <2>1
    <3>3. /\ x \in Seq(V)
          /\ Len(x) = IF 1 <= Len(ls) THEN Len(ls) - 1 + 1 ELSE 0
          /\ \A k \in 1..(Len(ls) - 1 + 1) : x[k] = all[1 + k - 1]
      BY <3>1, <3>2, SubSeqProperties
    <3> HIDE DEF x
    <3>4. Len(ls) - 1 + 1 = Len(ls) /\ \A k \in 1..Len(ls) : 1 + k - 1 = k
      BY <2>1
    <3>5. Len(x) = Len(ls)
      BY <2>1, <3>3
    <3> QED
      BY <3>3, <3>4, <3>5
  <2> HIDE DEF x
  <2>4. ls = x
    BY <1>8, <2>2, <2>3, SeqEqual
  <2> QED
    BY <2>4 DEF x
<1> QED
  BY <1>4, <1>6, <1>7, <1>9 DEF A, B, all

\* A line that is complete in the stream is one that extractMessage would find.
LEMMA NothingLeft ==
  ASSUME NEW s \in Seq(Bytes), NEW p, Settled(s, p), recvBuffer = SubSeq(s, p, Len(s)),
         ~HasLine
  PROVE  Before(s, p) = Split!LineStarts(s)
<1> USE FramingAssumption
<1>1. /\ p \in Nat \ {0} /\ p <= Len(s) + 1 /\ Len(s) \in Nat
      /\ Split!BeginsBlock(s, p) /\ p \in 1..(Len(s) + 1)
  BY DEF Settled
<1>2. /\ recvBuffer \in Seq(Bytes) /\ Len(recvBuffer) = Len(s) - p + 1
      /\ \A i \in Nat \ {0} : CRLFAt(recvBuffer, i) <=> p + i - 1 \in Split!Ends(s)
  BY <1>1, BufferEnds
<1>3. Len(s) <= p + LineMax
  <2>1. Len(recvBuffer) = Len(s) - p + 1 /\ ~(Len(recvBuffer) >= LineMax + 2)
    BY <1>2 DEF HasLine
  <2> QED
    BY <1>1, <2>1
<1>4. Split!Ends(s) \cap (p..(p + LineMax)) = {}
  <2>1. SUFFICES ASSUME NEW j \in Split!Ends(s), j \in p..(p + LineMax) PROVE FALSE
    OBVIOUS
  <2>2. PICK k \in Nat \ {0} : j = p + k - 1
    <3>1. j - p + 1 \in Nat \ {0} /\ j = p + (j - p + 1) - 1
      BY <1>1, <2>1
    <3> QED
      BY <3>1
  <2>3. k <= LineMax + 1 /\ CRLFAt(recvBuffer, k)
    BY <1>1, <1>2, <2>1, <2>2
  <2>4. PICK i \in 1..k : FirstCRLF(recvBuffer, i)
    BY <1>2, <2>3, FirstCRLFExists
  <2>5. i \in 1..(LineMax + 1)
    BY <2>3, <2>4
  <2> QED
    BY <2>4, <2>5 DEF HasLine
\* So no CRLF is left at all, the stream being that short.
<1>5. ASSUME NEW i \in Split!Ends(s), p <= i PROVE FALSE
  <2>1. i \in Nat /\ i + 1 <= Len(s)
    BY EndsType
  <2>2. i \in p..(p + LineMax)
    BY <1>1, <1>3, <1>5, <2>1
  <2> QED
    BY <1>4, <2>2
<1>6. ASSUME NEW q \in Split!LineStarts(s), p <= q PROVE FALSE
  <2>1. q \in Nat \ {0} /\ q <= Len(s) /\ Split!Complete(s, q)
    BY DEF Split!LineStarts
  <2>2. ASSUME NEW i \in Split!Ends(s), i \in q..(q + LineMax) PROVE FALSE
    <3>1. i \in Nat /\ p <= i
      BY <1>1, <1>6, <2>1, <2>2, EndsType
    <3> QED
      BY <1>5, <3>1
  <2>3. ~(q + LineMax < Len(s))
    BY <1>1, <1>3, <1>6, <2>1
  <2> QED
    BY <2>1, <2>2, <2>3 DEF Split!Complete
<1>7. ASSUME NEW q \in Before(s, p) PROVE q \in Split!LineStarts(s)
  <2>1. q \in 1..(p - 1) /\ Split!BeginsBlock(s, q) /\ Split!Complete(s, q)
    BY BeforeComplete DEF Before
  <2>2. q \in 1..Len(s)
    BY <1>1, <2>1
  <2> QED
    BY <2>1, <2>2 DEF Split!LineStarts
<1>8. ASSUME NEW q \in Split!LineStarts(s) PROVE q \in Before(s, p)
  <2>1. q \in 1..Len(s) /\ Split!BeginsBlock(s, q)
    BY DEF Split!LineStarts
  <2>2. ~(p <= q)
    BY <1>6
  <2>3. q \in 1..(p - 1)
    BY <1>1, <2>1, <2>2
  <2> QED
    BY <2>1, <2>3 DEF Before
<1> QED
  BY <1>7, <1>8

LEMMA RecvInitFramed == RecvInit => Framed
<1> SUFFICES ASSUME RecvInit PROVE Framed
  OBVIOUS
<1>1. heard = <<>> /\ recvBuffer = <<>> /\ lines = <<>>
  BY DEF RecvInit
<1>2. heard \in Seq(Bytes) /\ Len(heard) = 0
  BY <1>1
<1>3. Settled(heard, 1)
  <2>1. 1 \in Split!PieceStarts(heard)
    BY DEF Split!PieceStarts
  <2>2. Split!BeginsBlock(heard, 1)
    BY <1>2, <2>1, PieceBegins
  <2>3. 1 \in 1..(Len(heard) + 1)
    BY <1>2
  <2> QED
    BY <2>1, <2>2, <2>3 DEF Settled
<1>4. Told(heard, 1, lines)
  <2>1. Before(heard, 1) = {}
    BY DEF Before
  <2>2. Cardinality(Before(heard, 1)) = 0
    BY <2>1, FS_EmptySet
  <2>3. Len(lines) = 0
    BY <1>1
  <2> QED
    BY <2>2, <2>3 DEF Told
<1>5. recvBuffer = SubSeq(heard, 1, Len(heard))
  BY <1>1, <1>2, SubSeqEmpty
<1> QED
  BY <1>2, <1>3, <1>4, <1>5 DEF Framed

\* What the invariant says of the lines.
LEMMA FramedIsExact ==
  ASSUME RecvInv, Framed, NulFree(heard)
  PROVE  /\ Len(lines) <= Len(Split!Lines(heard))
         /\ lines = SubSeq(Split!Lines(heard), 1, Len(lines))
         /\ ~HasLine => Len(lines) = Len(Split!Lines(heard))
<1>1. heard \in Seq(Bytes) /\ lines \in Seq(Seq(Bytes))
  BY DEF RecvInv, RecvTypeOK
<1>2. PICK p \in 1..(Len(heard) + 1) :
        /\ recvBuffer = SubSeq(heard, p, Len(heard))
        /\ Settled(heard, p)
        /\ Told(heard, p, lines)
  BY DEF Framed
<1> QED
  BY <1>1, <1>2, ToldIsPrefix, NothingLeft
=============================================================================
