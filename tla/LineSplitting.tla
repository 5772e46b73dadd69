--------------------------- MODULE LineSplitting ---------------------------
(***************************************************************************)
(* Which lines a stream of bytes consists of, defined without a buffer and *)
(* without an order of arrival: the stream is split at its CRLFs into      *)
(* pieces, and every piece into blocks of LineMax bytes.                   *)
(***************************************************************************)
EXTENDS Naturals, Sequences, FiniteSets

CONSTANTS CR, LF, LineMax

\* The positions at which a CRLF begins.
Ends(s) == {i \in 1..(Len(s) - 1) : s[i] = CR /\ s[i + 1] = LF}

\* A piece begins at the front of the stream and behind every CRLF.
PieceStarts(s) == {1} \cup {i + 2 : i \in Ends(s)}

\* A block begins at p: whole blocks lie between p and the beginning of its
\* piece.  Only the first block of a piece may be empty.
BeginsBlock(s, p) ==
  \E a \in PieceStarts(s) : \E n \in 0..Len(s) :
    /\ p = a + n * LineMax
    /\ p = a \/ Ends(s) \cap (a..p) = {}

\* The block at p is known to end: at a CRLF or, as two more bytes show, by its
\* length.
Complete(s, p) ==
  \/ Ends(s) \cap (p..(p + LineMax)) # {}
  \/ p + LineMax < Len(s)

LineStarts(s) == {p \in 1..Len(s) : BeginsBlock(s, p) /\ Complete(s, p)}

\* How many bytes the line at p has: as many as there are before a CRLF.
LineLength(s, p) ==
  CHOOSE n \in 0..LineMax :
    /\ Ends(s) \cap (p..(p + n - 1)) = {}
    /\ n = LineMax \/ p + n \in Ends(s)

LineAt(s, p) == SubSeq(s, p, p + LineLength(s, p) - 1)

\* The place of p among the elements of S.
Rank(S, p) == Cardinality({q \in S : q <= p})

Lines(s) ==
  [k \in 1..Cardinality(LineStarts(s)) |->
     LineAt(s, CHOOSE p \in LineStarts(s) : Rank(LineStarts(s), p) = k)]
=============================================================================
