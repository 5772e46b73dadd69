---------------------------- MODULE RecvFraming ----------------------------
(***************************************************************************)
(* How the bytes of one client become command lines: what a recv brought   *)
(* is appended to Client::_recvBuffer, from which extractMessage cuts one  *)
(* line after another.                                                     *)
(***************************************************************************)
EXTENDS Naturals, Sequences

CONSTANTS CR, LF, NUL, Text,   \* Text: every byte but these three
          LineMax              \* 510: a line and its CRLF are 512 bytes

Bytes == Text \cup {CR, LF, NUL}

ASSUME FramingAssumption ==
  /\ LineMax \in Nat \ {0}
  /\ CR # LF
  /\ NUL \notin Text \cup {CR, LF}

VARIABLES
  recvBuffer,   \* Client::_recvBuffer
  heard,        \* history: all bytes that recv returned
  lines         \* history: the lines extracted

recvVars == <<recvBuffer, heard, lines>>

RecvInit ==
  /\ recvBuffer = <<>>
  /\ heard = <<>>
  /\ lines = <<>>

-----------------------------------------------------------------------------

\* A CRLF begins at position i of s.
CRLFAt(s, i) == i \in 1..(Len(s) - 1) /\ s[i] = CR /\ s[i + 1] = LF

\* The first one (std::string::find).
FirstCRLF(s, i) == CRLFAt(s, i) /\ \A j \in 1..(i - 1) : ~CRLFAt(s, j)

CString_Whole(chunk) == chunk

\* The buffer is handed on as a C string: a NUL byte hides the rest of what
\* this recv returned.
CString(chunk) ==
  IF \A i \in 1..Len(chunk) : chunk[i] # NUL THEN chunk
  ELSE LET end == CHOOSE i \in 1..Len(chunk) :
                    chunk[i] = NUL /\ \A j \in 1..(i - 1) : chunk[j] # NUL
       IN  SubSeq(chunk, 1, end - 1)

\* processClientRead, up to its loop.
Recv(chunk) ==
  /\ heard' = heard \o chunk
  /\ recvBuffer' = recvBuffer \o CString(chunk)
  /\ UNCHANGED lines

HasLine_CutsAtOnce ==
  \/ \E i \in 1..(LineMax + 1) : FirstCRLF(recvBuffer, i)
  \/ Len(recvBuffer) >= LineMax

HasLine_NeedsEnd == \E i \in 1..Len(recvBuffer) : CRLFAt(recvBuffer, i)

\* A CRLF within the first LineMax + 2 bytes, or that many bytes without one.
HasLine ==
  \/ \E i \in 1..(LineMax + 1) : FirstCRLF(recvBuffer, i)
  \/ Len(recvBuffer) >= LineMax + 2

\* extractMessage: a line that fits is taken whole and its CRLF dropped.  Of a
\* longer one the first LineMax bytes are taken, and the rest stays to be the
\* beginning of the next line.
ExtractMessage ==
  /\ HasLine
  /\ UNCHANGED heard
  /\ \/ \E i \in 1..(LineMax + 1) :
          /\ FirstCRLF(recvBuffer, i)
          /\ lines' = Append(lines, SubSeq(recvBuffer, 1, i - 1))
          /\ recvBuffer' = SubSeq(recvBuffer, i + 2, Len(recvBuffer))
     \/ /\ \A i \in 1..(LineMax + 1) : ~FirstCRLF(recvBuffer, i)
        /\ lines' = Append(lines, SubSeq(recvBuffer, 1, LineMax))
        /\ recvBuffer' = SubSeq(recvBuffer, LineMax + 1, Len(recvBuffer))

-----------------------------------------------------------------------------

Split == INSTANCE LineSplitting

NulFree(s) == \A i \in 1..Len(s) : s[i] # NUL

RecvTypeOK ==
  /\ recvBuffer \in Seq(Bytes)
  /\ heard \in Seq(Bytes)
  /\ lines \in Seq(Seq(Bytes))

\* What a handler relies on in a line, wherever the bytes were split between
\* recvs and however long the line was: it is at most LineMax bytes, it has no
\* CRLF that a reply built from it would break at, and no NUL.
LinesClean ==
  /\ \A i \in 1..Len(recvBuffer) : recvBuffer[i] # NUL
  /\ \A k \in 1..Len(lines) :
       /\ Len(lines[k]) <= LineMax
       /\ \A i \in 1..Len(lines[k]) : lines[k][i] # NUL /\ ~CRLFAt(lines[k], i)
=============================================================================
