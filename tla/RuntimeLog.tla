----------------------------- MODULE RuntimeLog -----------------------------
(***************************************************************************)
(* logger.runtimeLogStore: the lines of the current session, of which only *)
(* the newest are kept, within a number of lines and a number of bytes.    *)
(* Every operation runs under s.mu from end to end.                        *)
(***************************************************************************)
EXTENDS LogLines

CONSTANTS
  RingLines,  \* s.maxLines
  RingBytes,  \* s.maxBytes
  LineSizes,  \* bound: bytes of a line and its newline
  MaxSession  \* bound: lines of a session

ASSUME RuntimeLogAssumption ==
  /\ RingLines \in Nat \ {0}
  /\ RingBytes \in Nat \ {0, 1}
  /\ LineSizes \subseteq Nat \ {0}
  /\ MaxSession \in Nat

VARIABLES
  lines,      \* s.lines, by number and size
  bytes,      \* s.bytes
  session     \* history: every line since the start or the last clear

ringVars == <<lines, bytes, session>>

RingInit == lines = <<>> /\ bytes = 0 /\ session = <<>>

\* With the first k lines dropped there is room for a line of n bytes.
Room(k, n) ==
  /\ Len(lines) - k < RingLines
  /\ bytes - TotalSize(SubSeq(lines, 1, k)) + n <= RingBytes

\* A store that makes room for one line too few.
EvictedTooFew(n) ==
  LET Full(k) == \/ Len(lines) - k > RingLines
                 \/ bytes - TotalSize(SubSeq(lines, 1, k)) + n > RingBytes
  IN  CHOOSE k \in 0..Len(lines) :
        (k = Len(lines) \/ ~Full(k)) /\ \A j \in 0..(k - 1) : Full(j)

\* How many lines the loop of append drops for a line of n bytes.
Evicted(n) ==
  CHOOSE k \in 0..Len(lines) :
    (k = Len(lines) \/ Room(k, n)) /\ \A j \in 0..(k - 1) : ~Room(j, n)

\* A longer line than fits is cut, to the longest prefix that is valid UTF-8.
Cut(s) == IF s <= RingBytes THEN {s} ELSE 1..RingBytes

RingAppend ==
  /\ Len(session) < MaxSession
  /\ \E s \in LineSizes : \E n \in Cut(s) :
       LET line == [no |-> Len(session) + 1, size |-> n]
           k == Evicted(n)
       IN  /\ lines' = Append(SubSeq(lines, k + 1, Len(lines)), line)
           /\ bytes' = bytes - TotalSize(SubSeq(lines, 1, k)) + n
           /\ session' = Append(session, line)

RingClear == lines' = <<>> /\ bytes' = 0 /\ session' = <<>>

RingNext == RingAppend \/ RingClear
-----------------------------------------------------------------------------
Fits(ls) == Len(ls) <= RingLines /\ TotalSize(ls) <= RingBytes

\* The store holds the longest end of the session that is within both limits,
\* no less and no more, and its byte count is right, whatever the sizes of the
\* lines that came and went (append and clear).
RingIsLongestEnd ==
  LET end == {k \in 1..(Len(session) + 1) : Fits(SubSeq(session, k, Len(session)))}
      first == CHOOSE k \in end : \A j \in end : k <= j
  IN  /\ lines = SubSeq(session, first, Len(session))
      /\ bytes = TotalSize(lines)
=============================================================================
