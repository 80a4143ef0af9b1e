----------------------------- MODULE ByteStream -----------------------------
(***************************************************************************)
(* What one bidirectional in-memory connection promises to its two ends,   *)
(* whatever buffers, locks and goroutines it is made of.  Bytes are named  *)
(* by their position in the stream they belong to, so a stream is two      *)
(* numbers: how many bytes were accepted for an end and how many that end  *)
(* was handed.  Handing out n bytes means handing out the next n.          *)
(***************************************************************************)
EXTENDS Integers

Ends == {"A", "B"}

Peer(e) == IF e = "A" THEN "B" ELSE "A"

VARIABLES
  sent,    \* sent[e]: bytes accepted from Peer(e) for delivery to e
  got,     \* got[e]: bytes already returned to e
  closed,  \* closed[e]: e's Close has taken effect
  mark,    \* mark[e]: how much e had sent when it closed
  eof      \* eof[e]: some Read of e has returned io.EOF

vars == <<sent, got, closed, mark, eof>>

Init ==
  /\ sent = [e \in Ends |-> 0]
  /\ got = [e \in Ends |-> 0]
  /\ closed = [e \in Ends |-> FALSE]
  /\ mark = [e \in Ends |-> 0]
  /\ eof = [e \in Ends |-> FALSE]

Accept(e) ==
  /\ sent[e] <= sent'[e]
  /\ sent' = [sent EXCEPT ![e] = sent'[e]]
  /\ UNCHANGED <<got, closed, mark, eof>>

Deliver(e) ==
  /\ \E n \in got[e]..sent[e] : got' = [got EXCEPT ![e] = n]
  /\ UNCHANGED <<sent, closed, mark, eof>>

CloseEnd(e) ==
  /\ ~closed[e]
  /\ closed' = [closed EXCEPT ![e] = TRUE]
  /\ mark' = [mark EXCEPT ![e] = sent[Peer(e)]]
  /\ UNCHANGED <<sent, got, eof>>

\* End of stream is reported to e only once its peer closed and e holds every
\* byte the peer sent before that.
ReportEof(e) ==
  /\ closed[Peer(e)]
  /\ mark[Peer(e)] <= got[e]
  /\ eof' = [eof EXCEPT ![e] = TRUE]
  /\ UNCHANGED <<sent, got, closed, mark>>

Next == \E e \in Ends : Accept(e) \/ Deliver(e) \/ CloseEnd(e) \/ ReportEof(e)

Spec == Init /\ [][Next]_vars
=============================================================================
