------------------------------- MODULE Logger -------------------------------
(***************************************************************************)
(* Package logger: its registry of loggers, and the two stores a line ends *)
(* in, the runtime log in memory and the file.  log() appends to the first *)
(* and writes to the second one after the other, each under its own lock,  *)
(* so the three have no state in common; a behaviour is one of a part.     *)
(***************************************************************************)
EXTENDS FileLogger, RuntimeLog, LoggerRegistry

VARIABLE part   \* the part this behaviour is of

vars == <<part, fileVars, ringVars, regVars>>

Init ==
  /\ part \in {"file", "ring", "registry"}
  /\ FileInit /\ RingInit /\ RegInit

Next ==
  /\ UNCHANGED part
  /\ \/ part = "file" /\ FileNext /\ UNCHANGED <<ringVars, regVars>>
     \/ part = "ring" /\ RingNext /\ UNCHANGED <<fileVars, regVars>>
     \/ part = "registry" /\ RegNext /\ UNCHANGED <<fileVars, ringVars>>

Spec == Init /\ [][Next]_vars
=============================================================================
