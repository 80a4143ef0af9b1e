------------------------------ MODULE LogLines ------------------------------
(***************************************************************************)
(* Lines of the log, and the bytes that a sequence of them takes: what the *)
(* file system reports of a log file and the runtime log keeps by hand.    *)
(***************************************************************************)
EXTENDS Integers, Sequences

Lines == [no : Nat, size : Nat]

TotalSize(ls) ==
  LET upTo[k \in 0..Len(ls)] == IF k = 0 THEN 0 ELSE upTo[k - 1] + ls[k].size
  IN  upTo[Len(ls)]
=============================================================================
