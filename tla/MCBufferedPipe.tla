--------------------------- MODULE MCBufferedPipe ---------------------------
(* Two goroutines on end A and one on end B, which reads; every goroutine    *)
(* may write and close.  Four adds a second one on end B, so that B can be   *)
(* closed while its reader waits.                                            *)
EXTENDS BufferedPipe, TLC

CONSTANTS aWriter1, aWriter2, bReader, bWriter

Three == {aWriter1, aWriter2, bReader}
Four == Three \cup {bWriter}
EndOfThree == aWriter1 :> "A" @@ aWriter2 :> "A" @@ bReader :> "B"
EndOfFour == EndOfThree @@ bWriter :> "B"
MCReaders == {bReader}
=============================================================================
