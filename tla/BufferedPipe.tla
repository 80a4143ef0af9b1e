---------------------------- MODULE BufferedPipe ----------------------------
(***************************************************************************)
(* pipe.bufferedPipe: two bounded Go channels and two done channels that   *)
(* goroutines on both ends use at once.  Every channel operation, mutex    *)
(* operation and unlocked flag read is a step of its own, so a Write, Read *)
(* or Close of one goroutine interleaves with all the others.              *)
(*                                                                         *)
(* A block of bytes is the pair of stream positions [lo, hi) it covers.    *)
(***************************************************************************)
EXTENDS Integers, Sequences, FiniteSets

CONSTANTS
  Threads,     \* goroutines using the pipe
  End,         \* End[t]: the end of the pipe that goroutine t holds
  Readers,     \* those that call Read
  Cap,         \* capacity of aCh and bCh (512 in the code)
  Lens,        \* lengths of the slices passed to Write
  Sizes,       \* lengths of the slices passed to Read
  MaxWrites,   \* bound: Write calls made on one end
  NoThread

Ends == {"A", "B"}

Peer(e) == IF e = "A" THEN "B" ELSE "A"

ASSUME PipeAssumption ==
  /\ End \in [Threads -> Ends]
  /\ Readers \subseteq Threads
  /\ Cap \in Nat \ {0}
  /\ Lens \subseteq Nat
  /\ Sizes \subseteq Nat
  /\ MaxWrites \in Nat
  /\ NoThread \notin Threads

\* `pending' has no lock: the callers keep one reading goroutine per end.
ASSUME OneReaderPerEnd ==
  \A s, t \in Readers : End[s] = End[t] => s = t

VARIABLES
  ch,       \* ch[e]: the inbound queue of end e (aCh, bCh)
  flag,     \* flag[e]: aClosed, bClosed
  done,     \* done[e]: aDone, bDone is closed
  mu,       \* the goroutine that holds p.mu
  pending,  \* pending[e]: what is left of the last block end e took
  pc,       \* pc[t]: where goroutine t is
  arg,      \* arg[t]: the length of t's Write, or of its Read buffer
  offered,  \* offered[e]: Write calls made on e (bounded by MaxWrites)
  sent,     \* history: bytes enqueued for end e
  got,      \* history: bytes returned to end e
  mark,     \* history: what e had enqueued for its peer when it closed
  eof       \* history: a Read of e has returned io.EOF

data == <<ch, pending, sent, got>>
closing == <<flag, done, mu, mark>>
vars == <<ch, flag, done, mu, pending, pc, arg, offered, sent, got, mark, eof>>

Stream == INSTANCE ByteStream WITH closed <- done

PCs == {"idle", "wPeer", "wTry", "wBlock", "rWait", "rDrain", "cTest", "cSet", "cDone"}

Init ==
  /\ ch = [e \in Ends |-> <<>>]
  /\ flag = [e \in Ends |-> FALSE]
  /\ done = [e \in Ends |-> FALSE]
  /\ mu = NoThread
  /\ pending = [e \in Ends |-> [lo |-> 0, hi |-> 0]]
  /\ pc = [t \in Threads |-> "idle"]
  /\ arg = [t \in Threads |-> 0]
  /\ offered = [e \in Ends |-> 0]
  /\ sent = [e \in Ends |-> 0]
  /\ got = [e \in Ends |-> 0]
  /\ mark = [e \in Ends |-> 0]
  /\ eof = [e \in Ends |-> FALSE]

\* `arg' only means something inside a call: returning clears it.
Goto(t, l) ==
  /\ pc' = [pc EXCEPT ![t] = l]
  /\ arg' = IF l = "idle" THEN [arg EXCEPT ![t] = 0] ELSE arg

Call(t, l, n) ==
  /\ pc' = [pc EXCEPT ![t] = l]
  /\ arg' = [arg EXCEPT ![t] = n]
-----------------------------------------------------------------------------
(* Write *)

\* The unlocked read of the own flag; a closed end returns net.ErrClosed.
WriteCall(t) ==
  /\ pc[t] = "idle"
  /\ offered[End[t]] < MaxWrites
  /\ offered' = [offered EXCEPT ![End[t]] = @ + 1]
  /\ \/ /\ flag[End[t]]
        /\ Goto(t, "idle")
     \/ /\ ~flag[End[t]]
        /\ \E n \in Lens : Call(t, "wPeer", n)
  /\ UNCHANGED <<data, closing, eof>>

\* A closed peer is reported at once.
WritePeer(t) ==
  /\ pc[t] = "wPeer"
  /\ Goto(t, IF done[Peer(End[t])] THEN "idle" ELSE "wTry")
  /\ UNCHANGED <<data, closing, offered, eof>>

Room(e) == Len(ch[e]) < Cap

\* The copy of the caller's slice enters the queue of the other end.
Enqueue(t, e) ==
  /\ Room(e)
  /\ ch' = [ch EXCEPT ![e] = Append(@, [lo |-> sent[e], hi |-> sent[e] + arg[t]])]
  /\ sent' = [sent EXCEPT ![e] = @ + arg[t]]
  /\ Goto(t, "idle")
  /\ UNCHANGED <<pending, got, closing, offered, eof>>

WriteTry(t) ==
  /\ pc[t] = "wTry"
  /\ \/ Enqueue(t, Peer(End[t]))
     \/ /\ ~Room(Peer(End[t]))
        /\ Goto(t, "wBlock")
        /\ UNCHANGED <<data, closing, offered, eof>>

WriteSend(t) ==
  /\ pc[t] = "wBlock"
  /\ Enqueue(t, Peer(End[t]))

WritePeerGone(t) ==
  /\ pc[t] = "wBlock"
  /\ done[Peer(End[t])]
  /\ Goto(t, "idle")
  /\ UNCHANGED <<data, closing, offered, eof>>

\* A Write that starts over when its timer fires.
WriteTimeoutRetries(t) ==
  /\ pc[t] = "wBlock"
  /\ Goto(t, "wTry")
  /\ UNCHANGED <<data, closing, offered, eof>>

\* The 30 second timer fires before room appears.
WriteTimeout(t) ==
  /\ pc[t] = "wBlock"
  /\ Goto(t, "idle")
  /\ UNCHANGED <<data, closing, offered, eof>>
-----------------------------------------------------------------------------
(* Read *)

Lesser(m, n) == IF m < n THEN m ELSE n

\* copy(p, c.pending) and the re-slicing that follows it, for a block b.
HandOut(e, b, n) ==
  LET k == Lesser(n, b.hi - b.lo) IN
  /\ pending' = [pending EXCEPT ![e] = [lo |-> b.lo + k, hi |-> b.hi]]
  /\ got' = [got EXCEPT ![e] = @ + k]

Take(t, e, n) ==
  /\ ch[e] # <<>>
  /\ HandOut(e, Head(ch[e]), n)
  /\ ch' = [ch EXCEPT ![e] = Tail(@)]
  /\ Goto(t, "idle")
  /\ UNCHANGED <<sent, closing, offered, eof>>

\* A Read that forgets what is left of the block it took last.
ReadCallDropsRest(t) ==
  /\ pc[t] = "idle"
  /\ t \in Readers
  /\ \E n \in Sizes :
       \/ /\ Take(t, End[t], n)
       \/ /\ ch[End[t]] = <<>>
          /\ Call(t, "rWait", n)
          /\ UNCHANGED <<data, closing, offered, eof>>

\* Rest of the last block first, then the queue without waiting, then a wait.
ReadCall(t) ==
  /\ pc[t] = "idle"
  /\ t \in Readers
  /\ LET e == End[t]  rest == pending[e] IN
     \E n \in Sizes :
       \/ /\ rest.lo < rest.hi
          /\ HandOut(e, rest, n)
          /\ UNCHANGED <<ch, sent, closing, pc, arg, offered, eof>>
       \/ /\ rest.lo = rest.hi
          /\ Take(t, e, n)
       \/ /\ rest.lo = rest.hi
          /\ ch[e] = <<>>
          /\ Call(t, "rWait", n)
          /\ UNCHANGED <<data, closing, offered, eof>>

ReadData(t) ==
  /\ pc[t] = "rWait"
  /\ Take(t, End[t], arg[t])

ReadPeerDone(t) ==
  /\ pc[t] = "rWait"
  /\ done[Peer(End[t])]
  /\ Goto(t, "rDrain")
  /\ UNCHANGED <<data, closing, offered, eof>>

ReturnEof(t, e) ==
  /\ eof' = [eof EXCEPT ![e] = TRUE]
  /\ Goto(t, "idle")
  /\ UNCHANGED <<data, closing, offered>>

\* A drain that answers EOF without looking at the queue again.
ReadDrainSkipsQueue(t) ==
  /\ pc[t] = "rDrain"
  /\ ReturnEof(t, End[t])

\* The peer is closed: one more block if there is one, otherwise EOF.
ReadDrain(t) ==
  /\ pc[t] = "rDrain"
  /\ \/ /\ Take(t, End[t], arg[t])
     \/ /\ ch[End[t]] = <<>>
        /\ ReturnEof(t, End[t])
-----------------------------------------------------------------------------
(* Close *)

\* A Close that does not take the mutex (it still releases it afterwards).
CloseCallNoLock(t) ==
  /\ pc[t] = "idle"
  /\ mu' = t
  /\ Goto(t, "cTest")
  /\ UNCHANGED <<data, flag, done, mark, offered, eof>>

CloseCall(t) ==
  /\ pc[t] = "idle"
  /\ mu = NoThread
  /\ mu' = t
  /\ Goto(t, "cTest")
  /\ UNCHANGED <<data, flag, done, mark, offered, eof>>

CloseTest(t) ==
  /\ pc[t] = "cTest"
  /\ \/ /\ flag[End[t]]
        /\ mu' = NoThread
        /\ Goto(t, "idle")
     \/ /\ ~flag[End[t]]
        /\ Goto(t, "cSet")
        /\ UNCHANGED mu
  /\ UNCHANGED <<data, flag, done, mark, offered, eof>>

CloseSet(t) ==
  /\ pc[t] = "cSet"
  /\ flag' = [flag EXCEPT ![End[t]] = TRUE]
  /\ Goto(t, "cDone")
  /\ UNCHANGED <<data, done, mu, mark, offered, eof>>

\* A Close that sets the flag and leaves the done channel open.
CloseDoneNoSignal(t) ==
  /\ pc[t] = "cDone"
  /\ mu' = NoThread
  /\ Goto(t, "idle")
  /\ UNCHANGED <<data, flag, done, mark, offered, eof>>

CloseDone(t) ==
  /\ pc[t] = "cDone"
  /\ done' = [done EXCEPT ![End[t]] = TRUE]
  /\ mark' = [mark EXCEPT ![End[t]] = sent[Peer(End[t])]]
  /\ mu' = NoThread
  /\ Goto(t, "idle")
  /\ UNCHANGED <<data, flag, offered, eof>>
-----------------------------------------------------------------------------
Write(t) ==
  WriteCall(t) \/ WritePeer(t) \/ WriteTry(t)
    \/ WriteSend(t) \/ WritePeerGone(t) \/ WriteTimeout(t)

Read(t) == ReadCall(t) \/ ReadData(t) \/ ReadPeerDone(t) \/ ReadDrain(t)

Close(t) == CloseCall(t) \/ CloseTest(t) \/ CloseSet(t) \/ CloseDone(t)

Next == \E t \in Threads : Write(t) \/ Read(t) \/ Close(t)

Spec == Init /\ [][Next]_vars

\* A goroutine inside a call keeps running whenever one of its select cases is
\* ready; nobody is obliged to make another call.
Proceed(t) == pc[t] # "idle" /\ (Write(t) \/ Read(t) \/ Close(t))

FairSpec == Spec /\ \A t \in Threads : WF_vars(Proceed(t))
-----------------------------------------------------------------------------
(* Properties *)

Chunk == [lo : Nat, hi : Nat]

DataTypeOK ==
  /\ ch \in [Ends -> Seq(Chunk)]
  /\ pending \in [Ends -> Chunk]
  /\ sent \in [Ends -> Nat]
  /\ got \in [Ends -> Nat]
  /\ \A e \in Ends : Len(ch[e]) <= Cap

ClosingTypeOK ==
  /\ flag \in [Ends -> BOOLEAN]
  /\ done \in [Ends -> BOOLEAN]
  /\ mu \in Threads \cup {NoThread}
  /\ mark \in [Ends -> Nat]

CallTypeOK ==
  /\ pc \in [Threads -> PCs]
  /\ arg \in [Threads -> Nat]
  /\ offered \in [Ends -> 0..MaxWrites]
  /\ eof \in [Ends -> BOOLEAN]

\* Every variable stays in its domain and the queues stay within capacity
\* (newBufferedPipe's make(chan, 512)).
TypeOK == DataTypeOK /\ ClosingTypeOK /\ CallTypeOK

\* Whatever mixture of buffer sizes the reader uses, the k-th byte it is given
\* is the k-th byte that was accepted: no byte is lost between a block that was
\* read in part and the next one, none comes twice (bufferedConn.Read, pending).
InOrder == \A e \in Ends : pending[e].lo = got[e]

\* close(done) never hits a channel that is already closed, however many
\* goroutines of an end call Close at once (bufferedConn.Close would panic).
NoDoubleClose == \A t \in Threads : pc[t] = "cDone" => ~done[End[t]]

\* The pipe implements the abstract connection: in particular EOF is reported
\* to a reader only after every byte its peer had written when it closed
\* (the drain at the end of bufferedConn.Read).
ImplementsByteStream == Stream!Spec

\* A Write always comes back: with success, with an error, or with the
\* congestion timeout (the select at the end of bufferedConn.Write).
WriteReturns ==
  \A t \in Threads : pc[t] \in {"wPeer", "wTry", "wBlock"} ~> pc[t] = "idle"

\* A Read that waits comes back once the other end is closed (the peerDone case
\* of bufferedConn.Read), and the closing end's flag is what makes it so.
PeerCloseWakesReader ==
  \A t \in Readers : (pc[t] = "rWait" /\ flag[Peer(End[t])]) ~> pc[t] = "idle"

\* The package comment promises net.Conn semantics, under which closing a
\* connection unblocks a Read pending on it.  It does not hold: Read has no case
\* for its own end (see the README).
LocalCloseWakesReader ==
  \A t \in Readers : (pc[t] = "rWait" /\ done[End[t]]) ~> pc[t] = "idle"
=============================================================================
