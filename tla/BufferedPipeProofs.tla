------------------------- MODULE BufferedPipeProofs -------------------------
(***************************************************************************)
(* BufferedPipe, for every set of goroutines, queue capacity and block     *)
(* length: types, byte order, the close protocol, and that every step of   *)
(* the pipe is a step (or a stutter) of ByteStream.                        *)
(***************************************************************************)
EXTENDS BufferedPipe, TLAPS

\* The blocks an end has not read yet -- the rest p of the one it took last and
\* the queue q -- follow each other without a gap, up to position s.
Adjacent(p, q, s) ==
  /\ p.lo <= p.hi /\ p.hi <= s
  /\ \A i \in 1..Len(q) :
       /\ q[i].lo <= q[i].hi /\ q[i].hi <= s
       /\ q[i].lo = IF i = 1 THEN p.hi ELSE q[i-1].hi
  /\ s = IF q = <<>> THEN p.hi ELSE q[Len(q)].hi

Contiguous == \A e \in Ends : Adjacent(pending[e], ch[e], sent[e])

\* A Read that is past its first check has no rest of a block left, and it is
\* at the drain only because its peer closed.
ReadersDrained ==
  \A t \in Readers :
    /\ pc[t] \in {"rWait", "rDrain"} => pending[End[t]].lo = pending[End[t]].hi
    /\ pc[t] = "rDrain" => done[Peer(End[t])]

OnlyReadersRead ==
  \A t \in Threads : pc[t] \in {"rWait", "rDrain"} => t \in Readers

Closing == {"cTest", "cSet", "cDone"}

\* The mutex is held from the test of the flag to the signal, and `done' is
\* never ahead of the flag.
CloseProtocol ==
  /\ \A t \in Threads : pc[t] \in Closing => mu = t
  /\ \A t \in Threads : pc[t] = "cSet" => ~flag[End[t]]
  /\ \A t \in Threads : pc[t] = "cDone" => flag[End[t]]
  /\ \A e \in Ends : done[e] => flag[e]

MarkInStream == \A e \in Ends : mark[e] <= sent[Peer(e)]

StreamInv == Contiguous /\ InOrder /\ ReadersDrained /\ OnlyReadersRead /\ MarkInStream

CloseInv == CloseProtocol /\ NoDoubleClose

LEMMA PeerOfEnd ==
  /\ \A e \in Ends : Peer(e) \in Ends /\ Peer(Peer(e)) = e
  /\ \A t \in Threads : End[t] \in Ends /\ Peer(End[t]) \in Ends
BY PipeAssumption DEF Ends, Peer
-----------------------------------------------------------------------------
(* Types *)

LEMMA TypeInit == Init => TypeOK
BY PipeAssumption
   DEF Init, TypeOK, DataTypeOK, ClosingTypeOK, CallTypeOK, Chunk, PCs, Ends

LEMMA GotoType ==
  ASSUME CallTypeOK, NEW t \in Threads, NEW l \in PCs, Goto(t, l)
  PROVE  pc' \in [Threads -> PCs] /\ arg' \in [Threads -> Nat]
BY DEF CallTypeOK, Goto

LEMMA CallType ==
  ASSUME CallTypeOK, NEW t \in Threads, NEW l \in PCs, NEW n \in Nat, Call(t, l, n)
  PROVE  pc' \in [Threads -> PCs] /\ arg' \in [Threads -> Nat]
BY DEF CallTypeOK, Call

\* A step that only moves t inside its call keeps the types.
LEMMA MoveType ==
  ASSUME TypeOK, NEW t \in Threads, NEW l \in PCs, Goto(t, l),
         UNCHANGED <<data, closing, offered, eof>>
  PROVE  TypeOK'
BY GotoType DEF TypeOK, DataTypeOK, ClosingTypeOK, CallTypeOK, data, closing

LEMMA EnqueueType ==
  ASSUME TypeOK, NEW t \in Threads, NEW e \in Ends, Enqueue(t, e)
  PROVE  TypeOK'
<1> DEFINE b == [lo |-> sent[e], hi |-> sent[e] + arg[t]]
<1>1. sent[e] \in Nat /\ arg[t] \in Nat /\ b \in Chunk
  BY DEF TypeOK, DataTypeOK, CallTypeOK, Chunk
<1>2. ch' = [ch EXCEPT ![e] = Append(@, b)] /\ Len(ch[e]) < Cap
  BY DEF Enqueue, Room
<1> HIDE DEF b
<1>3. ch' \in [Ends -> Seq(Chunk)]
  BY <1>1, <1>2 DEF TypeOK, DataTypeOK
<1>4. ASSUME NEW x \in Ends PROVE Len(ch'[x]) <= Cap
  <2>1. CASE x = e
    BY <1>1, <1>2, <2>1, PipeAssumption DEF TypeOK, DataTypeOK
  <2>2. CASE x # e
    BY <1>2, <2>2 DEF TypeOK, DataTypeOK
  <2>3. QED BY <2>1, <2>2
<1>5. DataTypeOK'
  BY <1>1, <1>3, <1>4 DEF Enqueue, TypeOK, DataTypeOK
<1>6. ClosingTypeOK' /\ CallTypeOK'
  BY GotoType DEF Enqueue, closing, TypeOK, ClosingTypeOK, CallTypeOK, PCs
<1>7. QED BY <1>5, <1>6 DEF TypeOK

LEMMA HandOutType ==
  ASSUME DataTypeOK, NEW e \in Ends, NEW b \in Chunk, NEW n \in Nat,
         b.lo <= b.hi, HandOut(e, b, n)
  PROVE  pending' \in [Ends -> Chunk] /\ got' \in [Ends -> Nat]
<1> DEFINE k == Lesser(n, b.hi - b.lo)
<1>1. k \in Nat /\ b.lo + k \in Nat /\ b.hi \in Nat
  BY DEF Lesser, Chunk
<1>2. /\ pending' = [pending EXCEPT ![e] = [lo |-> b.lo + k, hi |-> b.hi]]
      /\ got' = [got EXCEPT ![e] = @ + k]
  BY DEF HandOut
<1> HIDE DEF k
<1>3. [lo |-> b.lo + k, hi |-> b.hi] \in Chunk
  BY <1>1 DEF Chunk
<1>4. QED BY <1>1, <1>2, <1>3 DEF DataTypeOK

LEMMA TakeType ==
  ASSUME TypeOK, Contiguous, NEW t \in Threads, NEW e \in Ends, NEW n \in Nat,
         Take(t, e, n)
  PROVE  TypeOK'
<1>1. /\ ch[e] \in Seq(Chunk) /\ ch[e] # <<>>
      /\ HandOut(e, Head(ch[e]), n)
      /\ ch' = [ch EXCEPT ![e] = Tail(@)]
  BY DEF Take, TypeOK, DataTypeOK
<1>2. Head(ch[e]) \in Chunk /\ Head(ch[e]).lo <= Head(ch[e]).hi
  BY <1>1 DEF Contiguous, Adjacent
<1>3. Tail(ch[e]) \in Seq(Chunk) /\ Len(Tail(ch[e])) <= Len(ch[e])
  BY <1>1
<1>4. ch' \in [Ends -> Seq(Chunk)]
  BY <1>1, <1>3 DEF TypeOK, DataTypeOK
<1>5. ASSUME NEW x \in Ends PROVE Len(ch'[x]) <= Cap
  <2>1. CASE x = e
    <3>1. Len(ch[e]) <= Cap /\ Len(ch[e]) \in Nat /\ Len(Tail(ch[e])) \in Nat
      BY <1>1, <1>3 DEF TypeOK, DataTypeOK
    <3>2. ch'[x] = Tail(ch[e])
      BY <1>1, <2>1 DEF TypeOK, DataTypeOK
    <3>3. QED BY <1>3, <3>1, <3>2, PipeAssumption
  <2>2. CASE x # e
    BY <1>1, <2>2 DEF TypeOK, DataTypeOK
  <2>3. QED BY <2>1, <2>2
<1>6. pending' \in [Ends -> Chunk] /\ got' \in [Ends -> Nat]
  BY <1>1, <1>2, HandOutType DEF TypeOK
<1>7. DataTypeOK'
  BY <1>4, <1>5, <1>6 DEF Take, TypeOK, DataTypeOK
<1>8. ClosingTypeOK' /\ CallTypeOK'
  BY GotoType DEF Take, closing, TypeOK, ClosingTypeOK, CallTypeOK, PCs
<1>9. QED BY <1>7, <1>8 DEF TypeOK

LEMMA WriteType ==
  ASSUME TypeOK, NEW t \in Threads, Write(t)
  PROVE  TypeOK'
<1> USE PeerOfEnd DEF PCs
<1>1. CASE WriteCall(t)
  <2>1. pc' \in [Threads -> PCs] /\ arg' \in [Threads -> Nat]
    <3>1. CASE Goto(t, "idle")
      BY <3>1, GotoType DEF TypeOK
    <3>2. CASE \E n \in Lens : Call(t, "wPeer", n)
      BY <3>2, CallType, PipeAssumption DEF TypeOK
    <3>3. QED BY <1>1, <3>1, <3>2 DEF WriteCall
  <2>2. offered' \in [Ends -> 0..MaxWrites]
    BY <1>1, PipeAssumption DEF WriteCall, TypeOK, CallTypeOK
  <2>3. QED
    BY <1>1, <2>1, <2>2
       DEF WriteCall, data, closing, TypeOK, DataTypeOK, ClosingTypeOK, CallTypeOK
<1>2. CASE WritePeer(t)
  BY <1>2, MoveType DEF WritePeer
<1>3. CASE WriteTry(t)
  BY <1>3, MoveType, EnqueueType DEF WriteTry
<1>4. CASE WriteSend(t)
  BY <1>4, EnqueueType DEF WriteSend
<1>5. CASE WritePeerGone(t)
  BY <1>5, MoveType DEF WritePeerGone
<1>6. CASE WriteTimeout(t)
  BY <1>6, MoveType DEF WriteTimeout
<1>7. QED BY <1>1, <1>2, <1>3, <1>4, <1>5, <1>6 DEF Write

LEMMA ReadType ==
  ASSUME TypeOK, Contiguous, NEW t \in Threads, Read(t)
  PROVE  TypeOK'
<1> USE PeerOfEnd DEF PCs
<1>1. arg[t] \in Nat
  BY DEF TypeOK, CallTypeOK
<1>2. CASE ReadCall(t)
  <2> DEFINE e == End[t]
             rest == pending[End[t]]
  <2>1. PICK n \in Sizes :
          \/ /\ HandOut(e, rest, n)
             /\ UNCHANGED <<ch, sent, closing, pc, arg, offered, eof>>
          \/ Take(t, e, n)
          \/ Call(t, "rWait", n) /\ UNCHANGED <<data, closing, offered, eof>>
    BY <1>2 DEF ReadCall
  <2>2. n \in Nat
    BY PipeAssumption
  <2>3. CASE HandOut(e, rest, n) /\ UNCHANGED <<ch, sent, closing, pc, arg, offered, eof>>
    <3>1. rest \in Chunk /\ rest.lo <= rest.hi
      BY DEF TypeOK, DataTypeOK, Contiguous, Adjacent
    <3>2. pending' \in [Ends -> Chunk] /\ got' \in [Ends -> Nat]
      BY <2>2, <2>3, <3>1, HandOutType DEF TypeOK
    <3>3. QED
      BY <2>3, <3>2
         DEF closing, TypeOK, DataTypeOK, ClosingTypeOK, CallTypeOK
  <2>4. CASE Take(t, e, n)
    BY <2>2, <2>4, TakeType
  <2>5. CASE Call(t, "rWait", n) /\ UNCHANGED <<data, closing, offered, eof>>
    <3>1. pc' \in [Threads -> PCs] /\ arg' \in [Threads -> Nat]
      BY <2>2, <2>5, CallType DEF TypeOK
    <3>2. QED
      BY <2>5, <3>1
         DEF data, closing, TypeOK, DataTypeOK, ClosingTypeOK, CallTypeOK
  <2>6. QED BY <2>1, <2>3, <2>4, <2>5
<1>3. CASE ReadData(t)
  BY <1>1, <1>3, TakeType DEF ReadData
<1>4. CASE ReadPeerDone(t)
  BY <1>4, MoveType DEF ReadPeerDone
<1>5. CASE ReadDrain(t)
  <2>1. CASE Take(t, End[t], arg[t])
    BY <1>1, <2>1, TakeType
  <2>2. CASE ReturnEof(t, End[t])
    BY <2>2, GotoType
       DEF ReturnEof, data, closing, TypeOK, DataTypeOK, ClosingTypeOK, CallTypeOK
  <2>3. QED BY <1>5, <2>1, <2>2 DEF ReadDrain
<1>6. QED BY <1>2, <1>3, <1>4, <1>5 DEF Read

LEMMA CloseType ==
  ASSUME TypeOK, NEW t \in Threads, Close(t)
  PROVE  TypeOK'
<1> USE PeerOfEnd DEF PCs, data, TypeOK, DataTypeOK, ClosingTypeOK
<1>1. CASE CloseCall(t)
  BY <1>1, GotoType DEF CloseCall, CallTypeOK
<1>2. CASE CloseTest(t)
  BY <1>2, GotoType DEF CloseTest, CallTypeOK
<1>3. CASE CloseSet(t)
  BY <1>3, GotoType DEF CloseSet, CallTypeOK
<1>4. CASE CloseDone(t)
  BY <1>4, GotoType DEF CloseDone, CallTypeOK
<1>5. QED BY <1>1, <1>2, <1>3, <1>4 DEF Close

LEMMA TypeStep == TypeOK /\ Contiguous /\ [Next]_vars => TypeOK'
<1>1. TypeOK /\ UNCHANGED vars => TypeOK'
  BY DEF vars, TypeOK, DataTypeOK, ClosingTypeOK, CallTypeOK
<1>2. QED BY <1>1, WriteType, ReadType, CloseType DEF Next

-----------------------------------------------------------------------------
(* Order of the bytes *)

LEMMA AdjacentAppend ==
  ASSUME NEW p \in Chunk, NEW q \in Seq(Chunk), NEW s \in Nat, NEW n \in Nat,
         Adjacent(p, q, s)
  PROVE  Adjacent(p, Append(q, [lo |-> s, hi |-> s + n]), s + n)
<1> DEFINE b == [lo |-> s, hi |-> s + n]
           r == Append(q, b)
<1>1. b \in Chunk /\ b.lo = s /\ b.hi = s + n /\ s <= s + n
  BY DEF Chunk
<1> HIDE DEF b
<1>2. /\ r \in Seq(Chunk) /\ r # <<>> /\ Len(r) = Len(q) + 1 /\ Len(q) \in Nat
      /\ r[Len(r)] = b
      /\ \A i \in 1..Len(q) : r[i] = q[i]
  BY <1>1
<1>3. q = <<>> <=> Len(q) = 0
  OBVIOUS
<1> HIDE DEF r
<1>4. ASSUME NEW i \in 1..Len(r)
      PROVE  /\ r[i].lo <= r[i].hi /\ r[i].hi <= s + n
             /\ r[i].lo = IF i = 1 THEN p.hi ELSE r[i-1].hi
  <2>1. CASE i = Len(r)
    BY <1>1, <1>2, <1>3, <2>1 DEF Adjacent
  <2>2. CASE i # Len(r)
    <3>1. i \in 1..Len(q) /\ r[i] = q[i] /\ (i # 1 => r[i-1] = q[i-1])
      BY <1>2, <2>2
    <3>2. q[i] \in Chunk /\ q[i].hi <= s
      BY <3>1 DEF Adjacent
    <3>3. s <= s + n /\ q[i].hi <= s + n
      BY <3>2 DEF Chunk
    <3>4. QED BY <3>1, <3>2, <3>3 DEF Adjacent, Chunk
  <2>3. QED BY <2>1, <2>2
<1>5. p.hi <= s + n
  BY DEF Adjacent, Chunk
<1>6. Adjacent(p, r, s + n)
  BY <1>1, <1>2, <1>4, <1>5 DEF Adjacent
<1>7. QED BY <1>6 DEF r, b

LEMMA AdjacentTail ==
  ASSUME NEW p \in Chunk, NEW q \in Seq(Chunk), NEW s \in Nat, q # <<>>,
         Adjacent(p, q, s), NEW k \in Nat, k <= Head(q).hi - Head(q).lo
  PROVE  /\ Head(q).lo = p.hi
         /\ Adjacent([lo |-> Head(q).lo + k, hi |-> Head(q).hi], Tail(q), s)
<1> DEFINE r == Tail(q)
           c == [lo |-> Head(q).lo + k, hi |-> Head(q).hi]
<1>1. /\ Len(q) \in Nat /\ Len(q) >= 1 /\ Head(q) = q[1] /\ Head(q) \in Chunk
      /\ Len(r) = Len(q) - 1 /\ r \in Seq(Chunk)
      /\ \A i \in 1..Len(r) : r[i] = q[i+1]
  OBVIOUS
<1>2. Head(q).lo = p.hi
  BY <1>1 DEF Adjacent
<1>3. c.lo <= c.hi /\ c.hi = q[1].hi /\ c.hi <= s
  BY <1>1 DEF Chunk, Adjacent
<1> HIDE DEF r, c
<1>4. r = <<>> <=> Len(q) = 1
  BY <1>1
<1>5. ASSUME NEW i \in 1..Len(r)
      PROVE  /\ r[i].lo <= r[i].hi /\ r[i].hi <= s
             /\ r[i].lo = IF i = 1 THEN c.hi ELSE r[i-1].hi
  <2>1. /\ r[i] = q[i+1] /\ i+1 \in 1..Len(q) /\ i+1 # 1
        /\ i = 1 => q[i+1-1] = q[1]
        /\ i # 1 => i-1 \in 1..Len(r) /\ r[i-1] = q[i+1-1]
    BY <1>1
  <2>2. q[i+1].lo <= q[i+1].hi /\ q[i+1].hi <= s /\ q[i+1].lo = q[i+1-1].hi
    BY <2>1 DEF Adjacent
  <2>3. QED BY <1>3, <2>1, <2>2
<1>6. s = IF r = <<>> THEN c.hi ELSE r[Len(r)].hi
  BY <1>1, <1>3, <1>4 DEF Adjacent
<1>7. Adjacent(c, r, s)
  BY <1>3, <1>5, <1>6 DEF Adjacent
<1>8. QED BY <1>2, <1>7 DEF r, c

\* A step of one end that keeps what the other end has, keeps its order too.
LEMMA EnqueueOrder ==
  ASSUME TypeOK, Contiguous, InOrder, NEW t \in Threads, NEW e \in Ends, Enqueue(t, e)
  PROVE  /\ Contiguous' /\ InOrder' /\ UNCHANGED <<pending, done, mark>>
         /\ \A x \in Ends : sent[x] <= sent'[x]
<1>1. /\ ch' = [ch EXCEPT ![e] = Append(@, [lo |-> sent[e], hi |-> sent[e] + arg[t]])]
      /\ sent' = [sent EXCEPT ![e] = @ + arg[t]]
      /\ UNCHANGED <<pending, got, done, mark>>
  BY DEF Enqueue, closing
<1>2. arg[t] \in Nat /\ sent \in [Ends -> Nat] /\ ch \in [Ends -> Seq(Chunk)]
      /\ pending \in [Ends -> Chunk]
  BY DEF TypeOK, DataTypeOK, CallTypeOK
<1>3. ASSUME NEW x \in Ends PROVE Adjacent(pending'[x], ch'[x], sent'[x])
  <2>1. CASE x = e
    <3>1. Adjacent(pending[e], Append(ch[e], [lo |-> sent[e], hi |-> sent[e] + arg[t]]),
                   sent[e] + arg[t])
      BY <1>2, AdjacentAppend DEF Contiguous
    <3>2. QED BY <1>1, <1>2, <2>1, <3>1
  <2>2. CASE x # e
    BY <1>1, <1>2, <2>2 DEF Contiguous
  <2>3. QED BY <2>1, <2>2
<1>4. QED BY <1>1, <1>2, <1>3 DEF Contiguous, InOrder

LEMMA TakeOrder ==
  ASSUME TypeOK, Contiguous, InOrder, NEW t \in Threads, NEW e \in Ends, NEW n \in Nat,
         pending[e].lo = pending[e].hi, Take(t, e, n)
  PROVE  Contiguous' /\ InOrder' /\ UNCHANGED <<sent, done, mark>>
<1> DEFINE b == Head(ch[e])
           k == Lesser(n, b.hi - b.lo)
<1>1. /\ ch[e] \in Seq(Chunk) /\ ch[e] # <<>> /\ b \in Chunk /\ b.lo <= b.hi
      /\ pending \in [Ends -> Chunk] /\ ch \in [Ends -> Seq(Chunk)]
      /\ sent \in [Ends -> Nat] /\ got \in [Ends -> Nat]
  BY DEF Take, TypeOK, DataTypeOK, Contiguous, Adjacent
<1>2. k \in Nat /\ k <= b.hi - b.lo
  BY <1>1 DEF Lesser, Chunk
<1>3. /\ pending' = [pending EXCEPT ![e] = [lo |-> b.lo + k, hi |-> b.hi]]
      /\ got' = [got EXCEPT ![e] = @ + k]
      /\ ch' = [ch EXCEPT ![e] = Tail(@)]
      /\ UNCHANGED <<sent, done, mark>>
  BY DEF Take, HandOut, closing
<1> HIDE DEF k
<1>4. /\ b.lo = pending[e].hi
      /\ Adjacent([lo |-> b.lo + k, hi |-> b.hi], Tail(ch[e]), sent[e])
  BY <1>1, <1>2, AdjacentTail DEF Contiguous
<1>5. ASSUME NEW x \in Ends
      PROVE  Adjacent(pending'[x], ch'[x], sent'[x]) /\ pending'[x].lo = got'[x]
  <2>1. CASE x = e
    BY <1>1, <1>3, <1>4, <2>1 DEF InOrder
  <2>2. CASE x # e
    BY <1>1, <1>3, <2>2 DEF Contiguous, InOrder
  <2>3. QED BY <2>1, <2>2
<1>6. QED BY <1>3, <1>5 DEF Contiguous, InOrder

LEMMA HandOutOrder ==
  ASSUME TypeOK, Contiguous, InOrder, NEW e \in Ends, NEW n \in Nat,
         HandOut(e, pending[e], n), UNCHANGED <<ch, sent>>
  PROVE  Contiguous' /\ InOrder'
<1> DEFINE b == pending[e]
           k == Lesser(n, b.hi - b.lo)
<1>1. /\ b \in Chunk /\ b.lo <= b.hi /\ b.lo = got[e]
      /\ pending \in [Ends -> Chunk] /\ got \in [Ends -> Nat]
  BY DEF TypeOK, DataTypeOK, Contiguous, Adjacent, InOrder
<1>2. k \in Nat /\ k <= b.hi - b.lo
  BY <1>1 DEF Lesser, Chunk
<1>3. /\ pending' = [pending EXCEPT ![e] = [lo |-> b.lo + k, hi |-> b.hi]]
      /\ got' = [got EXCEPT ![e] = @ + k]
  BY DEF HandOut
<1> HIDE DEF k
<1>4. ASSUME NEW x \in Ends
      PROVE  Adjacent(pending'[x], ch'[x], sent'[x]) /\ pending'[x].lo = got'[x]
  <2>1. CASE x = e
    <3>1. pending'[x] = [lo |-> b.lo + k, hi |-> b.hi] /\ b.lo + k <= b.hi
      BY <1>1, <1>2, <1>3, <2>1 DEF Chunk
    <3>2. Adjacent(pending'[x], ch[e], sent[e])
      BY <3>1, <1>1 DEF Contiguous, Adjacent
    <3>3. QED BY <1>1, <1>2, <1>3, <2>1, <3>1, <3>2
  <2>2. CASE x # e
    BY <1>1, <1>3, <2>2 DEF Contiguous, InOrder
  <2>3. QED BY <2>1, <2>2
<1>5. QED BY <1>4 DEF Contiguous, InOrder

-----------------------------------------------------------------------------
(* The stream invariant *)

\* Steps that touch neither queue nor rest nor history counter keep the order.
LEMMA OrderFrame ==
  ASSUME Contiguous, InOrder, MarkInStream, UNCHANGED <<data, mark>>
  PROVE  Contiguous' /\ InOrder' /\ MarkInStream'
BY DEF Contiguous, InOrder, MarkInStream, data

\* A goroutine that is not a reader leaves the readers where they are.
LEMMA OtherReaders ==
  ASSUME TypeOK, ReadersDrained, OnlyReadersRead, NEW t \in Threads,
         NEW l \in PCs \ {"rWait", "rDrain"}, pc' = [pc EXCEPT ![t] = l],
         UNCHANGED pending, \A e \in Ends : done[e] => done'[e]
  PROVE  ReadersDrained' /\ OnlyReadersRead'
<1>1. pc \in [Threads -> PCs] /\ Readers \subseteq Threads
  BY PipeAssumption DEF TypeOK, CallTypeOK
<1>2. ASSUME NEW s \in Threads, pc'[s] \in {"rWait", "rDrain"}
      PROVE  s # t /\ pc'[s] = pc[s]
  BY <1>1, <1>2
<1>3. OnlyReadersRead'
  BY <1>2 DEF OnlyReadersRead
<1>4. ReadersDrained'
  BY <1>1, <1>2, PeerOfEnd DEF ReadersDrained
<1>5. QED BY <1>3, <1>4

\* The only reader of an end moves on with what its Read left behind.
LEMMA OwnReader ==
  ASSUME TypeOK, ReadersDrained, OnlyReadersRead, NEW t \in Readers,
         NEW l \in PCs, pc' = [pc EXCEPT ![t] = l], UNCHANGED done,
         \A e \in Ends \ {End[t]} : pending'[e] = pending[e],
         l \in {"rWait", "rDrain"} => pending'[End[t]].lo = pending'[End[t]].hi,
         l = "rDrain" => done[Peer(End[t])]
  PROVE  ReadersDrained' /\ OnlyReadersRead'
<1>1. pc \in [Threads -> PCs] /\ Readers \subseteq Threads
  BY PipeAssumption DEF TypeOK, CallTypeOK
<1>2. OnlyReadersRead'
  BY <1>1 DEF OnlyReadersRead
<1>3. ASSUME NEW s \in Readers, s # t
      PROVE  pc'[s] = pc[s] /\ pending'[End[s]] = pending[End[s]]
  BY <1>1, <1>3, PeerOfEnd, OneReaderPerEnd
<1>4. pc'[t] = l
  BY <1>1
<1>5. ReadersDrained'
  BY <1>3, <1>4 DEF ReadersDrained
<1>6. QED BY <1>2, <1>5

LEMMA WriteStream ==
  ASSUME TypeOK, StreamInv, NEW t \in Threads, Write(t)
  PROVE  StreamInv'
<1> USE PeerOfEnd DEF StreamInv
<1>1. CASE Enqueue(t, Peer(End[t]))
  <2>1. Contiguous' /\ InOrder' /\ UNCHANGED <<pending, done, mark>>
        /\ \A x \in Ends : sent[x] <= sent'[x]
    BY <1>1, EnqueueOrder
  <2>2. MarkInStream'
    <3>1. ASSUME NEW e \in Ends PROVE mark'[e] <= sent'[Peer(e)]
      <4>1. mark[e] \in Nat /\ sent[Peer(e)] \in Nat /\ sent'[Peer(e)] \in Nat
        BY <1>1, EnqueueType DEF TypeOK, DataTypeOK, ClosingTypeOK
      <4>2. mark[e] <= sent[Peer(e)] /\ sent[Peer(e)] <= sent'[Peer(e)] /\ mark'[e] = mark[e]
        BY <2>1 DEF MarkInStream
      <4>3. QED BY <4>1, <4>2
    <3>2. QED BY <3>1 DEF MarkInStream
  <2>3. ReadersDrained' /\ OnlyReadersRead'
    BY <1>1, <2>1, OtherReaders DEF Enqueue, Goto, PCs
  <2>4. QED BY <2>1, <2>2, <2>3
<1>2. ASSUME NEW l \in PCs \ {"rWait", "rDrain"}, pc' = [pc EXCEPT ![t] = l],
             UNCHANGED <<data, closing>>
      PROVE  StreamInv'
  <2>1. UNCHANGED <<data, mark, pending, done>>
    BY <1>2 DEF data, closing
  <2>2. Contiguous' /\ InOrder' /\ MarkInStream'
    BY <2>1, OrderFrame
  <2>3. ReadersDrained' /\ OnlyReadersRead'
    BY <1>2, <2>1, OtherReaders
  <2>4. QED BY <2>2, <2>3
<1> USE DEF Goto, Call, PCs
<1>3. CASE WriteCall(t)
  BY <1>2, <1>3 DEF WriteCall
<1>4. CASE WritePeer(t)
  BY <1>2, <1>4 DEF WritePeer
<1>5. CASE WriteTry(t)
  BY <1>1, <1>2, <1>5 DEF WriteTry
<1>6. CASE WriteSend(t)
  BY <1>1, <1>6 DEF WriteSend
<1>7. CASE WritePeerGone(t) \/ WriteTimeout(t)
  BY <1>2, <1>7 DEF WritePeerGone, WriteTimeout
<1>8. QED BY <1>3, <1>4, <1>5, <1>6, <1>7 DEF Write

LEMMA ReadStream ==
  ASSUME TypeOK, StreamInv, NEW t \in Threads, Read(t)
  PROVE  StreamInv'
<1> USE PeerOfEnd DEF StreamInv
<1> DEFINE e == End[t]
<1>1. t \in Readers
  <2>1. CASE ReadCall(t)
    BY <2>1 DEF ReadCall
  <2>2. CASE pc[t] \in {"rWait", "rDrain"}
    BY <2>2 DEF OnlyReadersRead
  <2>3. QED BY <2>1, <2>2 DEF Read, ReadData, ReadPeerDone, ReadDrain
<1>2. arg[t] \in Nat
  BY DEF TypeOK, CallTypeOK
<1>3. ASSUME NEW n \in Nat, pending[e].lo = pending[e].hi, Take(t, e, n)
      PROVE  StreamInv'
  <2>1. Contiguous' /\ InOrder' /\ UNCHANGED <<sent, done, mark>>
    BY <1>3, TakeOrder
  <2>2. \A x \in Ends \ {e} : pending'[x] = pending[x]
    BY <1>3 DEF Take, HandOut, TypeOK, DataTypeOK
  <2>3. ReadersDrained' /\ OnlyReadersRead'
    BY <1>1, <1>3, <2>1, <2>2, OwnReader DEF Take, Goto, PCs
  <2>4. MarkInStream'
    BY <2>1 DEF MarkInStream
  <2>5. QED BY <2>1, <2>3, <2>4
<1>4. CASE ReadCall(t)
  <2>1. PICK n \in Sizes :
          \/ /\ HandOut(e, pending[e], n)
             /\ UNCHANGED <<ch, sent, closing, pc, arg, offered, eof>>
             /\ pc[t] = "idle"
          \/ pending[e].lo = pending[e].hi /\ Take(t, e, n)
          \/ /\ pending[e].lo = pending[e].hi
             /\ Call(t, "rWait", n)
             /\ UNCHANGED <<data, closing, offered, eof>>
    BY <1>4 DEF ReadCall
  <2>2. n \in Nat
    BY PipeAssumption
  <2>3. CASE /\ HandOut(e, pending[e], n)
             /\ UNCHANGED <<ch, sent, closing, pc, arg, offered, eof>>
             /\ pc[t] = "idle"
    <3>1. Contiguous' /\ InOrder'
      BY <2>2, <2>3, HandOutOrder
    <3>2. \A x \in Ends \ {e} : pending'[x] = pending[x]
      BY <2>3 DEF HandOut, TypeOK, DataTypeOK
    <3>3. pc' = [pc EXCEPT ![t] = "idle"] /\ UNCHANGED <<done, mark, sent>>
      BY <2>3 DEF closing, TypeOK, CallTypeOK
    <3>4. ReadersDrained' /\ OnlyReadersRead'
      BY <1>1, <3>2, <3>3, OwnReader DEF PCs
    <3>5. MarkInStream'
      BY <3>3 DEF MarkInStream
    <3>6. QED BY <3>1, <3>4, <3>5
  <2>4. CASE pending[e].lo = pending[e].hi /\ Take(t, e, n)
    BY <1>3, <2>2, <2>4
  <2>5. CASE /\ pending[e].lo = pending[e].hi
             /\ Call(t, "rWait", n)
             /\ UNCHANGED <<data, closing, offered, eof>>
    <3>1. UNCHANGED <<data, mark, pending, done>>
      BY <2>5 DEF data, closing
    <3>2. ReadersDrained' /\ OnlyReadersRead'
      BY <1>1, <2>5, <3>1, OwnReader DEF Call, PCs
    <3>3. QED BY <3>1, <3>2, OrderFrame
  <2>6. QED BY <2>1, <2>3, <2>4, <2>5
<1>5. pc[t] \in {"rWait", "rDrain"} => pending[e].lo = pending[e].hi
  BY <1>1 DEF ReadersDrained
<1>6. CASE ReadData(t)
  BY <1>2, <1>3, <1>5, <1>6 DEF ReadData
<1>7. ASSUME NEW l \in PCs, pc' = [pc EXCEPT ![t] = l], UNCHANGED <<data, closing>>,
             pending[e].lo = pending[e].hi, l = "rDrain" => done[Peer(e)]
      PROVE  StreamInv'
  <2>1. UNCHANGED <<data, mark, pending, done>>
    BY <1>7 DEF data, closing
  <2>2. ReadersDrained' /\ OnlyReadersRead'
    BY <1>1, <1>7, <2>1, OwnReader
  <2>3. QED BY <2>1, <2>2, OrderFrame
<1>8. CASE ReadPeerDone(t)
  BY <1>5, <1>7, <1>8 DEF ReadPeerDone, Goto, PCs
<1>9. CASE ReadDrain(t)
  BY <1>2, <1>3, <1>5, <1>7, <1>9 DEF ReadDrain, ReturnEof, Goto, PCs
<1>10. QED BY <1>4, <1>6, <1>8, <1>9 DEF Read

LEMMA CloseStream ==
  ASSUME TypeOK, StreamInv, NEW t \in Threads, Close(t)
  PROVE  StreamInv'
<1> USE PeerOfEnd DEF StreamInv
<1>1. UNCHANGED data /\ UNCHANGED pending /\ UNCHANGED sent
  BY DEF Close, CloseCall, CloseTest, CloseSet, CloseDone, data
<1>2. Contiguous' /\ InOrder'
  BY <1>1 DEF Contiguous, InOrder, data
<1>3. \A e \in Ends : done[e] => done'[e]
  BY DEF Close, CloseCall, CloseTest, CloseSet, CloseDone, TypeOK, ClosingTypeOK
<1>4. \E l \in PCs \ {"rWait", "rDrain"} : pc' = [pc EXCEPT ![t] = l]
  BY DEF Close, CloseCall, CloseTest, CloseSet, CloseDone, Goto, PCs
<1>5. ReadersDrained' /\ OnlyReadersRead'
  BY <1>1, <1>3, <1>4, OtherReaders
<1>6. MarkInStream'
  <2>1. CASE UNCHANGED mark
    BY <1>1, <2>1 DEF MarkInStream
  <2>2. CASE mark' = [mark EXCEPT ![End[t]] = sent[Peer(End[t])]]
    <3>1. mark \in [Ends -> Nat] /\ sent \in [Ends -> Nat]
      BY DEF TypeOK, ClosingTypeOK, DataTypeOK
    <3>2. ASSUME NEW e \in Ends PROVE mark'[e] <= sent'[Peer(e)]
      BY <1>1, <2>2, <3>1 DEF MarkInStream
    <3>3. QED BY <3>2 DEF MarkInStream
  <2>3. QED BY <2>1, <2>2 DEF Close, CloseCall, CloseTest, CloseSet, CloseDone
<1>7. QED BY <1>2, <1>5, <1>6

LEMMA StreamInit == Init => StreamInv
<1> SUFFICES ASSUME Init PROVE StreamInv
  OBVIOUS
<1>1. Contiguous /\ InOrder
  BY DEF Init, Contiguous, Adjacent, InOrder
<1>2. ReadersDrained /\ OnlyReadersRead
  BY PipeAssumption DEF Init, ReadersDrained, OnlyReadersRead
<1>3. MarkInStream
  BY PeerOfEnd DEF Init, MarkInStream
<1>4. QED BY <1>1, <1>2, <1>3 DEF StreamInv

LEMMA StreamStep == TypeOK /\ StreamInv /\ [Next]_vars => StreamInv'
<1>1. StreamInv /\ UNCHANGED vars => StreamInv'
  BY DEF vars, StreamInv, Contiguous, Adjacent, InOrder, ReadersDrained,
         OnlyReadersRead, MarkInStream
<1>2. QED BY <1>1, WriteStream, ReadStream, CloseStream DEF Next

-----------------------------------------------------------------------------
(* The close protocol *)

LEMMA CloseInit == Init => CloseInv
BY DEF Init, CloseInv, CloseProtocol, NoDoubleClose, Closing

\* Steps of a goroutine that is not closing leave the protocol alone.
LEMMA CloseFrame ==
  ASSUME TypeOK, CloseInv, NEW t \in Threads,
         NEW l \in PCs \ Closing, pc' = [pc EXCEPT ![t] = l],
         UNCHANGED closing
  PROVE  CloseInv'
<1>1. pc \in [Threads -> PCs] /\ UNCHANGED <<mu, done, flag>>
  BY DEF TypeOK, CallTypeOK, closing
<1>2. ASSUME NEW s \in Threads, pc'[s] \in Closing
      PROVE  pc[s] = pc'[s]
  BY <1>1, <1>2
<1>3. QED BY <1>1, <1>2 DEF CloseInv, CloseProtocol, NoDoubleClose, Closing

LEMMA CloseStep == TypeOK /\ CloseInv /\ [Next]_vars => CloseInv'
<1> SUFFICES ASSUME TypeOK, CloseInv, [Next]_vars PROVE CloseInv'
  OBVIOUS
<1>1. CASE UNCHANGED vars
  BY <1>1 DEF vars, CloseInv, CloseProtocol, NoDoubleClose, Closing
<1>2. ASSUME NEW t \in Threads, Write(t) PROVE CloseInv'
  <2>1. UNCHANGED closing
    BY <1>2 DEF Write, WriteCall, WritePeer, WriteTry, WriteSend, WritePeerGone,
                WriteTimeout, Enqueue
  <2>2. \E l \in PCs \ Closing : pc' = [pc EXCEPT ![t] = l]
    BY <1>2 DEF Write, WriteCall, WritePeer, WriteTry, WriteSend, WritePeerGone,
                WriteTimeout, Enqueue, Goto, Call, PCs, Closing
  <2>3. QED BY <2>1, <2>2, CloseFrame
<1>3. ASSUME NEW t \in Threads, Read(t) PROVE CloseInv'
  <2>1. UNCHANGED closing
    BY <1>3 DEF Read, ReadCall, ReadData, ReadPeerDone, ReadDrain, ReturnEof, Take
  <2>2. CASE UNCHANGED pc
    BY <2>1, <2>2 DEF closing, CloseInv, CloseProtocol, NoDoubleClose, Closing
  <2>3. CASE \E l \in PCs \ Closing : pc' = [pc EXCEPT ![t] = l]
    BY <2>1, <2>3, CloseFrame
  <2>4. QED
    BY <1>3, <2>2, <2>3 DEF Read, ReadCall, ReadData, ReadPeerDone, ReadDrain,
                            ReturnEof, Take, Goto, Call, PCs, Closing
<1>4. ASSUME NEW t \in Threads, Close(t) PROVE CloseInv'
  <2> USE PeerOfEnd, PipeAssumption DEF TypeOK, CallTypeOK, ClosingTypeOK, Goto
  <2>1. CASE CloseCall(t)
    BY <2>1 DEF CloseCall, CloseInv, CloseProtocol, NoDoubleClose, Closing
  <2>2. CASE CloseTest(t)
    BY <2>2 DEF CloseTest, CloseInv, CloseProtocol, NoDoubleClose, Closing
  <2>3. CASE CloseSet(t)
    <3>1. /\ mu = t /\ pc'[t] = "cDone"
          /\ \A s \in Threads : pc'[s] \in Closing => s = t
      BY <2>3 DEF CloseSet, CloseInv, CloseProtocol, Closing
    <3>2. ~done[End[t]] /\ UNCHANGED <<mu, done>> /\ flag' = [flag EXCEPT ![End[t]] = TRUE]
      BY <2>3 DEF CloseSet, CloseInv, CloseProtocol
    <3>3. QED
      BY <3>1, <3>2 DEF CloseInv, CloseProtocol, NoDoubleClose, Closing
  <2>4. CASE CloseDone(t)
    <3>1. /\ mu = t
          /\ \A s \in Threads : pc'[s] \in Closing => s # t /\ pc'[s] = pc[s]
      BY <2>4 DEF CloseDone, CloseInv, CloseProtocol, Closing
    <3>2. \A s \in Threads : pc'[s] \notin Closing
      BY <3>1 DEF CloseInv, CloseProtocol, Closing
    <3>3. flag[End[t]]
      BY <2>4 DEF CloseDone, CloseInv, CloseProtocol, Closing
    <3>4. QED
      BY <2>4, <3>2, <3>3 DEF CloseDone, CloseInv, CloseProtocol, NoDoubleClose, Closing
  <2>5. QED BY <1>4, <2>1, <2>2, <2>3, <2>4 DEF Close
<1>5. QED BY <1>1, <1>2, <1>3, <1>4 DEF Next
-----------------------------------------------------------------------------
(* The theorems *)

IInv == TypeOK /\ StreamInv /\ CloseInv

LEMMA Invariance == Spec => []IInv
<1>1. Init => IInv
  BY TypeInit, StreamInit, CloseInit DEF IInv
<1>2. IInv /\ [Next]_vars => IInv'
  BY TypeStep, StreamStep, CloseStep DEF IInv, StreamInv
<1>3. QED BY <1>1, <1>2, PTL DEF Spec

\* Whatever goroutines use the pipe, its variables keep their types and its
\* queues stay within the capacity of the Go channels.
THEOREM TypeCorrect == Spec => []TypeOK
<1>1. IInv => TypeOK
  BY DEF IInv
<1>2. QED BY <1>1, Invariance, PTL

\* The k-th byte an end is given is the k-th byte accepted for it, whatever
\* block and buffer lengths are used (bufferedConn.Read, pending).
THEOREM BytesInOrder == Spec => []InOrder
<1>1. IInv => InOrder
  BY DEF IInv, StreamInv
<1>2. QED BY <1>1, Invariance, PTL

\* close(done) is never executed twice on one end (bufferedConn.Close).
THEOREM DoneClosedOnce == Spec => []NoDoubleClose
<1>1. IInv => NoDoubleClose
  BY DEF IInv, CloseInv
<1>2. QED BY <1>1, Invariance, PTL

LEMMA RestInside ==
  ASSUME NEW p \in Chunk, NEW q, NEW s \in Nat, Adjacent(p, q, s)
  PROVE  p.lo <= s
BY DEF Adjacent, Chunk

LEMMA HandOutDelivers ==
  ASSUME TypeOK, StreamInv, TypeOK', StreamInv', NEW e \in Ends, NEW b \in Chunk,
         b.lo <= b.hi, NEW n \in Nat, HandOut(e, b, n),
         UNCHANGED <<sent, done, mark, eof>>
  PROVE  Stream!Deliver(e)
<1> DEFINE k == Lesser(n, b.hi - b.lo)
<1>1. k \in Nat /\ got' = [got EXCEPT ![e] = @ + k]
  BY DEF HandOut, Lesser, Chunk
<1> HIDE DEF k
<1>2. got \in [Ends -> Nat] /\ got[e] \in Nat /\ got'[e] = got[e] + k
  BY <1>1 DEF TypeOK, DataTypeOK
<1>3. got'[e] <= sent[e] /\ sent[e] \in Nat
  <2>1. got'[e] <= sent'[e] /\ sent'[e] \in Nat
    <3>1. pending'[e] \in Chunk /\ sent'[e] \in Nat /\ pending'[e].lo = got'[e]
          /\ Adjacent(pending'[e], ch'[e], sent'[e])
      BY DEF TypeOK, DataTypeOK, StreamInv, Contiguous, InOrder
    <3>2. QED BY <3>1, RestInside
  <2>2. QED BY <2>1
<1>4. got'[e] \in got[e]..sent[e] /\ got' = [got EXCEPT ![e] = got'[e]]
  BY <1>1, <1>2, <1>3
<1>5. QED BY <1>4 DEF Stream!Deliver

LEMMA AbstractInit == Init => Stream!Init
BY DEF Init, Stream!Init, Ends, Stream!Ends

LEMMA StreamSimulation ==
  ASSUME TypeOK, StreamInv, CloseInv, TypeOK', StreamInv', [Next]_vars
  PROVE  [Stream!Next]_(Stream!vars)
<1> USE PeerOfEnd
<1>1. Ends = Stream!Ends /\ \A e \in Ends : Peer(e) = Stream!Peer(e)
  BY DEF Ends, Stream!Ends, Peer, Stream!Peer
<1>2. CASE UNCHANGED <<sent, got, done, mark, eof>>
  BY <1>2 DEF Stream!vars
<1>3. CASE UNCHANGED vars
  BY <1>2, <1>3 DEF vars
<1>4. ASSUME NEW t \in Threads, Write(t) PROVE [Stream!Next]_(Stream!vars)
  <2>1. CASE UNCHANGED <<data, closing, eof>>
    BY <1>2, <2>1 DEF data, closing
  <2>2. CASE Enqueue(t, Peer(End[t]))
    <3> DEFINE e == Peer(End[t])
    <3>1. arg[t] \in Nat /\ sent \in [Ends -> Nat]
      BY DEF TypeOK, CallTypeOK, DataTypeOK
    <3>2. /\ sent' = [sent EXCEPT ![e] = @ + arg[t]]
          /\ UNCHANGED <<got, done, mark, eof>>
      BY <2>2 DEF Enqueue, closing
    <3>3. sent'[e] = sent[e] + arg[t] /\ sent[e] <= sent'[e]
      BY <3>1, <3>2
    <3>4. Stream!Accept(e)
      BY <3>2, <3>3 DEF Stream!Accept
    <3>5. QED BY <1>1, <3>4 DEF Stream!Next
  <2>3. QED
    BY <1>4, <2>1, <2>2 DEF Write, WriteCall, WritePeer, WriteTry, WriteSend,
                            WritePeerGone, WriteTimeout
<1>5. ASSUME NEW t \in Threads, Read(t) PROVE [Stream!Next]_(Stream!vars)
  <2> DEFINE e == End[t]
  <2>1. CASE UNCHANGED <<data, closing, eof>>
    BY <1>2, <2>1 DEF data, closing
  <2>2. ASSUME NEW n \in Nat, Take(t, e, n) PROVE Stream!Deliver(e)
    <3>1. ch[e] \in Seq(Chunk) /\ ch[e] # <<>>
      BY <2>2 DEF Take, TypeOK, DataTypeOK
    <3>2. e \in Ends /\ Head(ch[e]) = ch[e][1] /\ 1 \in 1..Len(ch[e])
      BY <3>1
    <3>3. ch[e][1] \in Chunk
      BY <3>1, <3>2
    <3>4. Adjacent(pending[e], ch[e], sent[e])
      BY <3>2 DEF StreamInv, Contiguous
    <3>5. ch[e][1].lo <= ch[e][1].hi
      BY <3>2, <3>4 DEF Adjacent
    <3>6. QED BY <2>2, <3>2, <3>3, <3>5, HandOutDelivers DEF Take, closing
  <2>3. CASE ReadCall(t)
    <3>1. pending[e] \in Chunk /\ pending[e].lo <= pending[e].hi
      BY DEF StreamInv, Contiguous, Adjacent, TypeOK, DataTypeOK
    <3>2. PICK n \in Sizes :
            \/ /\ HandOut(e, pending[e], n)
               /\ UNCHANGED <<ch, sent, closing, pc, arg, offered, eof>>
            \/ Take(t, e, n)
            \/ UNCHANGED <<data, closing, offered, eof>>
      BY <2>3 DEF ReadCall
    <3>3. n \in Nat
      BY PipeAssumption
    <3>4. CASE /\ HandOut(e, pending[e], n)
               /\ UNCHANGED <<ch, sent, closing, pc, arg, offered, eof>>
      <4>1. Stream!Deliver(e)
        BY <3>1, <3>3, <3>4, HandOutDelivers DEF closing
      <4>2. QED BY <1>1, <4>1 DEF Stream!Next
    <3>5. CASE Take(t, e, n)
      BY <1>1, <2>2, <3>3, <3>5 DEF Stream!Next
    <3>6. CASE UNCHANGED <<data, closing, offered, eof>>
      BY <1>2, <3>6 DEF data, closing
    <3>7. QED BY <3>2, <3>4, <3>5, <3>6
  <2>4. CASE Take(t, e, arg[t])
    <3>1. arg[t] \in Nat
      BY DEF TypeOK, CallTypeOK
    <3>2. QED BY <1>1, <2>2, <2>4, <3>1 DEF Stream!Next
  <2>5. CASE ReturnEof(t, e) /\ pc[t] = "rDrain" /\ ch[e] = <<>>
    <3>1. t \in Readers /\ done[Peer(e)] /\ pending[e].lo = pending[e].hi
      BY <2>5 DEF StreamInv, OnlyReadersRead, ReadersDrained
    <3>2. got[e] = sent[e]
      BY <2>5, <3>1 DEF StreamInv, Contiguous, Adjacent, InOrder
    <3>3. mark[Peer(e)] <= got[e]
      BY <3>2 DEF StreamInv, MarkInStream
    <3>4. Stream!ReportEof(e)
      BY <1>1, <2>5, <3>1, <3>3 DEF ReturnEof, data, closing, Stream!ReportEof
    <3>5. QED BY <1>1, <3>4 DEF Stream!Next
  <2>6. QED
    BY <1>5, <2>1, <2>3, <2>4, <2>5 DEF Read, ReadData, ReadPeerDone, ReadDrain
<1>6. ASSUME NEW t \in Threads, Close(t) PROVE [Stream!Next]_(Stream!vars)
  <2>1. CASE CloseCall(t) \/ CloseTest(t) \/ CloseSet(t)
    BY <1>2, <1>6, <2>1 DEF CloseCall, CloseTest, CloseSet, data, Close
  <2>2. CASE CloseDone(t)
    <3>1. ~done[End[t]]
      BY <2>2 DEF CloseDone, CloseInv, NoDoubleClose
    <3>2. Stream!CloseEnd(End[t])
      BY <1>1, <2>2, <3>1 DEF CloseDone, data, Stream!CloseEnd
    <3>3. QED BY <1>1, <3>2 DEF Stream!Next
  <2>3. QED BY <1>6, <2>1, <2>2 DEF Close
<1>7. QED BY <1>3, <1>4, <1>5, <1>6 DEF Next

\* The pipe implements the abstract connection, end of stream included: a Read
\* returns io.EOF only when everything its peer had written when it closed has
\* been handed out (the drain in bufferedConn.Read).
THEOREM PipeImplementsByteStream == Spec => ImplementsByteStream
<1>1. Init => Stream!Init
  BY AbstractInit
<1>2. IInv /\ IInv' /\ [Next]_vars => [Stream!Next]_(Stream!vars)
  BY StreamSimulation DEF IInv
<1>3. QED BY <1>1, <1>2, Invariance, PTL DEF Spec, ImplementsByteStream, Stream!Spec
=============================================================================
