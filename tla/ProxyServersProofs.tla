-------------------------- MODULE ProxyServersProofs --------------------------
(***************************************************************************)
(* Both proxy servers, for any number of connections and slots and any     *)
(* options: types, the exact count of slots, the exact set of upstream     *)
(* connections, and one answer to each client.                             *)
(***************************************************************************)
EXTENDS ProxyServers, FiniteSetTheorems, SequenceTheorems, TLAPS

\* What can have been said, q, to a client whose handler is at l.
SocksOK(l, q) ==
  /\ q \in SocksConversations
  /\ l \in {"new", "backlog", "slot", "slotWait", "auth"} => q = <<>>
  /\ l = "creds" => q = <<"pw">>
  /\ l \in {"request", "dial", "reply", "bind"} => q \in Greetings
  /\ l \in Serving \cup {"dialUdp"} => q \in SocksServed

HttpOK(l, q) ==
  /\ q \in HttpConversations
  /\ l \in {"new", "backlog", "slot", "slotWait", "read", "connect", "forward",
           "established", "first"} => q = <<>>
  /\ l \in Serving => q \in HttpServed

Heard(l, q) == IF opts.proto = "socks5" THEN SocksOK(l, q) ELSE HttpOK(l, q)

SaidInv == \A c \in Conns : Heard(pc[c], said[c])

Counted == SlotsExact /\ UpstreamExact
-----------------------------------------------------------------------------
(* Types *)

LEMMA GotoType ==
  ASSUME TypeOK, NEW c \in Conns, NEW l \in PCs, Goto(c, l)
  PROVE  pc' \in [Conns -> PCs]
BY DEF TypeOK, Goto

LEMMA SayType ==
  ASSUME TypeOK, NEW c \in Conns, NEW m \in Replies, Say(c, m)
  PROVE  said' \in [Conns -> Seq(Replies)]
BY DEF TypeOK, Say

LEMMA InitType == Init => TypeOK
<1>1. <<>> \in Seq(Replies)
  OBVIOUS
<1>2. Init => said \in [Conns -> Seq(Replies)]
  BY <1>1 DEF Init
<1>3. Init => pc \in [Conns -> PCs] /\ hung \in [Conns -> BOOLEAN]
  BY DEF Init, PCs
<1>4. Init => slots \in Int /\ active \in Int /\ upstream \subseteq Conns
  BY DEF Init
<1>5. QED BY <1>2, <1>3, <1>4 DEF Init, TypeOK

LEMMA ServerType ==
  ASSUME TypeOK, Start \/ Close \/ CloseListener \/ SocksAcceptor \/ HttpAcceptor
  PROVE  TypeOK'
BY DEF Start, Close, CloseListener, SocksAcceptor, AcceptError, AcceptRetry,
       HttpAcceptor, HttpAcceptError, HttpAcceptCheck, TypeOK

LEMMA SharedType ==
  ASSUME TypeOK, NEW c \in Conns, Shared(c) \/ SharedHandler(c)
  PROVE  TypeOK'
<1> USE DEF server
<1>1. CASE Accept(c)
  <2>1. pc' \in [Conns -> PCs]
    BY <1>1, GotoType DEF Accept, PCs
  <2>2. QED BY <1>1, <2>1 DEF Accept, TypeOK
<1>2. CASE Connect(c)
  <2>1. pc' \in [Conns -> PCs]
    BY <1>2, GotoType DEF Connect, PCs
  <2>2. QED BY <1>2, <2>1 DEF Connect, TypeOK
<1>3. CASE HangUp(c)
  BY <1>3 DEF HangUp, TypeOK
<1>4. CASE SlotTake(c)
  <2>1. pc' \in [Conns -> PCs]
    BY <1>4, GotoType DEF SlotTake, FirstPhase, PCs, Holding, Handshake
  <2>2. slots' \in Int
    BY <1>4 DEF SlotTake, Token, TypeOK
  <2>3. QED BY <1>4, <2>1, <2>2 DEF SlotTake, TypeOK
<1>5. CASE SlotBlock(c)
  <2>1. pc' \in [Conns -> PCs]
    BY <1>5, GotoType DEF SlotBlock, PCs
  <2>2. QED BY <1>5, <2>1 DEF SlotBlock, TypeOK
<1>6. CASE SlotRelease(c)
  <2>1. pc' \in [Conns -> PCs]
    BY <1>6, GotoType DEF SlotRelease, PCs
  <2>2. slots' \in Int
    BY <1>6 DEF SlotRelease, Token, TypeOK
  <2>3. QED BY <1>6, <2>1, <2>2 DEF SlotRelease, TypeOK
<1>7. CASE Shut(c)
  <2>1. pc' \in [Conns -> PCs]
    BY <1>7, GotoType DEF Shut, PCs
  <2>2. QED BY <1>7, <2>1 DEF Shut, TypeOK
<1>8. CASE StreamClose(c)
  <2>1. pc' \in [Conns -> PCs]
    BY <1>8, GotoType DEF StreamClose, PCs, Holding, Ending
  <2>2. QED BY <1>8, <2>1 DEF StreamClose, TypeOK
<1>9. QED
  BY <1>1, <1>2, <1>3, <1>4, <1>5, <1>6, <1>7, <1>8 DEF Shared, SharedHandler

\* What every step of a handler's own does to types: it moves on and says at
\* most one thing.
LEMMA MoveType ==
  ASSUME TypeOK, NEW c \in Conns, \E l \in PCs : Goto(c, l),
         UNCHANGED said \/ \E m \in Replies : Say(c, m),
         active' \in Int, upstream' \subseteq Conns, UNCHANGED <<server, hung, slots>>
  PROVE  TypeOK'
<1>1. pc' \in [Conns -> PCs]
  BY GotoType
<1>2. said' \in [Conns -> Seq(Replies)]
  BY SayType DEF TypeOK
<1>3. QED BY <1>1, <1>2 DEF TypeOK, server

LEMMA SocksType ==
  ASSUME TypeOK, NEW c \in Conns,
         SocksHandler(c) \/ Auth(c) \/ Creds(c) \/ Request(c) \/ PumpEnd(c)
  PROVE  TypeOK'
<1> USE DEF PCs, Holding, Handshake, Dialling, Serving, Ending, Replies
<1>a. active \in Int /\ upstream \subseteq Conns
  BY DEF TypeOK
<1>0. active \in Int /\ active + 1 \in Int /\ active - 1 \in Int /\ upstream \subseteq Conns
  BY <1>a
<1>1. CASE SlotReject(c)
  BY <1>0, <1>1, MoveType DEF SlotReject
<1>2. CASE HandshakeFail(c)
  BY <1>0, <1>2, MoveType DEF HandshakeFail
<1>3. CASE Dial(c)
  BY <1>0, <1>3, MoveType DEF Dial
<1>4. CASE Reply(c)
  BY <1>0, <1>4, MoveType DEF Reply
<1>5. CASE BindUdp(c)
  BY <1>0, <1>5, MoveType DEF BindUdp
<1>6. CASE DialUdp(c)
  BY <1>0, <1>6, MoveType DEF DialUdp
<1>7. CASE Auth(c)
  BY <1>0, <1>7, MoveType DEF Auth
<1>8. CASE Creds(c)
  BY <1>0, <1>8, MoveType DEF Creds
<1>9. CASE Request(c)
  BY <1>0, <1>9, MoveType DEF Request
<1>10. CASE PumpEnd(c)
  BY <1>0, <1>10, MoveType DEF PumpEnd
<1>11. QED
  BY <1>1, <1>2, <1>3, <1>4, <1>5, <1>6, <1>7, <1>8, <1>9, <1>10 DEF SocksHandler

LEMMA HttpType ==
  ASSUME TypeOK, NEW c \in Conns,
         HttpHandler(c) \/ HttpRequest(c) \/ HttpFirst(c) \/ HttpPumpEnd(c)
  PROVE  TypeOK'
<1> USE DEF PCs, Holding, Handshake, Dialling, Serving, Ending, Replies
<1>0. active \in Int /\ upstream \subseteq Conns
  BY DEF TypeOK
<1>1. CASE HttpReject(c)
  BY <1>0, <1>1, MoveType DEF HttpReject
<1>2. CASE HttpReadFail(c)
  BY <1>0, <1>2, MoveType DEF HttpReadFail
<1>3. CASE HttpConnect(c) \/ HttpForward(c)
  BY <1>0, <1>3, MoveType DEF HttpConnect, HttpForward, DialUpstream
<1>4. CASE HttpEstablished(c)
  BY <1>0, <1>4, MoveType DEF HttpEstablished
<1>5. CASE HttpRequest(c)
  BY <1>0, <1>5, MoveType DEF HttpRequest
<1>6. CASE HttpFirst(c) \/ HttpPumpEnd(c)
  BY <1>0, <1>6, MoveType DEF HttpFirst, HttpPumpEnd
<1>7. QED BY <1>1, <1>2, <1>3, <1>4, <1>5, <1>6 DEF HttpHandler

LEMMA TypeStep == TypeOK /\ [Next]_vars => TypeOK'
<1> SUFFICES ASSUME TypeOK, [Next]_vars PROVE TypeOK'
  OBVIOUS
<1>1. CASE UNCHANGED vars
  BY <1>1 DEF vars, TypeOK
<1>2. QED
  BY <1>1, ServerType, SharedType, SocksType, HttpType DEF Next, SocksNext, HttpNext
-----------------------------------------------------------------------------
(* What the counters count *)

\* 1 at one of these places, 0 elsewhere.
In(l, places) == IF l \in places THEN 1 ELSE 0

LEMMA FiniteAt ==
  ASSUME NEW places
  PROVE  IsFiniteSet(At(places)) /\ Cardinality(At(places)) \in Nat
<1>1. At(places) \in SUBSET Conns
  BY DEF At
<1>2. QED BY <1>1, ServerAssumption, FS_Subset, FS_CardinalityType

\* A handler that moves joins the places it moves to and leaves the others.
LEMMA MoveAt ==
  ASSUME TypeOK, NEW c \in Conns, NEW l, Goto(c, l), NEW places
  PROVE  At(places)' = IF l \in places THEN At(places) \cup {c} ELSE At(places) \ {c}
BY DEF TypeOK, Goto, At

LEMMA MoveCount ==
  ASSUME TypeOK, NEW c \in Conns, NEW l, Goto(c, l), NEW places
  PROVE  Cardinality(At(places))' = Cardinality(At(places)) + In(l, places)
                                                            - In(pc[c], places)
<1>1. c \in At(places) <=> pc[c] \in places
  BY DEF At
<1>2. IsFiniteSet(At(places)) /\ Cardinality(At(places)) \in Nat
  BY FiniteAt
<1>3. CASE l \in places
  <2>1. At(places)' = At(places) \cup {c}
    BY <1>3, MoveAt
  <2>2. Cardinality(At(places) \cup {c})
          = IF c \in At(places) THEN Cardinality(At(places)) ELSE Cardinality(At(places)) + 1
    BY <1>2, FS_AddElement
  <2>3. QED BY <1>1, <1>2, <1>3, <2>1, <2>2 DEF In
<1>4. CASE l \notin places
  <2>1. At(places)' = At(places) \ {c}
    BY <1>4, MoveAt
  <2>2. Cardinality(At(places) \ {c})
          = IF c \in At(places) THEN Cardinality(At(places)) - 1 ELSE Cardinality(At(places))
    BY <1>2, FS_RemoveElement
  <2>3. QED BY <1>1, <1>2, <1>4, <2>1, <2>2 DEF In
<1>5. QED BY <1>3, <1>4

\* A step inside the handler: it keeps its slot, or its not having one.
LEMMA HandlerCounted ==
  ASSUME TypeOK, Counted, NEW c \in Conns, NEW l, Goto(c, l),
         pc[c] \in Holding <=> l \in Holding, UNCHANGED <<opts, slots>>,
         upstream' = IF pc[c] \in Dialled <=> l \in Dialled THEN upstream
                     ELSE IF l \in Dialled THEN upstream \cup {c} ELSE upstream \ {c},
         active' = IF opts.proto = "socks5"
                   THEN active + In(l, Serving) - In(pc[c], Serving) ELSE active
  PROVE  Counted'
<1>1. In(l, Holding) = In(pc[c], Holding)
  BY DEF In
<1>2. Cardinality(At(Holding)) \in Nat /\ In(l, Holding) \in Int
  BY FiniteAt DEF In
<1>3. Cardinality(At(Holding))' = Cardinality(At(Holding)) + In(l, Holding) - In(pc[c], Holding)
  BY MoveCount
<1>4. Cardinality(At(Holding))' = Cardinality(At(Holding))
  BY <1>1, <1>2, <1>3
<1>5. SlotsExact'
  BY <1>4 DEF Counted, SlotsExact
<1>6. upstream' = At(Dialled)'
  <2>1. c \in At(Dialled) <=> pc[c] \in Dialled
    BY DEF At
  <2>2. QED BY <2>1, MoveAt DEF Counted, UpstreamExact
<1>7. Cardinality(At(Serving))' = Cardinality(At(Serving)) + In(l, Serving) - In(pc[c], Serving)
  BY MoveCount
<1>8. QED BY <1>5, <1>6, <1>7 DEF Counted, UpstreamExact

LEMMA InitCounted == Init => Counted
<1> SUFFICES ASSUME Init PROVE Counted
  OBVIOUS
<1>1. At(Holding) = {} /\ At(Serving) = {} /\ At(Dialled) = {}
  BY DEF Init, At, Holding, Handshake, Dialling, Serving, Ending, Dialled
<1>2. Cardinality({}) = 0
  BY FS_EmptySet
<1>3. QED
  BY <1>1, <1>2, ServerAssumption DEF Init, Counted, SlotsExact, UpstreamExact

LEMMA ServerCounted ==
  ASSUME Counted, Start \/ Close \/ CloseListener \/ SocksAcceptor \/ HttpAcceptor
                    \/ \E c \in Conns : HangUp(c)
  PROVE  Counted'
<1>1. UNCHANGED <<opts, pc, slots, active, upstream>>
  BY DEF Start, Close, CloseListener, SocksAcceptor, AcceptError, AcceptRetry,
         HttpAcceptor, HttpAcceptError, HttpAcceptCheck, HangUp, server
<1>2. QED BY <1>1 DEF Counted, SlotsExact, UpstreamExact, At

\* The only two steps that touch the semaphore.
LEMMA SlotCounted ==
  ASSUME TypeOK, Counted, NEW c \in Conns, SlotTake(c) \/ SlotRelease(c)
  PROVE  Counted'
<1> USE DEF Holding, Handshake, Dialling, Serving, Ending, Dialled
<1>1. PICK l : /\ Goto(c, l)
               /\ pc[c] \notin Serving \cup Dialled /\ l \notin Serving \cup Dialled
               /\ slots' = slots + Token * (In(l, Holding) - In(pc[c], Holding))
  <2>1. Token * (1 - 0) = Token /\ slots + Token * (0 - 1) = slots - Token
    BY DEF Token, TypeOK
  <2>2. CASE SlotTake(c)
    BY <2>1, <2>2 DEF SlotTake, FirstPhase, In
  <2>3. CASE SlotRelease(c)
    BY <2>1, <2>3 DEF SlotRelease, In
  <2>4. QED BY <2>2, <2>3
<1> HIDE DEF Holding, Handshake, Dialling, Serving, Ending, Dialled
<1>2. UNCHANGED <<opts, active, upstream>>
  BY DEF SlotTake, SlotRelease, server
<1>3. In(l, Holding) \in 0..1 /\ In(pc[c], Holding) \in 0..1
  BY DEF In
<1>4. Cardinality(At(Holding)) \in Nat
  BY FiniteAt
<1>5. Cardinality(At(Holding))' = Cardinality(At(Holding)) + In(l, Holding) - In(pc[c], Holding)
  BY <1>1, MoveCount
<1>6. slots' = IF opts.limited THEN Cardinality(At(Holding))' ELSE 0
  BY <1>1, <1>3, <1>4, <1>5 DEF Token, Counted, SlotsExact
<1>7. slots' <= MaxConns
  BY ServerAssumption DEF SlotTake, SlotRelease, Token, Counted, SlotsExact, TypeOK
<1>8. At(Serving)' = At(Serving) /\ At(Dialled)' = At(Dialled)
  BY <1>1, MoveAt DEF At
<1>9. QED BY <1>2, <1>6, <1>7, <1>8 DEF Counted, SlotsExact, UpstreamExact

LEMMA SharedCounted ==
  ASSUME TypeOK, Counted, NEW c \in Conns, Shared(c) \/ SharedHandler(c)
  PROVE  Counted'
<1> USE DEF Holding, Handshake, Dialling, Serving, Ending, Dialled, In, server
<1>0. active + 0 - 0 = active
  BY DEF TypeOK
<1>1. CASE Accept(c)
  BY <1>0, <1>1, HandlerCounted DEF Accept
<1>2. CASE Connect(c)
  BY <1>0, <1>2, HandlerCounted DEF Connect
<1>3. CASE HangUp(c)
  BY <1>3, ServerCounted
<1>4. CASE SlotBlock(c)
  BY <1>0, <1>4, HandlerCounted DEF SlotBlock
<1>5. CASE Shut(c)
  BY <1>0, <1>5, HandlerCounted DEF Shut
<1>6. CASE StreamClose(c)
  BY <1>0, <1>6, HandlerCounted DEF StreamClose
<1>7. QED
  BY <1>1, <1>2, <1>3, <1>4, <1>5, <1>6, SlotCounted DEF Shared, SharedHandler

LEMMA SocksCounted ==
  ASSUME TypeOK, Counted, NEW c \in Conns, opts.proto = "socks5",
         SocksHandler(c) \/ Auth(c) \/ Creds(c) \/ Request(c) \/ PumpEnd(c)
  PROVE  Counted'
<1> USE DEF Holding, Handshake, Dialling, Serving, Ending, Dialled, In, server
<1>0. active + 0 - 0 = active /\ active + 1 - 0 = active + 1 /\ active + 0 - 1 = active - 1
  BY DEF TypeOK
<1>1. CASE SlotReject(c)
  BY <1>0, <1>1, HandlerCounted DEF SlotReject
<1>2. CASE HandshakeFail(c)
  BY <1>0, <1>2, HandlerCounted DEF HandshakeFail
<1>3. CASE Dial(c)
  BY <1>0, <1>3, HandlerCounted DEF Dial
<1>4. CASE Reply(c)
  BY <1>0, <1>4, HandlerCounted DEF Reply
<1>5. CASE BindUdp(c)
  BY <1>0, <1>5, HandlerCounted DEF BindUdp
<1>6. CASE DialUdp(c)
  BY <1>0, <1>6, HandlerCounted DEF DialUdp
<1>7. CASE Auth(c)
  BY <1>0, <1>7, HandlerCounted DEF Auth
<1>8. CASE Creds(c)
  BY <1>0, <1>8, HandlerCounted DEF Creds
<1>9. CASE Request(c)
  BY <1>0, <1>9, HandlerCounted DEF Request
<1>10. CASE PumpEnd(c)
  BY <1>0, <1>10, HandlerCounted DEF PumpEnd
<1>11. QED
  BY <1>1, <1>2, <1>3, <1>4, <1>5, <1>6, <1>7, <1>8, <1>9, <1>10 DEF SocksHandler

LEMMA HttpCounted ==
  ASSUME TypeOK, Counted, NEW c \in Conns, opts.proto = "http",
         HttpHandler(c) \/ HttpRequest(c) \/ HttpFirst(c) \/ HttpPumpEnd(c)
  PROVE  Counted'
<1> USE DEF Holding, Handshake, Dialling, Serving, Ending, Dialled, server
<1>1. CASE HttpReject(c)
  BY <1>1, HandlerCounted DEF HttpReject
<1>2. CASE HttpReadFail(c)
  BY <1>2, HandlerCounted DEF HttpReadFail
<1>3. CASE HttpConnect(c) \/ HttpForward(c)
  BY <1>3, HandlerCounted DEF HttpConnect, HttpForward, DialUpstream
<1>4. CASE HttpEstablished(c)
  BY <1>4, HandlerCounted DEF HttpEstablished
<1>5. CASE HttpRequest(c)
  BY <1>5, HandlerCounted DEF HttpRequest
<1>6. CASE HttpFirst(c) \/ HttpPumpEnd(c)
  BY <1>6, HandlerCounted DEF HttpFirst, HttpPumpEnd
<1>7. QED BY <1>1, <1>2, <1>3, <1>4, <1>5, <1>6 DEF HttpHandler

LEMMA CountedStep == TypeOK /\ Counted /\ [Next]_vars => Counted'
<1> SUFFICES ASSUME TypeOK, Counted, [Next]_vars PROVE Counted'
  OBVIOUS
<1>1. CASE UNCHANGED vars
  BY <1>1 DEF vars, Counted, SlotsExact, UpstreamExact, At
<1>2. QED
  BY <1>1, ServerCounted, SharedCounted, SocksCounted, HttpCounted
     DEF Next, SocksNext, HttpNext
-----------------------------------------------------------------------------
(* What has been said *)

LEMMA AppendOne ==
  ASSUME NEW m
  PROVE  Append(<<>>, m) = <<m>>
OBVIOUS

LEMMA AppendTwo ==
  ASSUME NEW a, NEW m
  PROVE  Append(<<a>>, m) = <<a, m>>
<1> DEFINE S == {a, m}
           s == Append(<<a>>, m)
           t == <<a, m>>
<1>1. <<a>> \in Seq(S) /\ Len(<<a>>) = 1 /\ <<a>>[1] = a /\ m \in S
  OBVIOUS
<1>2. t \in Seq(S) /\ Len(t) = 2 /\ t[1] = a /\ t[2] = m
  OBVIOUS
<1> HIDE DEF S
<1>3. s \in Seq(S) /\ Len(s) = 2 /\ s[1] = a /\ s[2] = m
  BY <1>1, AppendProperties
<1> HIDE DEF s, t
<1>4. \A i \in 1..2 : s[i] = t[i]
  BY <1>2, <1>3
<1>5. s = t
  BY <1>2, <1>3, <1>4, SeqEqual
<1>6. QED BY <1>5 DEF s, t

\* One handler moves on, having said something more or nothing; what the other
\* clients have heard stays right for where their handlers are.
LEMMA SaidMove ==
  ASSUME TypeOK, SaidInv, UNCHANGED opts, NEW c \in Conns, NEW l, Goto(c, l),
         \/ UNCHANGED said /\ Heard(l, said[c])
         \/ \E m : Say(c, m) /\ Heard(l, Append(said[c], m))
  PROVE  SaidInv'
<1>1. ASSUME NEW d \in Conns PROVE Heard(pc'[d], said'[d])
  <2>1. CASE d = c
    BY <2>1 DEF TypeOK, Goto, Say
  <2>2. CASE d # c
    <3>1. pc'[d] = pc[d] /\ said'[d] = said[d]
      BY <2>2 DEF TypeOK, Goto, Say
    <3>2. QED BY <3>1 DEF SaidInv
  <2>3. QED BY <2>1, <2>2
<1>2. QED BY <1>1 DEF SaidInv, Heard

LEMMA InitSaid == Init => SaidInv
BY DEF Init, SaidInv, Heard, SocksOK, HttpOK, SocksConversations, HttpConversations, Serving

LEMMA ServerSaid ==
  ASSUME SaidInv, Start \/ Close \/ CloseListener \/ SocksAcceptor \/ HttpAcceptor
                    \/ \E c \in Conns : HangUp(c)
  PROVE  SaidInv'
<1>1. UNCHANGED <<opts, pc, said>>
  BY DEF Start, Close, CloseListener, SocksAcceptor, AcceptError, AcceptRetry,
         HttpAcceptor, HttpAcceptError, HttpAcceptCheck, HangUp, server
<1>2. QED BY <1>1 DEF SaidInv, Heard

LEMMA SharedSaid ==
  ASSUME TypeOK, SaidInv, NEW c \in Conns, Shared(c) \/ SharedHandler(c)
  PROVE  SaidInv'
<1> USE DEF Heard, SocksOK, HttpOK, Serving, server
<1>0. Heard(pc[c], said[c])
  BY DEF SaidInv
<1>1. CASE Accept(c)
  BY <1>0, <1>1, SaidMove DEF Accept
<1>2. CASE Connect(c)
  BY <1>0, <1>2, SaidMove DEF Connect
<1>3. CASE HangUp(c)
  BY <1>3, ServerSaid
<1>4. CASE SlotTake(c)
  BY <1>0, <1>4, SaidMove DEF SlotTake, FirstPhase
<1>5. CASE SlotBlock(c)
  BY <1>0, <1>5, SaidMove DEF SlotBlock
<1>6. CASE SlotRelease(c)
  BY <1>0, <1>6, SaidMove DEF SlotRelease
<1>7. CASE Shut(c)
  BY <1>0, <1>7, SaidMove DEF Shut
<1>8. CASE StreamClose(c)
  BY <1>0, <1>8, SaidMove DEF StreamClose
<1>9. QED
  BY <1>1, <1>2, <1>3, <1>4, <1>5, <1>6, <1>7, <1>8 DEF Shared, SharedHandler

LEMMA SocksSaid ==
  ASSUME TypeOK, SaidInv, NEW c \in Conns, opts.proto = "socks5",
         SocksHandler(c) \/ Auth(c) \/ Creds(c) \/ Request(c) \/ PumpEnd(c)
  PROVE  SaidInv'
<1> USE DEF Heard, SocksOK, Serving, server
<1>0. SocksOK(pc[c], said[c])
  BY DEF SaidInv
<1>a. ASSUME NEW g \in Greetings, NEW m \in FinalAnswers
      PROVE  Append(g, m) \in SocksConversations /\ (m = "ok" => Append(g, m) \in SocksServed)
  <2>1. Append(g, m) \in {Append(g, n) : n \in FinalAnswers}
    OBVIOUS
  <2>2. Append(g, m) \in UNION {{Append(h, n) : n \in FinalAnswers} : h \in Greetings}
    BY <2>1
  <2>3. m = "ok" => Append(g, m) \in SocksServed
    BY DEF SocksServed
  <2>4. QED BY <2>2, <2>3 DEF SocksConversations
<1>b. Greetings \subseteq SocksConversations
  BY DEF SocksConversations
<1>c. {"bad command", "bad address", "refused", "ok", "failed"} \subseteq FinalAnswers
  BY DEF FinalAnswers
<1>1. CASE SlotReject(c)
  BY <1>0, <1>1, SaidMove DEF SlotReject
<1>2. CASE HandshakeFail(c)
  BY <1>0, <1>2, SaidMove DEF HandshakeFail
<1>3. CASE Dial(c)
  BY <1>0, <1>a, <1>c, <1>3, SaidMove DEF Dial
<1>4. CASE Reply(c)
  BY <1>0, <1>a, <1>c, <1>4, SaidMove DEF Reply
<1>5. CASE BindUdp(c)
  BY <1>0, <1>a, <1>c, <1>5, SaidMove DEF BindUdp
<1>6. CASE DialUdp(c)
  BY <1>0, <1>6, SaidMove DEF DialUdp
<1>7. CASE Auth(c)
  <2>1. said[c] = <<>>
    BY <1>0, <1>7 DEF Auth
  <2>2. Append(said[c], "pw") = <<"pw">> /\ Append(said[c], "no") = <<"no">>
        /\ Append(said[c], "none acceptable") = <<"none acceptable">>
    BY <2>1, AppendOne
  <2>3. SocksOK("creds", <<"pw">>) /\ SocksOK("request", <<"no">>)
        /\ SocksOK("release", <<"none acceptable">>)
    BY DEF SocksConversations, Greetings
  <2>4. QED BY <1>7, <2>2, <2>3, SaidMove DEF Auth
<1>8. CASE Creds(c)
  <2>1. said[c] = <<"pw">>
    BY <1>0, <1>8 DEF Creds
  <2>2. Append(said[c], "granted") = <<"pw", "granted">>
        /\ Append(said[c], "denied") = <<"pw", "denied">>
    BY <2>1, AppendTwo
  <2>3. SocksOK("request", <<"pw", "granted">>) /\ SocksOK("release", <<"pw", "denied">>)
    BY DEF SocksConversations, Greetings
  <2>4. QED BY <1>8, <2>2, <2>3, SaidMove DEF Creds
<1>9. CASE Request(c)
  BY <1>0, <1>a, <1>c, <1>9, SaidMove DEF Request
<1>10. CASE PumpEnd(c)
  BY <1>0, <1>10, SaidMove DEF PumpEnd
<1>11. QED
  BY <1>1, <1>2, <1>3, <1>4, <1>5, <1>6, <1>7, <1>8, <1>9, <1>10 DEF SocksHandler

LEMMA HttpSaid ==
  ASSUME TypeOK, SaidInv, NEW c \in Conns, opts.proto = "http",
         HttpHandler(c) \/ HttpRequest(c) \/ HttpFirst(c) \/ HttpPumpEnd(c)
  PROVE  SaidInv'
<1> USE DEF Heard, HttpOK, Serving, server
<1>0. HttpOK(pc[c], said[c])
  BY DEF SaidInv
<1>a. \A m \in {"unavailable", "denied", "bad request", "bad gateway", "ok"} :
        /\ Append(<<>>, m) = <<m>>
        /\ <<m>> \in HttpConversations
        /\ m = "ok" => <<m>> \in HttpServed
  BY AppendOne DEF HttpConversations, HttpServed
<1>b. <<>> \in HttpServed
  BY DEF HttpServed
<1>1. CASE HttpReject(c)
  BY <1>0, <1>a, <1>1, SaidMove DEF HttpReject
<1>2. CASE HttpReadFail(c)
  BY <1>0, <1>2, SaidMove DEF HttpReadFail
<1>3. CASE HttpConnect(c) \/ HttpForward(c)
  BY <1>0, <1>a, <1>3, SaidMove DEF HttpConnect, HttpForward, DialUpstream
<1>4. CASE HttpEstablished(c)
  BY <1>0, <1>a, <1>4, SaidMove DEF HttpEstablished
<1>5. CASE HttpRequest(c)
  BY <1>0, <1>a, <1>5, SaidMove DEF HttpRequest
<1>6. CASE HttpFirst(c) \/ HttpPumpEnd(c)
  BY <1>0, <1>b, <1>6, SaidMove DEF HttpFirst, HttpPumpEnd
<1>7. QED BY <1>1, <1>2, <1>3, <1>4, <1>5, <1>6 DEF HttpHandler

LEMMA SaidStep == TypeOK /\ SaidInv /\ [Next]_vars => SaidInv'
<1> SUFFICES ASSUME TypeOK, SaidInv, [Next]_vars PROVE SaidInv'
  OBVIOUS
<1>1. CASE UNCHANGED vars
  BY <1>1 DEF vars, SaidInv, Heard
<1>2. QED
  BY <1>1, ServerSaid, SharedSaid, SocksSaid, HttpSaid DEF Next, SocksNext, HttpNext
-----------------------------------------------------------------------------
(* The theorems *)

IInv == TypeOK /\ Counted /\ SaidInv

LEMMA Invariance == Spec => []IInv
<1>1. Init => IInv
  BY InitType, InitCounted, InitSaid DEF IInv
<1>2. IInv /\ [Next]_vars => IInv'
  BY TypeStep, CountedStep, SaidStep DEF IInv
<1>3. QED BY <1>1, <1>2, PTL DEF Spec

\* For any clients, limit and options, both servers keep their types (Server of
\* either package).
THEOREM TypeCorrect == Spec => []TypeOK
<1>1. IInv => TypeOK
  BY DEF IInv
<1>2. QED BY <1>1, Invariance, PTL

\* No early return of either handler loses a slot or gives one back twice, for
\* any number of clients and slots (s.sem).
THEOREM SlotsCounted == Spec => []SlotsExact
<1>1. IInv => SlotsExact
  BY DEF IInv, Counted
<1>2. QED BY <1>1, Invariance, PTL

\* Every upstream connection belongs to a handler that still uses or closes it,
\* and activeTunnels counts those that serve (createTunnel, handleConnect).
THEOREM UpstreamCounted == Spec => []UpstreamExact
<1>1. IInv => UpstreamExact
  BY DEF IInv, Counted
<1>2. QED BY <1>1, Invariance, PTL

\* No client of either server is answered twice, and none is served after
\* anything but success (handleConnection, handleConn).
THEOREM AnsweredOnce == Spec => []OneAnswer
<1>1. IInv => OneAnswer
  BY DEF IInv, SaidInv, Heard, SocksOK, HttpOK, OneAnswer
<1>2. QED BY <1>1, Invariance, PTL
=============================================================================
