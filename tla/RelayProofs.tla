----------------------------- MODULE RelayProofs -----------------------------
(***************************************************************************)
(* The two relays of socks5.  The tunnel pump, httpproxy's included, for   *)
(* any idle timeout, number of bytes and buffer size: types, an end of     *)
(* stream that truncates nothing, and a watchdog whose verdict overlooks   *)
(* at most the write whose timestamp is not stored yet.  The UDP           *)
(* association for any set of senders and any queue: types, with the bound *)
(* of downQueue, the one client it serves, and frames in order.            *)
(***************************************************************************)
EXTENDS TunnelPump, UdpAssociation, TLAPS

-----------------------------------------------------------------------------
(* The tunnel pump *)


\* The handler closes after both copies only, and so does anyone else when there
\* is no watchdog.
ClosedAfterCopies ==
  /\ handler # "wait" => \A d \in Dirs : copy[d] = "done"
  /\ tunnel.idle = 0 => /\ wd = "exit"
                        /\ \A c \in Conns : closed[c] => handler # "wait"

\* Neither an abort nor a watchdog: what then has happened to the bytes of a
\* direction at each place of its copy, and once its reader has seen the end.
Clean == tunnel.idle = 0 /\ \A c \in Conns : ~broken[c]

BytesAt(d) ==
  /\ copy[d] \in {"read", "mark"} => fwd[d] = taken[d]
  /\ copy[d] = "write" => fwd[d] + 1 = taken[d]
  /\ copy[d] \in {"half", "done"} => fin[d] /\ fwd[d] = put[d]
  /\ wshut[Dst(d)] => copy[d] = "done"
  /\ sawEof[d] => copy[d] = "done" /\ seen[d] = fwd[d]

BytesInv == Clean => \A d \in Dirs : BytesAt(d)

\* lastActivity is at least as recent as the last write of either direction, but
\* for a write that has not been stored yet.
SharedClock ==
  tunnel.idle > 0 => \A d \in Dirs : copy[d] # "mark" => age <= lastUse[d]

IInv == TypeOK /\ ClosedAfterCopies /\ BytesInv /\ SharedClock
-----------------------------------------------------------------------------
(* Types *)

LEMMA TunnelType ==
  ASSUME TypeOK
  PROVE  tunnel.idle \in Nat /\ tunnel.bytes \in Nat /\ Interval \in Nat \ {0}
BY PumpAssumption DEF TypeOK

LEMMA Ends == /\ \A d \in Dirs : Src(d) \in Conns /\ Dst(d) \in Conns
              /\ \A c \in Conns : \E d \in Dirs : c = Dst(d)
              /\ \A d, e \in Dirs : Dst(d) = Dst(e) => d = e
BY DEF Dirs, Conns, Src, Dst

LEMMA OlderType ==
  ASSUME NEW limit \in Nat, NEW n \in 0..limit
  PROVE  Older(n, limit) \in 0..limit
BY DEF Older

LEMMA InitType == Init => TypeOK
<1> SUFFICES ASSUME Init PROVE TypeOK
  OBVIOUS
<1>1. tunnel \in Tunnels /\ tunnel.idle \in Nat /\ tunnel.bytes \in Nat
  BY PumpAssumption DEF Init
<1>2. 0 \in 0..(tunnel.idle + 1) /\ 0 \in 0..tunnel.bytes /\ 0 \in 0..Interval
  BY <1>1, PumpAssumption
<1>3. QED BY <1>1, <1>2 DEF Init, TypeOK

LEMMA AppType ==
  ASSUME TypeOK, NEW d \in Dirs, AppSend(d) \/ AppFin(d) \/ AppRead(d) \/ AppEof(d)
  PROVE  TypeOK'
<1> USE DEF conns, clock
<1>1. CASE AppSend(d)
  <2>1. put[d] \in 0..tunnel.bytes /\ put[d] < tunnel.bytes /\ tunnel.bytes \in Nat
    BY <1>1, TunnelType DEF AppSend, TypeOK
  <2>2. put[d] + 1 \in 0..tunnel.bytes
    BY <2>1
  <2>3. QED BY <1>1, <2>2 DEF AppSend, TypeOK
<1>2. CASE AppFin(d)
  BY <1>2 DEF AppFin, TypeOK
<1>3. CASE AppRead(d)
  BY <1>3 DEF AppRead, TypeOK
<1>4. CASE AppEof(d)
  BY <1>4 DEF AppEof, TypeOK
<1>5. QED BY <1>1, <1>2, <1>3, <1>4

LEMMA CopyType ==
  ASSUME TypeOK, NEW d \in Dirs, Copy(d)
  PROVE  TypeOK'
<1> USE DEF apps, conns, clock
<1>1. CASE CopyRead(d)
  BY <1>1 DEF CopyRead, Step, TypeOK
<1>2. CASE CopyWrite(d)
  <2>1. 0 \in 0..(tunnel.idle + 1)
    BY TunnelType
  <2>2. QED BY <1>2, <2>1 DEF CopyWrite, Step, TypeOK
<1>3. CASE CopyMark(d)
  <2>1. 0 \in 0..(tunnel.idle + 1)
    BY TunnelType
  <2>2. QED BY <1>3, <2>1 DEF CopyMark, Step, TypeOK
<1>4. CASE CopyHalf(d)
  BY <1>4 DEF CopyHalf, Step, TypeOK
<1>5. QED BY <1>1, <1>2, <1>3, <1>4 DEF Copy

LEMMA CloserType ==
  ASSUME TypeOK, Handler \/ Watchdog \/ \E c \in Conns : AppReset(c)
  PROVE  TypeOK'
<1> USE DEF apps, conns, clock
<1>1. CASE Handler
  BY <1>1 DEF Handler, HandlerDone, HandlerCloseStream, HandlerCloseClient, CloseConn, TypeOK
<1>2. CASE WatchdogTick
  <2>1. 0 \in 0..Interval
    BY TunnelType
  <2>2. QED BY <1>2, <2>1 DEF WatchdogTick, TypeOK
<1>3. CASE WatchdogCloseClient \/ WatchdogCloseStream \/ WatchdogStop
  BY <1>3 DEF WatchdogCloseClient, WatchdogCloseStream, WatchdogStop, CloseConn, TypeOK
<1>4. CASE \E c \in Conns : AppReset(c)
  BY <1>4 DEF AppReset, TypeOK
<1>5. QED BY <1>1, <1>2, <1>3, <1>4 DEF Watchdog

LEMMA TickType == TypeOK /\ Tick => TypeOK'
<1> SUFFICES ASSUME TypeOK, Tick PROVE TypeOK'
  OBVIOUS
<1>1. tunnel.idle + 1 \in Nat /\ Interval \in Nat
  BY TunnelType
<1>2. age' \in 0..(tunnel.idle + 1) /\ wdAge' \in 0..Interval
  BY <1>1, OlderType DEF Tick, TypeOK
<1>3. \A d \in Dirs : Older(lastUse[d], tunnel.idle + 1) \in 0..(tunnel.idle + 1)
  BY <1>1, OlderType DEF TypeOK
<1>4. lastUse' \in [Dirs -> 0..(tunnel.idle + 1)]
  BY <1>3 DEF Tick
<1>5. QED BY <1>2, <1>4 DEF Tick, TypeOK, apps, conns

LEMMA TypeStep == TypeOK /\ [Next]_vars => TypeOK'
<1> SUFFICES ASSUME TypeOK, [Next]_vars PROVE TypeOK'
  OBVIOUS
<1>1. CASE UNCHANGED vars
  BY <1>1 DEF vars, TypeOK
<1>2. QED
  BY <1>1, AppType, CopyType, CloserType, TickType DEF Next, Over
-----------------------------------------------------------------------------
(* Who closes, and when *)

LEMMA ClosedStep == TypeOK /\ ClosedAfterCopies /\ [Next]_vars => ClosedAfterCopies'
<1> SUFFICES ASSUME TypeOK, ClosedAfterCopies, [Next]_vars PROVE ClosedAfterCopies'
  OBVIOUS
<1> USE DEF apps, conns, clock
<1>1. CASE UNCHANGED vars
  BY <1>1 DEF vars, ClosedAfterCopies
<1>2. ASSUME NEW d \in Dirs, AppSend(d) \/ AppFin(d) \/ AppRead(d) \/ AppEof(d)
      PROVE  ClosedAfterCopies'
  BY <1>2 DEF AppSend, AppFin, AppRead, AppEof, ClosedAfterCopies
<1>3. ASSUME NEW c \in Conns, AppReset(c) PROVE ClosedAfterCopies'
  BY <1>3 DEF AppReset, ClosedAfterCopies
<1>4. ASSUME NEW d \in Dirs, Copy(d) PROVE ClosedAfterCopies'
  <2>1. copy[d] # "done" /\ UNCHANGED <<tunnel, handler, wd, closed>>
    BY <1>4 DEF Copy, CopyRead, CopyWrite, CopyMark, CopyHalf
  <2>2. handler = "wait"
    BY <2>1 DEF ClosedAfterCopies
  <2>3. QED BY <2>1, <2>2 DEF ClosedAfterCopies
<1>5. CASE Handler
  BY <1>5 DEF Handler, HandlerDone, HandlerCloseStream, HandlerCloseClient, CloseConn,
              ClosedAfterCopies, TypeOK
<1>6. CASE Watchdog
  <2>1. tunnel.idle # 0
    BY <1>6 DEF Watchdog, WatchdogTick, WatchdogCloseClient, WatchdogCloseStream,
                WatchdogStop, ClosedAfterCopies
  <2>2. UNCHANGED <<tunnel, handler, copy>>
    BY <1>6 DEF Watchdog, WatchdogTick, WatchdogCloseClient, WatchdogCloseStream, WatchdogStop
  <2>3. QED BY <2>1, <2>2 DEF ClosedAfterCopies
<1>7. CASE Tick
  BY <1>7 DEF Tick, ClosedAfterCopies
<1>8. QED
  BY <1>1, <1>2, <1>3, <1>4, <1>5, <1>6, <1>7 DEF Next, Over, vars
-----------------------------------------------------------------------------
(* The bytes of a direction *)

\* A step that leaves the bytes and the copies alone.
LEMMA BytesKept ==
  ASSUME BytesInv, Clean' => Clean,
         UNCHANGED <<put, fin, taken, fwd, seen, sawEof, wshut, copy>>
  PROVE  BytesInv'
BY DEF BytesInv, BytesAt

LEMMA AppBytes ==
  ASSUME TypeOK, BytesInv, ClosedAfterCopies, NEW d \in Dirs,
         AppSend(d) \/ AppFin(d) \/ AppRead(d) \/ AppEof(d)
  PROVE  BytesInv'
<1> SUFFICES ASSUME Clean, \A e \in Dirs : BytesAt(e), NEW e \in Dirs PROVE BytesAt(e)'
  BY DEF AppSend, AppFin, AppRead, AppEof, Clean, BytesInv
<1>1. CASE AppSend(d)
  BY <1>1 DEF AppSend, conns, BytesAt, TypeOK
<1>2. CASE AppFin(d)
  BY <1>2 DEF AppFin, conns, BytesAt, TypeOK
<1>3. CASE AppRead(d)
  BY <1>3 DEF AppRead, conns, BytesAt, TypeOK
<1>4. CASE AppEof(d)
  <2>1. copy[d] = "done"
    BY <1>4, Ends DEF AppEof, BytesAt, Clean, ClosedAfterCopies
  <2>2. QED BY <1>4, <2>1 DEF AppEof, conns, BytesAt, TypeOK
<1>5. QED BY <1>1, <1>2, <1>3, <1>4

LEMMA CopyBytes ==
  ASSUME TypeOK, BytesInv, ClosedAfterCopies, NEW d \in Dirs, Copy(d)
  PROVE  BytesInv'
<1>1. copy[d] # "done" /\ UNCHANGED apps
  BY DEF Copy, CopyRead, CopyWrite, CopyMark, CopyHalf
<1> SUFFICES ASSUME Clean, \A e \in Dirs : BytesAt(e), NEW e \in Dirs PROVE BytesAt(e)'
  BY <1>1 DEF apps, Clean, BytesInv
<1>2. \A c \in Conns : ~closed[c] /\ ~broken[c]
  BY <1>1 DEF ClosedAfterCopies, Clean
<1>3. Src(d) \in Conns /\ Dst(d) \in Conns /\ (Dst(d) = Dst(e) => d = e)
  BY Ends
<1>4. BytesAt(d) /\ BytesAt(e)
  OBVIOUS
<1>5. /\ put[d] \in Nat /\ taken[d] \in Nat /\ fwd[d] \in Nat
      /\ put[e] \in Nat /\ taken[e] \in Nat /\ fwd[e] \in Nat
  BY TunnelType DEF TypeOK
<1> USE DEF apps, conns, clock
<1>6. CASE CopyRead(d)
  BY <1>1, <1>2, <1>3, <1>4, <1>5, <1>6 DEF CopyRead, Step, BytesAt, TypeOK
<1>7. CASE CopyWrite(d)
  BY <1>1, <1>2, <1>3, <1>4, <1>5, <1>7 DEF CopyWrite, Step, BytesAt, TypeOK
<1>8. CASE CopyMark(d)
  BY <1>1, <1>4, <1>5, <1>8 DEF CopyMark, Step, BytesAt, TypeOK
<1>9. CASE CopyHalf(d)
  BY <1>1, <1>3, <1>4, <1>5, <1>9 DEF CopyHalf, Step, BytesAt, TypeOK
<1>10. QED BY <1>6, <1>7, <1>8, <1>9 DEF Copy

LEMMA BytesStep == TypeOK /\ ClosedAfterCopies /\ BytesInv /\ [Next]_vars => BytesInv'
<1> SUFFICES ASSUME TypeOK, ClosedAfterCopies, BytesInv, [Next]_vars PROVE BytesInv'
  OBVIOUS
<1> USE DEF apps, conns
<1>1. CASE UNCHANGED vars
  BY <1>1, BytesKept DEF vars, Clean
<1>2. CASE \E c \in Conns : AppReset(c)
  BY <1>2, BytesKept DEF AppReset, Clean, TypeOK
<1>3. CASE Handler
  BY <1>3, BytesKept DEF Handler, HandlerDone, HandlerCloseStream, HandlerCloseClient, Clean
<1>4. CASE Watchdog
  BY <1>4, BytesKept DEF Watchdog, WatchdogTick, WatchdogCloseClient, WatchdogCloseStream,
                         WatchdogStop, Clean
<1>5. CASE Tick
  BY <1>5, BytesKept DEF Tick, Clean
<1>6. QED
  BY <1>1, <1>2, <1>3, <1>4, <1>5, AppBytes, CopyBytes DEF Next, Over
-----------------------------------------------------------------------------
(* The shared timestamp *)

LEMMA OlderMonotone ==
  ASSUME NEW limit \in Nat, NEW m \in 0..limit, NEW n \in 0..limit, m <= n
  PROVE  Older(m, limit) <= Older(n, limit)
BY DEF Older

LEMMA CopyClock ==
  ASSUME TypeOK, SharedClock, tunnel.idle > 0, NEW e \in Dirs, Copy(e),
         NEW d \in Dirs, copy'[d] # "mark"
  PROVE  age' <= lastUse'[d]
<1>1. /\ age \in 0..(tunnel.idle + 1) /\ lastUse[d] \in 0..(tunnel.idle + 1)
      /\ tunnel.idle \in Nat /\ (copy[d] # "mark" => age <= lastUse[d])
  BY TunnelType DEF TypeOK, SharedClock
<1>2. CASE CopyRead(e) \/ CopyHalf(e)
  <2>1. UNCHANGED <<age, lastUse>> /\ copy[d] # "mark"
    BY <1>2 DEF CopyRead, CopyHalf, Step, clock, TypeOK
  <2>2. QED BY <1>1, <2>1
<1>3. CASE CopyWrite(e)
  <2>1. age' = age /\ copy[d] # "mark"
    BY <1>3 DEF CopyWrite, Step, TypeOK
  <2>2. lastUse'[d] = lastUse[d]
    BY <1>3 DEF CopyWrite, Step, TypeOK
  <2>3. QED BY <1>1, <2>1, <2>2
<1>4. CASE CopyMark(e)
  <2>1. age' = 0 /\ lastUse' = lastUse
    BY <1>4 DEF CopyMark
  <2>2. QED BY <1>1, <2>1
<1>5. QED BY <1>2, <1>3, <1>4 DEF Copy

LEMMA ClockStep == TypeOK /\ SharedClock /\ [Next]_vars => SharedClock'
<1> SUFFICES ASSUME TypeOK, SharedClock, [Next]_vars, tunnel'.idle > 0,
                    NEW d \in Dirs, copy'[d] # "mark"
             PROVE  age' <= lastUse'[d]
  BY DEF SharedClock
<1>1. tunnel' = tunnel
  BY DEF Next, vars, apps, AppSend, AppFin, AppRead, AppEof, AppReset, Copy, CopyRead,
         CopyWrite, CopyMark, CopyHalf, Handler, HandlerDone, HandlerCloseStream,
         HandlerCloseClient, Watchdog, WatchdogTick, WatchdogCloseClient,
         WatchdogCloseStream, WatchdogStop, Tick, Over
<1>2. CASE \E e \in Dirs : Copy(e)
  BY <1>1, <1>2, CopyClock
<1>3. CASE copy' = copy
  <2>1. tunnel.idle + 1 \in Nat /\ age \in 0..(tunnel.idle + 1)
        /\ lastUse[d] \in 0..(tunnel.idle + 1) /\ age <= lastUse[d]
    BY <1>1, <1>3, TunnelType DEF TypeOK, SharedClock
  <2>2. CASE Tick
    BY <2>1, <2>2, OlderMonotone DEF Tick
  <2>3. CASE UNCHANGED <<age, lastUse>>
    BY <2>1, <2>3
  <2>4. QED
    BY <1>3, <2>2, <2>3, <1>2, CopyClock, <1>1
       DEF Next, vars, clock, AppSend, AppFin, AppRead, AppEof, AppReset, Handler, HandlerDone,
           HandlerCloseStream, HandlerCloseClient, Watchdog, WatchdogTick,
           WatchdogCloseClient, WatchdogCloseStream, WatchdogStop, Over
<1>4. QED
  BY <1>2, <1>3
     DEF Next, vars, AppSend, AppFin, AppRead, AppEof, AppReset, Handler, HandlerDone,
         HandlerCloseStream, HandlerCloseClient, Watchdog, WatchdogTick,
         WatchdogCloseClient, WatchdogCloseStream, WatchdogStop, Tick, Over
-----------------------------------------------------------------------------
(* The theorems *)

LEMMA InitInv == Init => IInv
<1> SUFFICES ASSUME Init PROVE IInv
  OBVIOUS
<1>1. TypeOK
  BY InitType
<1>2. ClosedAfterCopies
  BY <1>1, TunnelType DEF Init, ClosedAfterCopies
<1>3. BytesInv
  BY Ends DEF Init, BytesInv, BytesAt
<1>4. SharedClock
  BY DEF Init, SharedClock
<1>5. QED BY <1>1, <1>2, <1>3, <1>4 DEF IInv

LEMMA Invariance == Spec => []IInv
<1>1. IInv /\ [Next]_vars => IInv'
  BY TypeStep, ClosedStep, BytesStep, ClockStep DEF IInv
<1>2. QED BY <1>1, InitInv, PTL DEF Spec

\* For any timeout and buffers, the pump and its watchdog keep their types.
THEOREM TypeCorrect == Spec => []TypeOK
<1>1. IInv => TypeOK
  BY DEF IInv
<1>2. QED BY <1>1, Invariance, PTL

\* However many bytes are sent and buffered, an application that reads the end
\* of the stream of a tunnel that nobody aborted has read them all (halfClose,
\* and the handler that waits for both copies).
THEOREM NothingTruncated == Spec => []NoSilentTruncation
<1>1. IInv => NoSilentTruncation
  BY DEF IInv, NoSilentTruncation, BytesInv, Clean, BytesAt
<1>2. QED BY <1>1, Invariance, PTL

\* For any timeout, the watchdog decides to close only when the last write of
\* either direction is older than the timeout, or has not reached lastActivity yet
\* (the two writers share lastActivity, and store after they have written).
THEOREM BothDirectionsCount == Spec => WatchdogCountsBothDirections
<1> DEFINE Verdict == wd = "run" /\ wd' = "closeClient" =>
                        \A d \in Dirs : lastUse[d] > tunnel.idle \/ copy[d] = "mark"
<1>1. IInv /\ [Next]_vars => [Verdict]_vars
  <2> SUFFICES ASSUME IInv, Next, wd = "run", wd' = "closeClient", NEW d \in Dirs,
                      copy[d] # "mark"
               PROVE  lastUse[d] > tunnel.idle
    BY DEF vars
  <2>1. WatchdogTick
    BY DEF Next, AppSend, AppFin, AppRead, AppEof, AppReset, Copy, CopyRead, CopyWrite,
           CopyMark, CopyHalf, Handler, HandlerDone, HandlerCloseStream, HandlerCloseClient,
           Watchdog, WatchdogCloseClient, WatchdogCloseStream, WatchdogStop, Tick, Over, vars
  <2>2. age > tunnel.idle
    BY <2>1 DEF WatchdogTick
  <2>3. tunnel.idle \in Nat /\ tunnel.idle # 0 /\ age \in Int /\ lastUse[d] \in Int
    BY TunnelType DEF IInv, TypeOK, ClosedAfterCopies
  <2>4. age <= lastUse[d]
    BY <2>3 DEF IInv, SharedClock
  <2>5. QED BY <2>2, <2>3, <2>4
<1>2. QED BY <1>1, Invariance, PTL DEF Spec, WatchdogCountsBothDirections
-----------------------------------------------------------------------------
(* The UDP association *)


\* Nobody holds a frame for a client before there is one, and a datagram about
\* to be forwarded is the client's.
ClientKnown ==
  /\ (reader \in {"put", "block"} \/ queue # <<>> \/ writer = "write") => addr # NoAddr
  /\ up = "send" => addr # NoAddr /\ cur.src = addr

\* Upstream has sent every frame that is on its way or was written.
Produced ==
  /\ last <= produced /\ frame <= produced
  /\ \A i \in 1..Len(queue) : queue[i] <= produced

\* Only the loop that writes holds a frame, once it has been produced.
FrameHeld == writer = "write" <=> frame # 0

Ordered == Produced /\ FrameHeld /\ DownlinkInOrder

\* The loop that writes is not running before the handler starts it.
NotStarted == udpHandler \in {"bind", "reply", "dial", "start"} => writer = "off"

UdpInv == UdpTypeOK /\ ClientKnown /\ OneClient /\ NotStarted /\ Ordered
-----------------------------------------------------------------------------
(* Types *)

LEMMA InitUdpType == UdpInit => UdpTypeOK
<1> SUFFICES ASSUME UdpInit PROVE UdpTypeOK
  OBVIOUS
<1>1. AssociationTypeOK
  BY DEF UdpInit, AssociationTypeOK
<1>2. UplinkTypeOK
  <2>1. 0 \in 0..MaxUp /\ sock \in Seq(Datagrams)
    BY UdpAssumption DEF UdpInit
  <2>2. QED BY <2>1 DEF UdpInit, UplinkTypeOK
<1>3. DownlinkTypeOK
  <2>1. 0 \in 0..MaxDown /\ queue \in Seq(Nat) /\ Len(queue) <= Cap
    BY UdpAssumption DEF UdpInit
  <2>2. QED BY <2>1 DEF UdpInit, DownlinkTypeOK
<1>4. QED BY <1>1, <1>2, <1>3 DEF UdpTypeOK

LEMMA HandlerType ==
  ASSUME UdpTypeOK, HandlerStep \/ HandlerStart \/ HandlerUnwind
  PROVE  UdpTypeOK'
<1> USE DEF uplink, downlink
<1>1. AssociationTypeOK'
  BY DEF HandlerStep, HandlerStart, HandlerUnwind, After, UdpTypeOK, AssociationTypeOK
<1>2. UplinkTypeOK'
  BY DEF HandlerStep, HandlerStart, HandlerUnwind, UdpTypeOK, UplinkTypeOK
<1>3. DownlinkTypeOK'
  BY DEF HandlerStep, HandlerStart, HandlerUnwind, UdpTypeOK, DownlinkTypeOK
<1>4. QED BY <1>1, <1>2, <1>3 DEF UdpTypeOK

LEMMA EnvironmentType ==
  ASSUME UdpTypeOK, Environment
  PROVE  UdpTypeOK'
<1> USE DEF uplink, downlink
<1>1. AssociationTypeOK'
  BY DEF Environment, ClientSend, ControlEnd, ChannelEnd, UdpTypeOK, AssociationTypeOK
<1>2. UplinkTypeOK'
  <2>1. CASE ClientSend
    <3>1. offered' \in 0..MaxUp
      BY <2>1, UdpAssumption DEF ClientSend, UdpTypeOK, UplinkTypeOK
    <3>2. sock' \in Seq(Datagrams)
      BY <2>1 DEF ClientSend, UdpTypeOK, UplinkTypeOK
    <3>3. QED BY <2>1, <3>1, <3>2 DEF ClientSend, UdpTypeOK, UplinkTypeOK
  <2>2. CASE ControlEnd \/ ChannelEnd
    BY <2>2 DEF ControlEnd, ChannelEnd, UdpTypeOK, UplinkTypeOK
  <2>3. QED BY <2>1, <2>2 DEF Environment
<1>3. DownlinkTypeOK'
  BY DEF Environment, ClientSend, ControlEnd, ChannelEnd, UdpTypeOK, DownlinkTypeOK
<1>4. QED BY <1>1, <1>2, <1>3 DEF UdpTypeOK

LEMMA UplinkType ==
  ASSUME UdpTypeOK, Uplink
  PROVE  UdpTypeOK'
<1> USE DEF downlink
<1>1. AssociationTypeOK'
  <2>1. up = "lock" => cur.src \in Clients
    BY DEF UdpTypeOK, UplinkTypeOK, Datagrams
  <2>2. QED
    BY <2>1 DEF Uplink, UpRead, UpReadError, UpLock, UpSend, UdpTypeOK, AssociationTypeOK
<1>2. UplinkTypeOK'
  <2>1. CASE UpRead
    <3>1. Head(sock) \in Datagrams /\ Tail(sock) \in Seq(Datagrams)
      BY <2>1 DEF UpRead, UdpTypeOK, UplinkTypeOK
    <3>2. QED BY <2>1, <3>1 DEF UpRead, UdpTypeOK, UplinkTypeOK
  <2>2. CASE UpReadError
    BY <2>2 DEF UpReadError, UdpTypeOK, UplinkTypeOK
  <2>3. CASE UpLock
    BY <2>3 DEF UpLock, UdpTypeOK, UplinkTypeOK
  <2>4. CASE UpSend
    BY <2>4 DEF UpSend, UdpTypeOK, UplinkTypeOK
  <2>5. QED BY <2>1, <2>2, <2>3, <2>4 DEF Uplink
<1>3. DownlinkTypeOK'
  BY DEF Uplink, UpRead, UpReadError, UpLock, UpSend, UdpTypeOK, DownlinkTypeOK
<1>4. QED BY <1>1, <1>2, <1>3 DEF UdpTypeOK

LEMMA DownlinkType ==
  ASSUME UdpTypeOK, Reader \/ Writer
  PROVE  UdpTypeOK'
<1> USE DEF uplink
<1>1. AssociationTypeOK'
  BY DEF Reader, DownRead, DownAddr, DownEnqueue, DownBlock, DownGiveUp,
         Writer, WriterStop, WriterTake, WriterWrite, UdpTypeOK, AssociationTypeOK
<1>2. UplinkTypeOK'
  BY DEF Reader, DownRead, DownAddr, DownEnqueue, DownBlock, DownGiveUp,
         Writer, WriterStop, WriterTake, WriterWrite, UdpTypeOK, UplinkTypeOK
<1>3. DownlinkTypeOK'
  <2>1. CASE DownRead
    <3>1. produced' \in 0..MaxDown
      BY <2>1, UdpAssumption DEF DownRead, UdpTypeOK, DownlinkTypeOK
    <3>2. QED BY <2>1, <3>1 DEF DownRead, UdpTypeOK, DownlinkTypeOK
  <2>2. CASE DownEnqueue
    <3>1. produced \in Nat /\ queue \in Seq(Nat) /\ Len(queue) < Cap /\ Cap \in Nat
      BY <2>2, UdpAssumption DEF DownEnqueue, UdpTypeOK, DownlinkTypeOK
    <3>2. queue' \in Seq(Nat) /\ Len(queue') <= Cap
      BY <2>2, <3>1 DEF DownEnqueue
    <3>3. QED BY <2>2, <3>2 DEF DownEnqueue, UdpTypeOK, DownlinkTypeOK
  <2>3. CASE DownAddr \/ DownBlock \/ DownGiveUp
    BY <2>3 DEF DownAddr, DownBlock, DownGiveUp, UdpTypeOK, DownlinkTypeOK
  <2>4. CASE WriterStop
    BY <2>4 DEF WriterStop, UdpTypeOK, DownlinkTypeOK
  <2>5. CASE WriterTake
    <3>1. queue \in Seq(Nat) /\ queue # <<>> /\ Len(queue) <= Cap /\ Cap \in Nat
      BY <2>5, UdpAssumption DEF WriterTake, UdpTypeOK, DownlinkTypeOK
    <3>2. Head(queue) \in Nat /\ Tail(queue) \in Seq(Nat) /\ Len(Tail(queue)) <= Cap
      BY <3>1
    <3>3. QED BY <2>5, <3>2 DEF WriterTake, UdpTypeOK, DownlinkTypeOK
  <2>6. CASE WriterWrite
    <3>1. addr \in Clients \cup {NoAddr}
      BY DEF UdpTypeOK, AssociationTypeOK
    <3>2. QED BY <2>6, <3>1 DEF WriterWrite, UdpTypeOK, DownlinkTypeOK
  <2>7. QED BY <2>1, <2>2, <2>3, <2>4, <2>5, <2>6 DEF Reader, Writer
<1>4. QED BY <1>1, <1>2, <1>3 DEF UdpTypeOK

LEMMA UdpTypeStep == UdpTypeOK /\ [UdpNext]_udpVars => UdpTypeOK'
<1> SUFFICES ASSUME UdpTypeOK, [UdpNext]_udpVars PROVE UdpTypeOK'
  OBVIOUS
<1>1. CASE UNCHANGED udpVars
  BY <1>1 DEF udpVars, uplink, downlink, UdpTypeOK, AssociationTypeOK, UplinkTypeOK, DownlinkTypeOK
<1>2. QED
  BY <1>1, HandlerType, EnvironmentType, UplinkType, DownlinkType DEF UdpNext, Program
-----------------------------------------------------------------------------
(* The client *)

LEMMA InitClient == UdpInit => ClientKnown /\ OneClient
BY DEF UdpInit, ClientKnown, OneClient

\* The only statement that writes the address, and the one that forwards.
LEMMA UplinkClient ==
  ASSUME UdpTypeOK, ClientKnown, OneClient, Uplink
  PROVE  ClientKnown' /\ OneClient'
<1> USE DEF downlink
<1>1. CASE UpRead \/ UpReadError
  BY <1>1 DEF UpRead, UpReadError, ClientKnown, OneClient
<1>2. CASE UpLock
  <2>1. cur.src \in Clients /\ cur.src # NoAddr
    BY <1>2, UdpAssumption DEF UpLock, UdpTypeOK, UplinkTypeOK, Datagrams
  <2>2. CASE addr = NoAddr
    <3>1. sentUp = {}
      BY <2>2, UdpAssumption DEF OneClient, UdpTypeOK, UplinkTypeOK, Datagrams
    <3>2. QED BY <1>2, <2>1, <2>2, <3>1 DEF UpLock, ClientKnown, OneClient
  <2>3. CASE addr # NoAddr
    BY <1>2, <2>1, <2>3 DEF UpLock, ClientKnown, OneClient
  <2>4. QED BY <2>2, <2>3
<1>3. CASE UpSend
  BY <1>3 DEF UpSend, ClientKnown, OneClient
<1>4. QED BY <1>1, <1>2, <1>3 DEF Uplink

LEMMA DownlinkClient ==
  ASSUME UdpTypeOK, ClientKnown, OneClient, Reader \/ Writer
  PROVE  ClientKnown' /\ OneClient'
<1> USE DEF uplink
<1>1. CASE DownRead \/ DownAddr \/ DownEnqueue \/ DownBlock \/ DownGiveUp
  BY <1>1 DEF DownRead, DownAddr, DownEnqueue, DownBlock, DownGiveUp, ClientKnown, OneClient
<1>2. CASE WriterStop \/ WriterTake
  BY <1>2 DEF WriterStop, WriterTake, ClientKnown, OneClient
<1>3. CASE WriterWrite
  BY <1>3 DEF WriterWrite, ClientKnown, OneClient
<1>4. QED BY <1>1, <1>2, <1>3 DEF Reader, Writer

LEMMA ClientStep ==
  UdpTypeOK /\ ClientKnown /\ OneClient /\ [UdpNext]_udpVars => ClientKnown' /\ OneClient'
<1> SUFFICES ASSUME UdpTypeOK, ClientKnown, OneClient, [UdpNext]_udpVars
             PROVE  ClientKnown' /\ OneClient'
  OBVIOUS
<1> USE DEF uplink, downlink
<1>1. CASE UNCHANGED udpVars
  BY <1>1 DEF udpVars, ClientKnown, OneClient
<1>2. CASE Environment
  BY <1>2 DEF Environment, ClientSend, ControlEnd, ChannelEnd, ClientKnown, OneClient
<1>3. CASE HandlerStep \/ HandlerUnwind
  BY <1>3 DEF HandlerStep, HandlerUnwind, ClientKnown, OneClient
<1>4. CASE HandlerStart
  BY <1>4 DEF HandlerStart, ClientKnown, OneClient
<1>5. QED
  BY <1>1, <1>2, <1>3, <1>4, UplinkClient, DownlinkClient DEF UdpNext, Program
-----------------------------------------------------------------------------
(* The order of the frames *)

LEMMA NotStartedStep == NotStarted /\ [UdpNext]_udpVars => NotStarted'
BY DEF NotStarted, UdpNext, udpVars, uplink, downlink, Environment, ClientSend, ControlEnd,
       ChannelEnd, Program, HandlerStep, HandlerStart, HandlerUnwind, After, Uplink, UpRead,
       UpReadError, UpLock, UpSend, Reader, DownRead, DownAddr, DownEnqueue, DownBlock,
       DownGiveUp, Writer, WriterStop, WriterTake, WriterWrite

LEMMA InitOrder == UdpInit => NotStarted /\ Ordered
<1>1. UdpInit => Len(queue) = 0
  BY DEF UdpInit
<1>2. QED BY <1>1 DEF UdpInit, NotStarted, Ordered, Produced, FrameHeld, DownlinkInOrder

LEMMA DownlinkNumbers ==
  ASSUME UdpTypeOK
  PROVE  /\ queue \in Seq(Nat) /\ Len(queue) \in Nat
         /\ \A i \in 1..Len(queue) : queue[i] \in Nat
         /\ produced \in Nat /\ frame \in Nat /\ last \in Nat
BY UdpAssumption DEF UdpTypeOK, DownlinkTypeOK

\* A number that upstream sends is larger than any before it.
LEMMA ReadOrder ==
  ASSUME UdpTypeOK, Ordered, DownRead
  PROVE  Ordered'
<1>1. UNCHANGED <<queue, writer, frame, last>>
  BY DEF DownRead
<1>2. CASE produced' = produced + 1 /\ reader' = "addr"
  BY <1>1, <1>2, DownlinkNumbers DEF Ordered, Produced, FrameHeld, DownlinkInOrder
<1>3. CASE produced' = produced /\ reader' = "exit"
  BY <1>1, <1>3 DEF Ordered, Produced, FrameHeld, DownlinkInOrder
<1>4. QED BY <1>2, <1>3 DEF DownRead

LEMMA EnqueueOrder ==
  ASSUME UdpTypeOK, Ordered, DownEnqueue
  PROVE  Ordered'
<1>1. /\ reader' = "read" /\ reader \in {"put", "block"} /\ queue' = Append(queue, produced)
      /\ UNCHANGED <<produced, writer, frame, last>>
  BY DEF DownEnqueue
<1>2. /\ Len(queue') = Len(queue) + 1
      /\ queue'[Len(queue) + 1] = produced
      /\ \A i \in 1..Len(queue) : queue'[i] = queue[i]
  BY <1>1, DownlinkNumbers
<1>3. \A i \in 1..Len(queue') : i \in 1..Len(queue) \/ i = Len(queue) + 1
  BY <1>2, DownlinkNumbers
<1>4. /\ last < produced /\ frame < produced
      /\ \A i \in 1..Len(queue) : queue[i] < produced
  BY <1>1 DEF Ordered, DownlinkInOrder
<1>5. Produced' /\ FrameHeld'
  BY <1>1, <1>2, <1>3, DownlinkNumbers DEF Ordered, Produced, FrameHeld
<1>6. \A i \in 1..Len(queue') : last < queue'[i] /\ frame < queue'[i]
  BY <1>2, <1>3, <1>4 DEF Ordered, DownlinkInOrder
<1>7. \A i, j \in 1..Len(queue') : i < j => queue'[i] < queue'[j]
  <2> SUFFICES ASSUME NEW i \in 1..Len(queue'), NEW j \in 1..Len(queue'), i < j
               PROVE  queue'[i] < queue'[j]
    OBVIOUS
  <2>1. i \in 1..Len(queue)
    BY <1>2, DownlinkNumbers
  <2>2. CASE j \in 1..Len(queue)
    BY <1>2, <2>1, <2>2 DEF Ordered, DownlinkInOrder
  <2>3. CASE j = Len(queue) + 1
    BY <1>2, <1>4, <2>1, <2>3
  <2>4. QED BY <1>3, <2>2, <2>3
<1>8. DownlinkInOrder'
  BY <1>1, <1>6, <1>7 DEF Ordered, DownlinkInOrder
<1>9. QED BY <1>5, <1>8 DEF Ordered

LEMMA TakeOrder ==
  ASSUME UdpTypeOK, Ordered, WriterTake
  PROVE  Ordered'
<1>1. /\ queue # <<>> /\ frame' = Head(queue) /\ queue' = Tail(queue) /\ writer' = "write"
      /\ writer = "select" /\ UNCHANGED <<produced, reader, last>>
  BY DEF WriterTake
<1>2. /\ Len(queue) \in Nat \ {0} /\ Len(queue') = Len(queue) - 1
      /\ frame' = queue[1]
      /\ \A i \in 1..Len(queue') : queue'[i] = queue[i + 1]
  BY <1>1, DownlinkNumbers
<1>3. \A i \in 1..Len(queue') : i + 1 \in 1..Len(queue) /\ 1 < i + 1
  BY <1>2
<1>4. 1 \in 1..Len(queue) /\ queue[1] \in Nat
  BY <1>2, DownlinkNumbers
<1>5. Produced' /\ FrameHeld'
  <2>1. 0 <= last /\ last < queue[1]
    BY <1>4, DownlinkNumbers DEF Ordered, DownlinkInOrder
  <2>2. frame' # 0
    BY <1>2, <1>4, <2>1, DownlinkNumbers
  <2>3. QED BY <1>1, <1>2, <1>3, <1>4, <2>2 DEF Ordered, Produced, FrameHeld
<1>6. \A i \in 1..Len(queue') : last < queue'[i] /\ frame' < queue'[i]
  BY <1>2, <1>3, <1>4 DEF Ordered, DownlinkInOrder
<1>7. \A i, j \in 1..Len(queue') : i < j => queue'[i] < queue'[j]
  <2> SUFFICES ASSUME NEW i \in 1..Len(queue'), NEW j \in 1..Len(queue'), i < j
               PROVE  queue[i + 1] < queue[j + 1]
    BY <1>2
  <2>1. i + 1 < j + 1
    OBVIOUS
  <2>2. QED BY <1>3, <2>1 DEF Ordered, DownlinkInOrder
<1>8. reader \in {"addr", "put", "block"} =>
        /\ last < produced /\ frame' < produced
        /\ \A i \in 1..Len(queue') : queue'[i] < produced
  BY <1>2, <1>3, <1>4 DEF Ordered, DownlinkInOrder
<1>9. last < frame'
  BY <1>2, <1>4 DEF Ordered, DownlinkInOrder
<1>10. DownlinkInOrder'
  BY <1>1, <1>6, <1>7, <1>8, <1>9 DEF DownlinkInOrder
<1>11. QED BY <1>5, <1>10 DEF Ordered

LEMMA WriteOrder ==
  ASSUME UdpTypeOK, Ordered, WriterWrite
  PROVE  Ordered'
<1>1. /\ writer' = "select" /\ frame' = 0 /\ last' \in {last, frame} /\ frame # 0
      /\ UNCHANGED <<produced, reader, queue>>
  BY DEF WriterWrite, Ordered, FrameHeld
<1>2. Produced' /\ FrameHeld'
  BY <1>1, DownlinkNumbers DEF Ordered, Produced, FrameHeld
<1>3. \A i \in 1..Len(queue) : last' < queue[i] /\ 0 < queue[i]
  BY <1>1, DownlinkNumbers DEF Ordered, DownlinkInOrder
<1>4. reader \in {"addr", "put", "block"} => last' < produced /\ 0 < produced
  BY <1>1, DownlinkNumbers DEF Ordered, DownlinkInOrder
<1>5. DownlinkInOrder'
  BY <1>1, <1>3, <1>4 DEF Ordered, DownlinkInOrder
<1>6. QED BY <1>2, <1>5 DEF Ordered

\* The others leave the frames alone, and the reader with none or the same one.
LEMMA KeptOrder ==
  ASSUME Ordered, UNCHANGED <<produced, queue, frame, last>>,
         writer' = writer \/ "write" \notin {writer, writer'},
         \/ reader' \notin {"addr", "put", "block"}
         \/ {reader, reader'} \subseteq {"addr", "put", "block"}
         \/ reader' = reader
  PROVE  Ordered'
BY DEF Ordered, Produced, FrameHeld, DownlinkInOrder

LEMMA OrderStep == UdpTypeOK /\ NotStarted /\ Ordered /\ [UdpNext]_udpVars => Ordered'
<1> SUFFICES ASSUME UdpTypeOK, NotStarted, Ordered, [UdpNext]_udpVars PROVE Ordered'
  OBVIOUS
<1> USE DEF uplink, downlink
<1>1. CASE UNCHANGED udpVars
  BY <1>1, KeptOrder DEF udpVars
<1>2. CASE Environment
  BY <1>2, KeptOrder DEF Environment, ClientSend, ControlEnd, ChannelEnd
<1>3. CASE HandlerStep \/ HandlerUnwind
  BY <1>3, KeptOrder DEF HandlerStep, HandlerUnwind
<1>4. CASE HandlerStart
  <2>1. reader' = "read" /\ writer' = "select" /\ UNCHANGED <<produced, queue, frame, last>>
    BY <1>4 DEF HandlerStart
  <2>2. writer # "write"
    BY <1>4 DEF HandlerStart, NotStarted
  <2>3. QED BY <2>1, <2>2, KeptOrder
<1>5. CASE Uplink
  BY <1>5, KeptOrder DEF Uplink, UpRead, UpReadError, UpLock, UpSend
<1>6. CASE DownAddr \/ DownBlock \/ DownGiveUp
  BY <1>6, KeptOrder DEF DownAddr, DownBlock, DownGiveUp
<1>7. CASE WriterStop
  BY <1>7, KeptOrder DEF WriterStop
<1>8. QED
  BY <1>1, <1>2, <1>3, <1>4, <1>5, <1>6, <1>7, ReadOrder, EnqueueOrder, TakeOrder, WriteOrder
     DEF UdpNext, Program, Reader, Writer
-----------------------------------------------------------------------------
(* The theorems *)

LEMMA UdpInvariance == UdpSpec => []UdpInv
<1>1. UdpInit => UdpInv
  BY InitUdpType, InitClient, InitOrder DEF UdpInv
<1>2. UdpInv /\ [UdpNext]_udpVars => UdpInv'
  BY UdpTypeStep, ClientStep, NotStartedStep, OrderStep DEF UdpInv
<1>3. QED BY <1>1, <1>2, PTL DEF UdpSpec

\* For any senders and any capacity, the association keeps its types, and
\* downQueue never holds more than its capacity (downQueueSize).
THEOREM UdpTypeCorrect == UdpSpec => []UdpTypeOK
<1>1. UdpInv => UdpTypeOK
  BY DEF UdpInv
<1>2. QED BY <1>1, UdpInvariance, PTL

\* Whoever else sends to the relay socket, one client is served: the first one
\* (the critical section of uplinkLoop).
THEOREM ServesOneClient == UdpSpec => []OneClient
<1>1. UdpInv => OneClient
  BY DEF UdpInv
<1>2. QED BY <1>1, UdpInvariance, PTL

\* With a queue of any capacity and however many frames are dropped, those that
\* reach the client do so in the order upstream sent them (downlinkLoop).
THEOREM FramesInOrder == UdpSpec => []DownlinkInOrder
<1>1. UdpInv => DownlinkInOrder
  BY DEF UdpInv, Ordered
<1>2. QED BY <1>1, UdpInvariance, PTL
=============================================================================
