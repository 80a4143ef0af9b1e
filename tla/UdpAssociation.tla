--------------------------- MODULE UdpAssociation ---------------------------
(***************************************************************************)
(* One SOCKS5 UDP ASSOCIATE: handleUDPAssociate, the goroutines it starts  *)
(* (uplinkLoop, the two of downlinkLoop, the one that watches the control  *)
(* connection) and what they share: the done channel, the client address   *)
(* behind a.mu and the bounded downQueue.                                  *)
(*                                                                         *)
(* A datagram of a client is its sender and what the filter makes of it; a *)
(* datagram from upstream is its number.                                   *)
(***************************************************************************)
EXTENDS Integers, Sequences

CONSTANTS
  Clients,   \* addresses that send to the relay socket
  NoAddr,    \* clientUDPAddr is nil
  Cap,       \* downQueueSize
  MaxUp,     \* bound: datagrams clients send
  MaxDown    \* bound: datagrams upstream sends

\* "blocked": its port is in blockedPorts; "bad": it does not parse.
Kinds == {"ok", "blocked", "bad"}
Datagrams == [src : Clients, kind : Kinds]

ASSUME UdpAssumption ==
  /\ NoAddr \notin Clients
  /\ Cap \in Nat \ {0}
  /\ MaxUp \in Nat
  /\ MaxDown \in Nat

VARIABLES
  udpHandler, \* the statement handleUDPAssociate is at
  held,       \* what its deferred calls will release
  closeDone,  \* the local channel closeDone is closed
  done,       \* a.done is closed
  addr,       \* a.clientUDPAddr
  control,    \* the goroutine of the control connection
  sock,       \* datagrams waiting in the relay socket
  offered,    \* datagrams sent to it so far (bounded by MaxUp)
  up,         \* where uplinkLoop is
  cur,        \* the datagram it holds
  ended,      \* the upstream channel is closed by its far side
  produced,   \* datagrams read from it so far (bounded by MaxDown)
  reader,     \* where the queueing goroutine is; it holds number `produced'
  queue,      \* a.downQueue
  writer,     \* where the loop that writes to the client is
  frame,      \* the number it holds
  sentUp,     \* history: what was forwarded upstream
  last,       \* history: the number last written to a client
  sentTo      \* history: the addresses written to

uplink == <<sock, offered, up, cur, sentUp>>
downlink == <<ended, produced, reader, queue, writer, frame, last, sentTo>>
udpVars == <<udpHandler, held, closeDone, done, addr, control, uplink, downlink>>

None == [src |-> NoAddr, kind |-> "bad"]

UdpInit ==
  /\ udpHandler = "bind"
  /\ held = {}
  /\ closeDone = FALSE
  /\ done = FALSE
  /\ addr = NoAddr
  /\ control = "off"
  /\ sock = <<>>
  /\ offered = 0
  /\ up = "off"
  /\ cur = None
  /\ ended = FALSE
  /\ produced = 0
  /\ reader = "off"
  /\ queue = <<>>
  /\ writer = "off"
  /\ frame = 0
  /\ sentUp = {}
  /\ last = 0
  /\ sentTo = {}
-----------------------------------------------------------------------------
(* handleUDPAssociate *)

\* The channel receives of the handler; its other statements do not wait.
Ready(l) == CASE l = "closeDone" -> closeDone
              [] l = "waitDone" -> done
              [] OTHER -> TRUE

\* What a statement is followed by: the next one, or the return on its error.
After(l) == CASE l = "bind" -> {"reply", "unwind"}
              [] l = "reply" -> {"dial", "unwind"}
              [] l = "dial" -> {"start", "unwind"}
              [] l = "closeDone" -> {"waitDone"}
              [] l = "waitDone" -> {"unwind"}
              [] OTHER -> {}

HandlerStep ==
  /\ Ready(udpHandler)
  /\ udpHandler' \in After(udpHandler)
  /\ held' = held \cup (IF udpHandler' = "reply" THEN {"socket"} ELSE {})
                  \cup (IF udpHandler' = "start" THEN {"channel"} ELSE {})
  /\ UNCHANGED <<closeDone, done, addr, control, uplink, downlink>>

HandlerStart ==
  /\ udpHandler = "start"
  /\ udpHandler' = "closeDone"
  /\ up' = "read"
  /\ reader' = "read"
  /\ writer' = "select"
  /\ control' = "copy"
  /\ UNCHANGED <<held, closeDone, done, addr, sock, offered, cur, sentUp,
                 ended, produced, queue, frame, last, sentTo>>

\* The deferred calls, close(closeDone) among them.
HandlerUnwind ==
  /\ udpHandler = "unwind"
  /\ udpHandler' = "gone"
  /\ held' = {}
  /\ closeDone' = TRUE
  /\ UNCHANGED <<done, addr, control, uplink, downlink>>

\* The control connection ends: io.Copy returns and the association is done.
ControlEnd ==
  /\ control = "copy"
  /\ control' = "exit"
  /\ done' = TRUE
  /\ UNCHANGED <<udpHandler, held, closeDone, addr, uplink, downlink>>
-----------------------------------------------------------------------------
(* uplinkLoop *)

\* A client sends a datagram to the relay socket (external).
ClientSend ==
  /\ "socket" \in held
  /\ offered < MaxUp
  /\ offered' = offered + 1
  /\ \E d \in Datagrams : sock' = Append(sock, d)
  /\ UNCHANGED <<udpHandler, held, closeDone, done, addr, control, up, cur, sentUp, downlink>>

UpRead ==
  /\ up = "read"
  /\ sock # <<>>
  /\ cur' = Head(sock)
  /\ sock' = Tail(sock)
  /\ up' = "lock"
  /\ UNCHANGED <<udpHandler, held, closeDone, done, addr, control, offered, sentUp, downlink>>

UpReadError ==
  /\ up = "read"
  /\ up' = "exit"
  /\ done' = TRUE
  /\ UNCHANGED <<udpHandler, held, closeDone, addr, control, sock, offered, cur, sentUp, downlink>>

\* A lock that follows the latest sender.
UpLockFollows ==
  /\ up = "lock"
  /\ addr' = cur.src
  /\ up' = "send"
  /\ UNCHANGED <<udpHandler, held, closeDone, done, control, sock, offered, cur, sentUp, downlink>>

\* The critical section: the first sender is the client, others are ignored.
UpLock ==
  /\ up = "lock"
  /\ addr' = IF addr = NoAddr THEN cur.src ELSE addr
  /\ \/ /\ addr \in {NoAddr, cur.src}
        /\ up' = "send"
        /\ UNCHANGED cur
     \/ /\ addr \notin {NoAddr, cur.src}
        /\ up' = "read"
        /\ cur' = None
  /\ UNCHANGED <<udpHandler, held, closeDone, done, control, sock, offered, sentUp, downlink>>

\* What does not parse or goes to a blocked port is dropped, the rest is sent.
UpSend ==
  /\ up = "send"
  /\ cur' = None
  /\ \/ /\ cur.kind # "ok"
        /\ up' = "read"
        /\ UNCHANGED <<sentUp, done>>
     \/ /\ cur.kind = "ok"
        /\ ~ended
        /\ sentUp' = sentUp \cup {cur}
        /\ up' = "read"
        /\ UNCHANGED done
     \/ /\ cur.kind = "ok"
        /\ up' = "exit"
        /\ done' = TRUE
        /\ UNCHANGED sentUp
  /\ UNCHANGED <<udpHandler, held, closeDone, addr, control, sock, offered, downlink>>

Uplink == UpRead \/ UpReadError \/ UpLock \/ UpSend
-----------------------------------------------------------------------------
(* downlinkLoop: the queueing goroutine *)

\* The far side closes the upstream channel (external).
ChannelEnd ==
  /\ "channel" \in held
  /\ ~ended
  /\ ended' = TRUE
  /\ UNCHANGED <<udpHandler, held, closeDone, done, addr, control, uplink,
                 produced, reader, queue, writer, frame, last, sentTo>>

DownRead ==
  /\ reader = "read"
  /\ \/ /\ produced < MaxDown
        /\ produced' = produced + 1
        /\ reader' = "addr"
        /\ UNCHANGED done
     \/ /\ ended
        /\ reader' = "exit"
        /\ done' = TRUE
        /\ UNCHANGED produced
  /\ UNCHANGED <<udpHandler, held, closeDone, addr, control, uplink,
                 ended, queue, writer, frame, last, sentTo>>

\* Dropped while no client is known, or when its source cannot be framed.
DownAddr ==
  /\ reader = "addr"
  /\ \/ /\ addr # NoAddr
        /\ reader' = "put"
     \/ reader' = "read"
  /\ UNCHANGED <<udpHandler, held, closeDone, done, addr, control, uplink,
                 ended, produced, queue, writer, frame, last, sentTo>>

\* A queue that serves the latest frame first.
DownEnqueueFront ==
  /\ reader \in {"put", "block"}
  /\ Len(queue) < Cap
  /\ queue' = <<produced>> \o queue
  /\ reader' = "read"
  /\ UNCHANGED <<udpHandler, held, closeDone, done, addr, control, uplink,
                 ended, produced, writer, frame, last, sentTo>>

DownEnqueue ==
  /\ reader \in {"put", "block"}
  /\ Len(queue) < Cap
  /\ queue' = Append(queue, produced)
  /\ reader' = "read"
  /\ UNCHANGED <<udpHandler, held, closeDone, done, addr, control, uplink,
                 ended, produced, writer, frame, last, sentTo>>

DownBlock ==
  /\ reader = "put"
  /\ Len(queue) = Cap
  /\ ~done
  /\ reader' = "block"
  /\ UNCHANGED <<udpHandler, held, closeDone, done, addr, control, uplink,
                 ended, produced, queue, writer, frame, last, sentTo>>

\* A plain send, with neither the done case nor the timer.
DownGiveUpNever ==
  /\ reader = "put"
  /\ done
  /\ reader' = "block"
  /\ UNCHANGED <<udpHandler, held, closeDone, done, addr, control, uplink,
                 ended, produced, queue, writer, frame, last, sentTo>>

\* The other cases of the select: done, or downQueueWait passed.
DownGiveUp ==
  /\ \/ /\ reader \in {"put", "block"}
        /\ done
        /\ reader' = "exit"
     \/ /\ reader = "block"
        /\ reader' = "read"
  /\ UNCHANGED <<udpHandler, held, closeDone, done, addr, control, uplink,
                 ended, produced, queue, writer, frame, last, sentTo>>

Reader == DownRead \/ DownAddr \/ DownEnqueue \/ DownBlock \/ DownGiveUp
-----------------------------------------------------------------------------
(* downlinkLoop: the loop that writes to the client *)

\* A loop that runs until the upstream is used up instead of until done.
WriterStopLate ==
  /\ writer = "select"
  /\ ended /\ queue = <<>>
  /\ writer' = "exit"
  /\ UNCHANGED <<udpHandler, held, closeDone, done, addr, control, uplink,
                 ended, produced, reader, queue, frame, last, sentTo>>

WriterStop ==
  /\ writer = "select"
  /\ done
  /\ writer' = "exit"
  /\ UNCHANGED <<udpHandler, held, closeDone, done, addr, control, uplink,
                 ended, produced, reader, queue, frame, last, sentTo>>

WriterTake ==
  /\ writer = "select"
  /\ queue # <<>>
  /\ frame' = Head(queue)
  /\ queue' = Tail(queue)
  /\ writer' = "write"
  /\ UNCHANGED <<udpHandler, held, closeDone, done, addr, control, uplink,
                 ended, produced, reader, last, sentTo>>

\* Written to the locked address, or lost: an error, or the write deadline.
WriterWrite ==
  /\ writer = "write"
  /\ frame' = 0
  /\ writer' = "select"
  /\ \/ /\ last' = frame
        /\ sentTo' = sentTo \cup {addr}
     \/ UNCHANGED <<last, sentTo>>
  /\ UNCHANGED <<udpHandler, held, closeDone, done, addr, control, uplink,
                 ended, produced, reader, queue>>

Writer == WriterStop \/ WriterTake \/ WriterWrite
-----------------------------------------------------------------------------
Environment == ClientSend \/ ControlEnd \/ ChannelEnd

Program == HandlerStep \/ HandlerStart \/ HandlerUnwind \/ Uplink \/ Reader \/ Writer

UdpNext == Environment \/ Program

UdpSpec == UdpInit /\ [][UdpNext]_udpVars

\* Every goroutine runs whenever it can; a select case that keeps being ready
\* is chosen in the end.  Sockets, the client and upstream owe nothing.
UdpFairSpec ==
  /\ UdpSpec
  /\ WF_udpVars(HandlerStep) /\ WF_udpVars(HandlerStart) /\ WF_udpVars(HandlerUnwind)
  /\ WF_udpVars(UpLock \/ UpSend)
  /\ WF_udpVars(DownAddr) /\ WF_udpVars(DownEnqueue \/ DownBlock \/ DownGiveUp)
  /\ WF_udpVars(WriterTake \/ WriterWrite)
  /\ SF_udpVars(WriterStop)
-----------------------------------------------------------------------------
(* Properties *)

AssociationTypeOK ==
  /\ udpHandler \in {"bind", "reply", "dial", "start", "closeDone", "waitDone", "unwind", "gone"}
  /\ held \subseteq {"socket", "channel"}
  /\ closeDone \in BOOLEAN
  /\ done \in BOOLEAN
  /\ addr \in Clients \cup {NoAddr}
  /\ control \in {"off", "copy", "exit"}

UplinkTypeOK ==
  /\ sock \in Seq(Datagrams)
  /\ offered \in 0..MaxUp
  /\ up \in {"off", "read", "lock", "send", "exit"}
  /\ cur \in Datagrams \cup {None}
  /\ up \in {"lock", "send"} => cur \in Datagrams
  /\ sentUp \subseteq Datagrams

DownlinkTypeOK ==
  /\ ended \in BOOLEAN
  /\ produced \in 0..MaxDown
  /\ reader \in {"off", "read", "addr", "put", "block", "exit"}
  /\ queue \in Seq(Nat)
  /\ Len(queue) <= Cap
  /\ writer \in {"off", "select", "write", "exit"}
  /\ frame \in Nat
  /\ last \in Nat
  /\ sentTo \subseteq Clients \cup {NoAddr}

\* Every variable stays in its domain and downQueue within its capacity.
UdpTypeOK == AssociationTypeOK /\ UplinkTypeOK /\ DownlinkTypeOK

\* The relay serves one client: nothing is forwarded upstream for another
\* sender, or past the port filter, and no answer is written to another
\* address or to none at all, although uplink and downlink look at the address
\* at different times (uplinkLoop's lock, downlinkLoop's two reads of it).
OneClient ==
  /\ \A d \in sentUp : d.src = addr /\ d.kind = "ok"
  /\ sentTo \subseteq {addr} \ {NoAddr}

\* Frames reach the client in the order upstream sent them, none twice, however
\* many the congested queue dropped in between: what was written, the frame
\* being written, the queue and the frame to be queued ascend (downlinkLoop).
DownlinkInOrder ==
  /\ frame # 0 => last < frame
  /\ \A i \in 1..Len(queue) : last < queue[i] /\ frame < queue[i]
  /\ \A i, j \in 1..Len(queue) : i < j => queue[i] < queue[j]
  /\ reader \in {"addr", "put", "block"} =>
       /\ last < produced /\ frame < produced
       /\ \A i \in 1..Len(queue) : queue[i] < produced

\* The goroutine that empties the upstream channel never stays behind a full
\* queue, also after the loop that empties the queue has left.
UpstreamNotBlocked == reader \in {"put", "block"} ~> reader \in {"read", "exit"}

\* Once the association is done the loop that writes to the client ends, also
\* while upstream keeps filling the queue.
DoneStopsWriter == (done /\ writer # "off") ~> writer = "exit"

\* The comment of handleUDPAssociate: the association lives as long as the TCP
\* control connection.  So when that ends the handler releases the relay
\* socket and the upstream channel.
AssociationFollowsControl == control = "exit" ~> held = {}
=============================================================================
