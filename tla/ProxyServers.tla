---------------------------- MODULE ProxyServers ----------------------------
(***************************************************************************)
(* The two proxy servers: one behaviour is that of one server, made with   *)
(* one of the Options.  The properties are about both.                     *)
(***************************************************************************)
EXTENDS Socks5Server, HttpProxy

Shared(c) == Accept(c) \/ Connect(c) \/ HangUp(c)

SharedHandler(c) ==
  SlotTake(c) \/ SlotBlock(c) \/ SlotRelease(c) \/ Shut(c) \/ StreamClose(c)

Next ==
  \/ Start \/ Close \/ CloseListener
  \/ \E c \in Conns : Shared(c) \/ SharedHandler(c)
  \/ opts.proto = "socks5" /\ SocksNext
  \/ opts.proto = "http" /\ HttpNext

Spec == Init /\ [][Next]_vars

Handler(c) ==
  \/ SharedHandler(c)
  \/ opts.proto = "socks5" /\ SocksHandler(c)
  \/ opts.proto = "http" /\ HttpHandler(c)

AcceptorRuns ==
  \/ opts.proto = "socks5" /\ ((AcceptError /\ ~listening) \/ AcceptRetry)
  \/ opts.proto = "http" /\ ((HttpAcceptError /\ ~listening) \/ HttpAcceptCheck)

TunnelEnds(c) ==
  \/ opts.proto = "socks5" /\ PumpEnd(c)
  \/ opts.proto = "http" /\ HttpPumpEnd(c)

\* The servers' goroutines run, read deadlines and dial timeouts included.  With
\* an idle timeout a tunnel whose client has gone ends: what its target still sends
\* fails or fills the buffers, and then both directions are silent (TunnelPump,
\* IdleTunnelEnds).  Without one, the default, nothing is assumed of it: its target
\* may never close, or never learn that the client has gone (TunnelPump,
\* EofReachesPeer).  Clients owe nothing, nobody has to call Close, and a target
\* need not take the request that is forwarded to it (HttpFirst).
FairSpec ==
  /\ Spec
  /\ WF_vars(AcceptorRuns)
  /\ \A c \in Conns :
       /\ WF_vars(Handler(c))
       /\ WF_vars(opts.idle /\ hung[c] /\ TunnelEnds(c))
-----------------------------------------------------------------------------
(* Properties *)

PCs == {"new", "backlog", "slot", "slotWait", "shut", "gone"} \cup Holding

Replies == {"pw", "no", "none acceptable", "granted", "denied", "bad command",
            "bad address", "refused", "ok", "failed", "unavailable", "bad request",
            "bad gateway"}

\* Every variable stays in its domain.
TypeOK ==
  /\ opts \in Options
  /\ closed \in BOOLEAN
  /\ listening \in BOOLEAN
  /\ acceptor \in {"off", "accept", "sleep", "check", "exit"}
  /\ pc \in [Conns -> PCs]
  /\ hung \in [Conns -> BOOLEAN]
  /\ slots \in Int
  /\ active \in Int
  /\ upstream \subseteq Conns
  /\ said \in [Conns -> Seq(Replies)]

\* The connections whose handler is at one of these places.
At(places) == {c \in Conns : pc[c] \in places}

Dialled == Serving \cup {"reply", "established", "first", "pumped"}

\* The semaphore counts the connections between admission and release exactly,
\* whichever of the many early returns they leave by, so no slot is lost, and
\* never more than MaxConns are served; without a limit it stays empty (s.sem
\* in handleConnection and handleConn).
SlotsExact ==
  /\ slots = IF opts.limited THEN Cardinality(At(Holding)) ELSE 0
  /\ slots <= MaxConns

\* The statistics and the upstream connections agree with what is running: a
\* handler that has left its tunnel keeps no target connection open, and none
\* is counted as active without one (createTunnel, createDirectTunnel,
\* handleConnect, handleForward).
UpstreamExact ==
  /\ active = IF opts.proto = "socks5" THEN Cardinality(At(Serving)) ELSE 0
  /\ upstream = At(Dialled)

\* A request is answered at most once, in SOCKS5 after a granted negotiation
\* only, and traffic flows exactly after the answer was success, or without one
\* for a forwarded request: no failure is followed by service, no second answer
\* corrupts the stream (handleAuth, handleRequest, createTunnel; handleConn,
\* handleConnect, handleForward).
OneAnswer ==
  \A c \in Conns :
    IF opts.proto = "socks5"
    THEN said[c] \in SocksConversations /\ (pc[c] \in Serving => said[c] \in SocksServed)
    ELSE said[c] \in HttpConversations /\ (pc[c] \in Serving => said[c] \in HttpServed)

\* A client cannot hold a handler in negotiation for ever: it is served or its
\* slot comes back (handshakeTimeout, ReadRequest's deadline, the dial timeouts
\* and softLimitWait).  Only the target can delay a forwarded request further.
NegotiationEnds ==
  \A c \in Conns :
    pc[c] \in {"slot", "slotWait"} \cup Handshake \cup Dialling
      ~> pc[c] \in Serving \cup {"first", "gone"}

\* Where a handler may stay although its client has gone: a UDP association, which
\* never returns (see UdpAssociation); the request forwarded to a target that does
\* not take it; a tunnel without an idle timeout, whose target may never close.
MayStay == {"udp", "first"} \cup IF opts.idle THEN {} ELSE {"tunnel"}

\* The slot of a client that has gone away comes back, at whatever step of the
\* negotiation, the dialling, the answer or the unwinding it left, or the handler
\* ends up where it may stay (the deadlines, early returns and deferred calls of
\* both servers).
SlotComesBack == \A c \in Conns : hung[c] ~> pc[c] \notin Holding \ MayStay

\* Close ends the accept loop of either server.
CloseEndsAcceptLoop == closed /\ ~listening ~> acceptor = "exit"
=============================================================================
