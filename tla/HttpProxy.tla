------------------------------ MODULE HttpProxy ------------------------------
(***************************************************************************)
(* httpproxy.Server: what its accept loop does with an error, and how the  *)
(* handler of a connection reads one request and tunnels it, to the target *)
(* of a CONNECT or, after the rewritten request, to that of any other.     *)
(***************************************************************************)
EXTENDS ProxyServer

(* acceptLoop: any error is retried until Close has been called *)

HttpAcceptError ==
  /\ acceptor = "accept"
  /\ acceptor' = "check"
  /\ UNCHANGED <<opts, closed, listening, pc, hung, slots, active, upstream, said>>

HttpAcceptCheck ==
  /\ acceptor = "check"
  /\ acceptor' = IF closed THEN "exit" ELSE "accept"
  /\ UNCHANGED <<opts, closed, listening, pc, hung, slots, active, upstream, said>>
-----------------------------------------------------------------------------
(* handleConn *)

\* softLimitWait has passed, and the client is told so.
HttpReject(c) ==
  /\ pc[c] = "slotWait"
  /\ Say(c, "unavailable")
  /\ Goto(c, "shut")
  /\ UNCHANGED <<server, hung, slots, active, upstream>>

\* http.ReadRequest fails: a malformed request, the client's end, the deadline.
HttpReadFail(c) ==
  /\ pc[c] = "read"
  /\ Goto(c, "release")
  /\ UNCHANGED <<server, hung, slots, active, upstream, said>>

\* A server that answers a request without credentials and serves it all the same.
HttpRequestDeniedServed(c) ==
  /\ pc[c] = "read"
  /\ ~hung[c]
  /\ \/ opts.auth /\ Say(c, "denied")
     \/ UNCHANGED said
  /\ \E method \in {"connect", "forward"} : Goto(c, method)
  /\ UNCHANGED <<server, hung, slots, active, upstream>>

\* A request is read: its credentials, then its target, decide.
HttpRequest(c) ==
  /\ pc[c] = "read"
  /\ ~hung[c]
  /\ \/ /\ opts.auth
        /\ Say(c, "denied")
        /\ Goto(c, "release")
     \/ /\ Say(c, "bad request")
        /\ Goto(c, "release")
     \/ /\ \E method \in {"connect", "forward"} : Goto(c, method)
        /\ UNCHANGED said
  /\ UNCHANGED <<server, hung, slots, active, upstream>>
-----------------------------------------------------------------------------
(* handleConnect and handleForward, over dialUpstream *)

\* Directly or through the dialer, within dialTimeout either way.
DialUpstream(c, next) ==
  /\ \/ /\ upstream' = upstream \cup {c}
        /\ Goto(c, next)
        /\ UNCHANGED said
     \/ /\ Say(c, "bad gateway")
        /\ Goto(c, "release")
        /\ UNCHANGED upstream
  /\ UNCHANGED <<server, hung, slots, active>>

HttpConnect(c) == pc[c] = "connect" /\ DialUpstream(c, "established")

HttpForward(c) == pc[c] = "forward" /\ DialUpstream(c, "first")

\* A CONNECT whose 200 the client did not take and which returns past the close.
HttpEstablishedLeaks(c) ==
  /\ pc[c] = "established"
  /\ \/ Say(c, "ok") /\ Goto(c, "tunnel")
     \/ Goto(c, "release") /\ UNCHANGED said
  /\ UNCHANGED <<server, hung, slots, active, upstream>>

\* The 200 of a CONNECT; a client that does not take it ends the tunnel.
HttpEstablished(c) ==
  /\ pc[c] = "established"
  /\ \/ Say(c, "ok") /\ Goto(c, "tunnel")
     \/ Goto(c, "pumped") /\ UNCHANGED said
  /\ UNCHANGED <<server, hung, slots, active, upstream>>

\* The rewritten request and what the reader had buffered behind it are written
\* to the target, without a deadline; no answer of the proxy's own follows.
HttpFirst(c) ==
  /\ pc[c] = "first"
  /\ \E l \in {"tunnel", "pumped"} : Goto(c, l)
  /\ UNCHANGED <<server, hung, slots, active, upstream, said>>

\* pumpBidirectional returns (see TunnelPump).
HttpPumpEnd(c) ==
  /\ pc[c] = "tunnel"
  /\ Goto(c, "pumped")
  /\ UNCHANGED <<server, hung, slots, active, upstream, said>>
-----------------------------------------------------------------------------
HttpAcceptor == HttpAcceptError \/ HttpAcceptCheck

HttpHandler(c) ==
  HttpReject(c) \/ HttpReadFail(c) \/ HttpConnect(c) \/ HttpForward(c) \/ HttpEstablished(c)

HttpNext ==
  \/ HttpAcceptor
  \/ \E c \in Conns : HttpHandler(c) \/ HttpRequest(c) \/ HttpFirst(c) \/ HttpPumpEnd(c)
-----------------------------------------------------------------------------
\* What an HTTP client can be answered by the proxy itself.
HttpConversations ==
  {<<>>, <<"unavailable">>, <<"denied">>, <<"bad request">>, <<"bad gateway">>, <<"ok">>}

\* The target of a forwarded request answers it, the proxy that of a CONNECT.
HttpServed == {<<>>, <<"ok">>}
=============================================================================
