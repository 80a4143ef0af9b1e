---------------------------- MODULE Socks5Server ----------------------------
(***************************************************************************)
(* socks5.Server: what its accept loop does with an error, and how the     *)
(* handler of a connection negotiates, reads the request and serves it.    *)
(***************************************************************************)
EXTENDS ProxyServer

\* A loop that takes every error for a passing one.
AcceptErrorRetries ==
  /\ acceptor = "accept"
  /\ acceptor' = "sleep"
  /\ UNCHANGED <<opts, closed, listening, pc, hung, slots, active, upstream, said>>

\* Accept fails: EAGAIN and the like are retried, any other error, that of a
\* closed listener among them, ends the loop whatever s.closed says.
AcceptError ==
  /\ acceptor = "accept"
  /\ \/ /\ listening
        /\ acceptor' = "sleep"
     \/ acceptor' = "exit"
  /\ UNCHANGED <<opts, closed, listening, pc, hung, slots, active, upstream, said>>

AcceptRetry ==
  /\ acceptor = "sleep"
  /\ acceptor' = "accept"
  /\ UNCHANGED <<opts, closed, listening, pc, hung, slots, active, upstream, said>>

\* A rejection that runs the release that goes with a slot.
SlotRejectReleases(c) ==
  /\ pc[c] = "slotWait"
  /\ Goto(c, "release")
  /\ UNCHANGED <<server, hung, slots, active, upstream, said>>

\* softLimitWait has passed.
SlotReject(c) ==
  /\ pc[c] = "slotWait"
  /\ Goto(c, "shut")
  /\ UNCHANGED <<server, hung, slots, active, upstream, said>>

-----------------------------------------------------------------------------
(* handleAuth and handleUserPassSubnegotiation *)

\* The client offers methods ("pw" is 0x02, "no" is 0x00).
Auth(c) ==
  /\ pc[c] = "auth"
  /\ ~hung[c]
  /\ \E methods \in SUBSET {"pw", "no"} :
       \/ /\ opts.auth /\ "pw" \in methods
          /\ Say(c, "pw")
          /\ Goto(c, "creds")
       \/ /\ ~opts.auth \/ ("no" \in methods /\ "pw" \notin methods)
          /\ Say(c, "no")
          /\ Goto(c, "request")
       \/ /\ opts.auth /\ methods = {}
          /\ Say(c, "none acceptable")
          /\ Goto(c, "release")
  /\ UNCHANGED <<server, hung, slots, active, upstream>>

Creds(c) ==
  /\ pc[c] = "creds"
  /\ ~hung[c]
  /\ \/ /\ Say(c, "granted")
        /\ Goto(c, "request")
     \/ /\ Say(c, "denied")
        /\ Goto(c, "release")
  /\ UNCHANGED <<server, hung, slots, active, upstream>>

\* handleRequest and the dispatch at the end of handleConnection.
Request(c) ==
  /\ pc[c] = "request"
  /\ ~hung[c]
  /\ \E cmd \in Commands, atypOK \in BOOLEAN :
       \/ /\ cmd = "other"
          /\ Say(c, "bad command")
          /\ Goto(c, "release")
       \/ /\ cmd # "other" /\ ~atypOK
          /\ Say(c, "bad address")
          /\ Goto(c, "release")
       \/ /\ cmd = "connect" /\ atypOK
          /\ Goto(c, "dial")
          /\ UNCHANGED said
       \/ /\ cmd = "udp" /\ atypOK /\ opts.udp
          /\ Goto(c, "bind")
          /\ UNCHANGED said
       \/ /\ cmd = "udp" /\ atypOK /\ ~opts.udp
          /\ Say(c, "bad command")
          /\ Goto(c, "release")
  /\ UNCHANGED <<server, hung, slots, active, upstream>>

\* A handshake without read deadlines: only the client's end stops it.
HandshakeFailNoDeadline(c) ==
  /\ pc[c] \in {"auth", "creds", "request"}
  /\ hung[c]
  /\ Goto(c, "release")
  /\ UNCHANGED <<server, hung, slots, active, upstream, said>>

\* A handshake that takes the end of the stream for a short read to repeat.
HandshakeFailRetriesEof(c) ==
  /\ pc[c] \in {"auth", "creds", "request"}
  /\ ~hung[c]
  /\ Goto(c, "release")
  /\ UNCHANGED <<server, hung, slots, active, upstream, said>>

\* A malformed or short message, the client's end, or handshakeTimeout.
HandshakeFail(c) ==
  /\ pc[c] \in {"auth", "creds", "request"}
  /\ Goto(c, "release")
  /\ UNCHANGED <<server, hung, slots, active, upstream, said>>
-----------------------------------------------------------------------------
(* createTunnel and createDirectTunnel, which dial differently only *)

Dial(c) ==
  /\ pc[c] = "dial"
  /\ \/ /\ upstream' = upstream \cup {c}
        /\ Goto(c, "reply")
        /\ UNCHANGED said
     \/ /\ Say(c, "refused")
        /\ Goto(c, "release")
        /\ UNCHANGED upstream
  /\ UNCHANGED <<server, hung, slots, active>>

\* The success reply; a client that does not take it ends the tunnel.
Reply(c) ==
  /\ pc[c] = "reply"
  /\ \/ /\ Say(c, "ok")
        /\ active' = active + 1
        /\ Goto(c, "tunnel")
        /\ UNCHANGED upstream
     \/ /\ upstream' = upstream \ {c}
        /\ Goto(c, "release")
        /\ UNCHANGED <<said, active>>
  /\ UNCHANGED <<server, hung, slots>>

\* pumpTunnel returns (see TunnelPump).
PumpEnd(c) ==
  /\ pc[c] = "tunnel"
  /\ active' = active - 1
  /\ Goto(c, "pumped")
  /\ UNCHANGED <<server, hung, slots, upstream, said>>

-----------------------------------------------------------------------------
(* handleUDPAssociate: its handler answers before it dials upstream *)

BindUdp(c) ==
  /\ pc[c] = "bind"
  /\ \/ /\ Say(c, "ok")
        /\ Goto(c, "dialUdp")
     \/ /\ \/ Say(c, "failed")
           \/ UNCHANGED said
        /\ Goto(c, "release")
  /\ UNCHANGED <<server, hung, slots, active, upstream>>

DialUdp(c) ==
  /\ pc[c] = "dialUdp"
  /\ \/ /\ active' = active + 1
        /\ upstream' = upstream \cup {c}
        /\ Goto(c, "udp")
     \/ /\ Goto(c, "release")
        /\ UNCHANGED <<active, upstream>>
  /\ UNCHANGED <<server, hung, slots, said>>
-----------------------------------------------------------------------------
SocksAcceptor == AcceptError \/ AcceptRetry

SocksHandler(c) ==
  SlotReject(c) \/ HandshakeFail(c) \/ Dial(c) \/ Reply(c) \/ BindUdp(c) \/ DialUdp(c)

SocksNext ==
  \/ SocksAcceptor
  \/ \E c \in Conns : SocksHandler(c) \/ Auth(c) \/ Creds(c) \/ Request(c) \/ PumpEnd(c)
-----------------------------------------------------------------------------
Greetings == {<<"no">>, <<"pw", "granted">>}

\* The answer to a request, which ends the conversation.
FinalAnswers == {"bad command", "bad address", "refused", "ok", "failed"}

\* The conversations a SOCKS5 client can see.
SocksConversations ==
  {<<>>, <<"pw">>, <<"none acceptable">>, <<"pw", "denied">>} \cup Greetings
    \cup UNION {{Append(g, m) : m \in FinalAnswers} : g \in Greetings}

SocksServed == {Append(g, "ok") : g \in Greetings}
=============================================================================
