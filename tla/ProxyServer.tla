----------------------------- MODULE ProxyServer -----------------------------
(***************************************************************************)
(* What socks5.Server and httpproxy.Server share: Start and Close, the     *)
(* listener, one goroutine per client connection that waits for one of the *)
(* maxConns slots of s.sem, and the deferred calls it ends with.  What     *)
(* they say to a client is in Socks5Server and HttpProxy, both servers     *)
(* together are ProxyServers.                                              *)
(*                                                                         *)
(* What happens inside a running tunnel is TunnelPump, inside a UDP        *)
(* association UdpAssociation; here they last until they end, the second   *)
(* for ever (see UdpAssociation, AssociationFollowsControl).               *)
(***************************************************************************)
EXTENDS Integers, Sequences, FiniteSets

CONSTANTS
  Conns,        \* client connections
  MaxConns,     \* size of s.sem
  Options,      \* what a server can be made with: proto, the package; auth,
                \* s.userPassAuth is set; udp, the dialer implements UDPDialer;
                \* limited, s.maxConns is positive; idle, s.idleTunnelTimeout is
  Commands      \* bound: requests SOCKS5 clients make

ASSUME ServerAssumption ==
  /\ IsFiniteSet(Conns)
  /\ MaxConns \in Nat \ {0}
  /\ Options \subseteq [proto : {"socks5", "http"}, auth : BOOLEAN, udp : BOOLEAN,
                       limited : BOOLEAN, idle : BOOLEAN]
  /\ Commands \subseteq {"connect", "udp", "other"}

VARIABLES
  opts,       \* the options of this server, which never change
  closed,     \* s.closed
  listening,  \* the listener is open
  acceptor,   \* where acceptLoop is
  pc,         \* where the handler of each connection is
  hung,       \* hung[c]: the client has gone away
  slots,      \* messages in s.sem
  active,     \* s.activeTunnels, which the HTTP proxy does not have
  upstream,   \* connections whose target has been dialled
  said        \* history: said[c], what the server answered on c

server == <<opts, closed, listening, acceptor>>
vars == <<opts, closed, listening, acceptor, pc, hung, slots, active, upstream, said>>

Handshake == {"auth", "creds", "request", "read"}
Dialling == {"dial", "reply", "bind", "dialUdp", "connect", "established", "forward"}
Serving == {"tunnel", "udp"}
Ending == {"pumped", "release"}
Holding == Handshake \cup Dialling \cup {"first"} \cup Serving \cup Ending

Init ==
  /\ opts \in Options
  /\ closed = FALSE
  /\ listening = FALSE
  /\ acceptor = "off"
  /\ pc = [c \in Conns |-> "new"]
  /\ hung = [c \in Conns |-> FALSE]
  /\ slots = 0
  /\ active = 0
  /\ upstream = {}
  /\ said = [c \in Conns |-> <<>>]

Goto(c, l) == pc' = [pc EXCEPT ![c] = l]
Say(c, m) == said' = [said EXCEPT ![c] = Append(@, m)]
-----------------------------------------------------------------------------
(* Start, Close and a successful Accept *)

\* Called once, before Close.
Start ==
  /\ acceptor = "off"
  /\ acceptor' = "accept"
  /\ listening' = TRUE
  /\ UNCHANGED <<opts, closed, pc, hung, slots, active, upstream, said>>

\* The flag under s.mu first; later calls return at once.
Close ==
  /\ acceptor # "off"
  /\ ~closed
  /\ closed' = TRUE
  /\ UNCHANGED <<opts, listening, acceptor, pc, hung, slots, active, upstream, said>>

CloseListener ==
  /\ closed /\ listening
  /\ listening' = FALSE
  /\ UNCHANGED <<opts, closed, acceptor, pc, hung, slots, active, upstream, said>>

\* Accept returns a connection; its handler starts.
Accept(c) ==
  /\ acceptor = "accept"
  /\ listening
  /\ pc[c] = "backlog"
  /\ Goto(c, "slot")
  /\ UNCHANGED <<server, hung, slots, active, upstream, said>>
-----------------------------------------------------------------------------
(* The client (external) *)

Connect(c) ==
  /\ pc[c] = "new"
  /\ listening
  /\ Goto(c, "backlog")
  /\ UNCHANGED <<server, hung, slots, active, upstream, said>>

HangUp(c) ==
  /\ pc[c] \notin {"new", "gone"}
  /\ ~hung[c]
  /\ hung' = [hung EXCEPT ![c] = TRUE]
  /\ UNCHANGED <<server, pc, slots, active, upstream, said>>
-----------------------------------------------------------------------------
(* handleConnection, handleConn: the slot *)

\* A server without a limit has no channel, and nothing is sent or received.
Token == IF opts.limited THEN 1 ELSE 0

FirstPhase == IF opts.proto = "socks5" THEN "auth" ELSE "read"

SlotTake(c) ==
  /\ pc[c] \in {"slot", "slotWait"}
  /\ slots < MaxConns \/ ~opts.limited
  /\ slots' = slots + Token
  /\ Goto(c, FirstPhase)
  /\ UNCHANGED <<server, hung, active, upstream, said>>

SlotBlock(c) ==
  /\ pc[c] = "slot"
  /\ opts.limited /\ slots = MaxConns
  /\ Goto(c, "slotWait")
  /\ UNCHANGED <<server, hung, slots, active, upstream, said>>

\* Deferred calls, last one first: the slot, then the client connection.
SlotRelease(c) ==
  /\ pc[c] = "release"
  /\ slots' = slots - Token
  /\ Goto(c, "shut")
  /\ UNCHANGED <<server, hung, active, upstream, said>>

Shut(c) ==
  /\ pc[c] = "shut"
  /\ Goto(c, "gone")
  /\ UNCHANGED <<server, hung, slots, active, upstream, said>>
-----------------------------------------------------------------------------
\* The deferred Close of the connection to the target.
StreamClose(c) ==
  /\ pc[c] = "pumped"
  /\ upstream' = upstream \ {c}
  /\ Goto(c, "release")
  /\ UNCHANGED <<server, hung, slots, active, said>>
=============================================================================
