---------------------------- MODULE MCTunnelPump ----------------------------
(* The tunnels of socks5, and those of httpproxy in front of a stream that *)
(* is no *net.TCPConn, without and with a watchdog.                        *)
EXTENDS TunnelPump

MCTunnels ==
  [idle : {0}, half : {Conns, {"client"}}, bytes : {2}, resets : {TRUE}]
    \cup [idle : {2}, half : {Conns, {"client"}}, bytes : {1}, resets : {FALSE}]
MCHttpTunnels == [idle : {0}, half : {{"client"}}, bytes : {1}, resets : {FALSE}]
=============================================================================
