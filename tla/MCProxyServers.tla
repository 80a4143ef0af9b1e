--------------------------- MODULE MCProxyServers ---------------------------
(* Two connections and one slot.  MCOptions: a SOCKS5 server with and      *)
(* without authentication, UDP and an idle timeout, an HTTP proxy with     *)
(* authentication and an idle timeout, and one with none of the options.   *)
EXTENDS ProxyServers

CONSTANTS k1, k2

Made(p, a, u, l, i) == [proto |-> p, auth |-> a, udp |-> u, limited |-> l, idle |-> i]

MCConns == {k1, k2}
MCOptions ==
  {Made("socks5", TRUE, TRUE, TRUE, TRUE), Made("socks5", FALSE, FALSE, TRUE, FALSE),
   Made("http", TRUE, FALSE, TRUE, TRUE), Made("http", FALSE, FALSE, FALSE, FALSE)}
=============================================================================
