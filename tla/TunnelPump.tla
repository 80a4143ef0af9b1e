----------------------------- MODULE TunnelPump -----------------------------
(***************************************************************************)
(* The bidirectional pump of a TCP tunnel: pumpTunnel of socks5 and        *)
(* pumpBidirectional of httpproxy, with the two connections, the           *)
(* applications behind them, the two copying goroutines, the idle watchdog *)
(* and the handler that waits for both copies and then closes.             *)
(*                                                                         *)
(* The two pumps differ in one thing, the connections they are able to     *)
(* half-close.  That set, the idle timeout and the bounds on what the      *)
(* applications do make up the variable tunnel, chosen at the start, so    *)
(* that one run checks every kind of tunnel.  A byte is its position in    *)
(* its direction; each connection's send buffer holds Window bytes.        *)
(***************************************************************************)
EXTENDS Integers, FiniteSetsExt

CONSTANTS
  Tunnels,      \* kinds of tunnel: idle, idleTimeout in ticks, 0 for none;
                \* half, the connections on which halfClose does something;
                \* bounds: bytes, how many an application sends; resets,
                \* whether applications may abort their connection
  Interval,     \* ticker period of the watchdog, max(idle / 2, 5s)
  Window        \* bytes a connection buffers towards its reader

Conns == {"client", "stream"}
Dirs == {"up", "down"}

Src(d) == IF d = "up" THEN "client" ELSE "stream"
Dst(d) == IF d = "up" THEN "stream" ELSE "client"
Back(d) == IF d = "up" THEN "down" ELSE "up"

ASSUME PumpAssumption ==
  /\ Tunnels \subseteq [idle : Nat, half : SUBSET Conns, bytes : Nat, resets : BOOLEAN]
  /\ Interval \in Nat \ {0}
  /\ \A t \in Tunnels : t.idle <= 2 * Interval
  /\ Window \in Nat \ {0}

VARIABLES
  tunnel,   \* the kind of this tunnel, which never changes
  put,      \* put[d]: bytes the source application has sent
  fin,      \* fin[d]: it has shut its sending side
  taken,    \* taken[d]: bytes io.Copy has read
  fwd,      \* fwd[d]: bytes io.Copy has written
  seen,     \* seen[d]: bytes the destination application has read
  sawEof,   \* sawEof[d]: it has read the end of the stream
  broken,   \* broken[c]: the application behind c aborted the connection
  wshut,    \* wshut[c]: the pump has half-closed c
  closed,   \* closed[c]: c.Close has been called
  copy,     \* copy[d]: where the copying goroutine of direction d is
  handler,  \* where the handler is
  wd,       \* where the watchdog is
  age,      \* ticks since lastActivity, up to one more than idle
  wdAge,    \* ticks since the watchdog's last tick
  lastUse   \* history: ticks since direction d last completed a write

apps == <<tunnel, put, fin, seen, sawEof, broken>>
conns == <<wshut, closed>>
clock == <<age, wdAge, lastUse>>
vars == <<tunnel, put, fin, taken, fwd, seen, sawEof, broken, wshut, closed,
          copy, handler, wd, age, wdAge, lastUse>>

Init ==
  /\ tunnel \in Tunnels
  /\ put = [d \in Dirs |-> 0]
  /\ fin = [d \in Dirs |-> FALSE]
  /\ taken = [d \in Dirs |-> 0]
  /\ fwd = [d \in Dirs |-> 0]
  /\ seen = [d \in Dirs |-> 0]
  /\ sawEof = [d \in Dirs |-> FALSE]
  /\ broken = [c \in Conns |-> FALSE]
  /\ wshut = [c \in Conns |-> FALSE]
  /\ closed = [c \in Conns |-> FALSE]
  /\ copy = [d \in Dirs |-> "read"]
  /\ handler = "wait"
  /\ wd = IF tunnel.idle > 0 THEN "run" ELSE "exit"
  /\ age = 0
  /\ wdAge = 0
  /\ lastUse = [d \in Dirs |-> 0]
-----------------------------------------------------------------------------
(* The applications behind the two connections (external) *)

AppSend(d) ==
  /\ put[d] < tunnel.bytes
  /\ put[d] - taken[d] < Window
  /\ ~fin[d] /\ ~broken[Src(d)] /\ ~closed[Src(d)]
  /\ put' = [put EXCEPT ![d] = @ + 1]
  /\ UNCHANGED <<tunnel, fin, taken, fwd, seen, sawEof, broken, conns, copy, handler, wd, clock>>

AppFin(d) ==
  /\ ~fin[d] /\ ~broken[Src(d)]
  /\ fin' = [fin EXCEPT ![d] = TRUE]
  /\ UNCHANGED <<tunnel, put, taken, fwd, seen, sawEof, broken, conns, copy, handler, wd, clock>>

AppRead(d) ==
  /\ seen[d] < fwd[d]
  /\ ~broken[Dst(d)]
  /\ seen' = [seen EXCEPT ![d] = @ + 1]
  /\ UNCHANGED <<tunnel, put, fin, taken, fwd, sawEof, broken, conns, copy, handler, wd, clock>>

AppEof(d) ==
  /\ seen[d] = fwd[d]
  /\ wshut[Dst(d)] \/ closed[Dst(d)]
  /\ ~broken[Dst(d)] /\ ~sawEof[d]
  /\ sawEof' = [sawEof EXCEPT ![d] = TRUE]
  /\ UNCHANGED <<tunnel, put, fin, taken, fwd, seen, broken, conns, copy, handler, wd, clock>>

AppReset(c) ==
  /\ tunnel.resets
  /\ ~broken[c]
  /\ broken' = [broken EXCEPT ![c] = TRUE]
  /\ UNCHANGED <<tunnel, put, fin, taken, fwd, seen, sawEof, conns, copy, handler, wd, clock>>
-----------------------------------------------------------------------------
(* The copying goroutine of one direction: io.Copy, then halfClose *)

Step(d, l) == copy' = [copy EXCEPT ![d] = l]

\* A copy that takes the end of the stream for granted once the source has shut
\* its side, whatever it has not read yet.
CopyReadFinFirst(d) ==
  /\ copy[d] = "read"
  /\ \/ /\ closed[Src(d)] \/ broken[Src(d)] \/ fin[d]
        /\ Step(d, "half")
        /\ UNCHANGED taken
     \/ /\ ~closed[Src(d)]
        /\ taken[d] < put[d]
        /\ taken' = [taken EXCEPT ![d] = @ + 1]
        /\ Step(d, "write")
  /\ UNCHANGED <<apps, fwd, conns, handler, wd, clock>>

\* Read: an error, the next byte, or the end of the stream once all is read.
CopyRead(d) ==
  /\ copy[d] = "read"
  /\ \/ /\ closed[Src(d)] \/ broken[Src(d)]
        /\ Step(d, "half")
        /\ UNCHANGED taken
     \/ /\ ~closed[Src(d)]
        /\ taken[d] < put[d]
        /\ taken' = [taken EXCEPT ![d] = @ + 1]
        /\ Step(d, "write")
     \/ /\ ~closed[Src(d)]
        /\ taken[d] = put[d]
        /\ fin[d]
        /\ Step(d, "half")
        /\ UNCHANGED taken
  /\ UNCHANGED <<apps, fwd, conns, handler, wd, clock>>

\* Write: an error, or the byte once the connection has room for it.
CopyWrite(d) ==
  /\ copy[d] = "write"
  /\ \/ /\ closed[Dst(d)] \/ broken[Dst(d)]
        /\ Step(d, "half")
        /\ UNCHANGED <<fwd, lastUse>>
     \/ /\ ~closed[Dst(d)] /\ ~broken[Dst(d)]
        /\ fwd[d] - seen[d] < Window
        /\ fwd' = [fwd EXCEPT ![d] = @ + 1]
        /\ lastUse' = [lastUse EXCEPT ![d] = 0]
        /\ Step(d, IF tunnel.idle > 0 THEN "mark" ELSE "read")
  /\ UNCHANGED <<apps, taken, conns, handler, wd, age, wdAge>>

\* Only the upload's writer is wrapped: the download does not count as activity.
CopyMarkUploadOnly(d) ==
  /\ copy[d] = "mark"
  /\ age' = IF d = "up" THEN 0 ELSE age
  /\ Step(d, "read")
  /\ UNCHANGED <<apps, taken, fwd, conns, handler, wd, wdAge, lastUse>>

\* activityWriter: the shared timestamp is stored, some time after the write.
CopyMark(d) ==
  /\ copy[d] = "mark"
  /\ age' = 0
  /\ Step(d, "read")
  /\ UNCHANGED <<apps, taken, fwd, conns, handler, wd, wdAge, lastUse>>

\* A pump that closes the connection instead of half-closing it.
CopyHalfCloses(d) ==
  /\ copy[d] = "half"
  /\ closed' = [closed EXCEPT ![Dst(d)] = TRUE]
  /\ Step(d, "done")
  /\ UNCHANGED <<apps, taken, fwd, wshut, handler, wd, clock>>

\* A pump that forgets to pass the end of the stream on.
CopyHalfNever(d) ==
  /\ copy[d] = "half"
  /\ Step(d, "done")
  /\ UNCHANGED <<apps, taken, fwd, conns, handler, wd, clock>>

\* halfClose of the destination, then the completion message.
CopyHalf(d) ==
  /\ copy[d] = "half"
  /\ wshut' = IF Dst(d) \in tunnel.half /\ ~closed[Dst(d)]
              THEN [wshut EXCEPT ![Dst(d)] = TRUE]
              ELSE wshut
  /\ Step(d, "done")
  /\ UNCHANGED <<apps, taken, fwd, closed, handler, wd, clock>>

Copy(d) == CopyRead(d) \/ CopyWrite(d) \/ CopyMark(d) \/ CopyHalf(d)
-----------------------------------------------------------------------------
(* The handler: two completions, then its deferred calls in reverse order *)

CloseConn(c) == closed' = [closed EXCEPT ![c] = TRUE]

\* Both copies have reported; close(done) stops the watchdog.
HandlerDone ==
  /\ handler = "wait"
  /\ \A d \in Dirs : copy[d] = "done"
  /\ handler' = "closeStream"
  /\ UNCHANGED <<apps, taken, fwd, conns, copy, wd, clock>>

HandlerCloseStream ==
  /\ handler = "closeStream"
  /\ CloseConn("stream")
  /\ handler' = "closeClient"
  /\ UNCHANGED <<apps, taken, fwd, wshut, copy, wd, clock>>

HandlerCloseClient ==
  /\ handler = "closeClient"
  /\ CloseConn("client")
  /\ handler' = "gone"
  /\ UNCHANGED <<apps, taken, fwd, wshut, copy, wd, clock>>

Handler == HandlerDone \/ HandlerCloseStream \/ HandlerCloseClient
-----------------------------------------------------------------------------
(* The watchdog *)

\* The ticker fires: too long without activity is the verdict to close.
WatchdogTick ==
  /\ wd = "run"
  /\ wdAge = Interval
  /\ wdAge' = 0
  /\ wd' = IF age > tunnel.idle THEN "closeClient" ELSE "run"
  /\ UNCHANGED <<apps, taken, fwd, conns, copy, handler, age, lastUse>>

\* A watchdog whose verdict ends the loop without closing the stream.
WatchdogClientOnly ==
  /\ wd = "closeClient"
  /\ CloseConn("client")
  /\ wd' = "exit"
  /\ UNCHANGED <<apps, taken, fwd, wshut, copy, handler, clock>>

WatchdogCloseClient ==
  /\ wd = "closeClient"
  /\ CloseConn("client")
  /\ wd' = "closeStream"
  /\ UNCHANGED <<apps, taken, fwd, wshut, copy, handler, clock>>

WatchdogCloseStream ==
  /\ wd = "closeStream"
  /\ CloseConn("stream")
  /\ wd' = "exit"
  /\ UNCHANGED <<apps, taken, fwd, wshut, copy, handler, clock>>

WatchdogStop ==
  /\ wd = "run"
  /\ handler # "wait"
  /\ wd' = "exit"
  /\ UNCHANGED <<apps, taken, fwd, conns, copy, handler, clock>>

Watchdog == WatchdogTick \/ WatchdogCloseClient \/ WatchdogCloseStream \/ WatchdogStop
-----------------------------------------------------------------------------
Older(n, limit) == IF n < limit THEN n + 1 ELSE n

\* Time passes: the ages saturate where nothing distinguishes them any more.
Tick ==
  /\ wd = "run"
  /\ age' = Older(age, tunnel.idle + 1)
  /\ wdAge' = Older(wdAge, Interval)
  /\ lastUse' = [d \in Dirs |-> Older(lastUse[d], tunnel.idle + 1)]
  /\ UNCHANGED <<apps, taken, fwd, conns, copy, handler, wd>>

\* The tunnel is over and both applications know it.
Over ==
  /\ handler = "gone"
  /\ wd = "exit"
  /\ UNCHANGED vars

Next ==
  \/ \E d \in Dirs : AppSend(d) \/ AppFin(d) \/ AppRead(d) \/ AppEof(d) \/ Copy(d)
  \/ \E c \in Conns : AppReset(c)
  \/ Handler \/ Watchdog \/ Tick \/ Over

Spec == Init /\ [][Next]_vars

\* The program's goroutines run whenever they can, and time passes.
ProgramFairness ==
  /\ \A d \in Dirs : WF_vars(Copy(d))
  /\ WF_vars(Handler)
  /\ WF_vars(WatchdogTick) /\ WF_vars(WatchdogCloseClient \/ WatchdogCloseStream)
  /\ SF_vars(WatchdogStop)
  /\ WF_vars(Tick)

FairSpec == Spec /\ ProgramFairness

\* An application that reads what it is sent and shuts its own side once it has
\* read the end of the other: what a request-response protocol does.  Nothing is
\* asked of the applications of a tunnel with a watchdog.
Polite(d) ==
  /\ WF_vars(tunnel.idle = 0 /\ AppRead(d))
  /\ WF_vars(tunnel.idle = 0 /\ AppEof(d))
  /\ WF_vars(tunnel.idle = 0 /\ sawEof[d] /\ AppFin(Back(d)))

PoliteSpec == FairSpec /\ \A d \in Dirs : Polite(d)
-----------------------------------------------------------------------------
(* Properties *)

\* Every variable stays in its domain.
TypeOK ==
  /\ tunnel \in Tunnels
  /\ fin \in [Dirs -> BOOLEAN]
  /\ sawEof \in [Dirs -> BOOLEAN]
  /\ broken \in [Conns -> BOOLEAN]
  /\ wshut \in [Conns -> BOOLEAN]
  /\ closed \in [Conns -> BOOLEAN]
  /\ copy \in [Dirs -> {"read", "write", "mark", "half", "done"}]
  /\ handler \in {"wait", "closeStream", "closeClient", "gone"}
  /\ wd \in {"run", "closeClient", "closeStream", "exit"}
  /\ age \in 0..(tunnel.idle + 1)
  /\ wdAge \in 0..Interval
  /\ lastUse \in [Dirs -> 0..(tunnel.idle + 1)]
  /\ put \in [Dirs -> 0..tunnel.bytes]
  /\ taken \in [Dirs -> Nat]
  /\ fwd \in [Dirs -> Nat]
  /\ seen \in [Dirs -> Nat]

\* An application that reads the end of the stream has read every byte the
\* other one sent before it shut its side, unless a connection was aborted or
\* a watchdog closes silent tunnels: closing one direction never cuts the other
\* (halfClose in the pumps, and closing only after both copies completed).
NoSilentTruncation ==
  \A d \in Dirs :
    (sawEof[d] /\ (\A c \in Conns : ~broken[c]) /\ tunnel.idle = 0)
      => fin[d] /\ seen[d] = put[d]

MostBytes == Max({t.bytes : t \in Tunnels})

\* With applications that read, every byte sent is delivered, also after the
\* other direction has ended.
DataGetsThrough ==
  \A d \in Dirs : \A k \in 1..MostBytes :
    (put[d] = k /\ tunnel.idle = 0) ~> (seen[d] >= k \/ \E c \in Conns : broken[c])

\* The end of either direction leads to the end of the tunnel when both
\* connections can be half-closed and the applications answer an end of stream
\* with their own.
EofEndsTunnel ==
  \A d \in Dirs :
    tunnel.half = Conns /\ (fin[d] \/ broken[Src(d)]) ~> handler = "gone"

\* The watchdog decides to close only when the last write of either direction is
\* older than the timeout.  Silence counts from the write itself, not from the
\* timestamp activityWriter stores later: the one write a verdict may overlook is
\* that of a goroutine still between its write and its store.
WatchdogCountsBothDirections ==
  [][wd = "run" /\ wd' = "closeClient" =>
       \A d \in Dirs : lastUse[d] > tunnel.idle \/ copy[d] = "mark"]_vars

\* The changelog's promise: a tunnel is closed only if both directions have been
\* silent for longer than the timeout, one with traffic is never cut by mistake.
\* The verdict overlooks a write not stored yet, and one made after the verdict.
OnlySilenceIsCut ==
  [][wd = "closeClient" /\ wd' = "closeStream" =>
       \A d \in Dirs : lastUse[d] > tunnel.idle]_vars

\* With an idle timeout the handler always gets away, whatever the
\* applications do, readers that stopped reading included; it takes with it
\* the tunnel's two goroutines and its watchdog.
IdleTunnelEnds ==
  tunnel.idle > 0 => <>(handler = "gone" /\ wd = "exit" /\ \A d \in Dirs : copy[d] = "done")

\* The comment of pumpBidirectional: after the end of either direction the peer
\* is half-closed, which guarantees the end-of-stream semantics.
EofReachesPeer ==
  \A d \in Dirs : fin[d] ~> (sawEof[d] \/ \E c \in Conns : broken[c])
=============================================================================
