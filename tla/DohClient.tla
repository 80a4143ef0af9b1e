------------------------------ MODULE DohClient ------------------------------
(***************************************************************************)
(* dns.DoHClient: callers that resolve a name by asking the DoH servers in *)
(* rotation, each twice at most and in two forms, and what they share, the *)
(* index of the server that answered last.  A request and its outcome are  *)
(* one step: nothing of the client changes while it is on the wire.        *)
(***************************************************************************)
EXTENDS Integers

CONSTANTS
  Callers,   \* goroutines that resolve
  N          \* len(d.dohURLs); NewDoHClient never makes it 0

ASSUME DohAssumption == N \in Nat \ {0}

Servers == 0..N - 1

\* An address (Resolve, ResolveA, ResolveAAAA), an HTTPS record (ResolveHTTPS,
\* GetECHConfig), or the latter by plain UDP (ResolveHTTPSUDP).
Kinds == {"address", "https", "udp"}

VARIABLES
  enabled,        \* d.enabled, which never changes
  lastServerIdx,  \* d.lastServerIdx, read and written atomically
  pc,             \* where each caller is
  kind,           \* what it resolves
  start,          \* startIdx
  offset,         \* the loop variable of Resolve
  attempt,        \* the loop variable of resolveWithServer
  asked,          \* history: servers it has sent a request to
  res,            \* how its last call returned
  answered        \* history: servers that have answered anybody

client == <<enabled, lastServerIdx>>
frame == <<kind, start, offset, attempt>>
vars == <<enabled, lastServerIdx, pc, kind, start, offset, attempt, asked, res, answered>>

Init ==
  /\ enabled \in BOOLEAN
  /\ lastServerIdx = 0
  /\ pc = [p \in Callers |-> "idle"]
  /\ kind = [p \in Callers |-> "address"]
  /\ start = [p \in Callers |-> 0]
  /\ offset = [p \in Callers |-> 0]
  /\ attempt = [p \in Callers |-> 0]
  /\ asked = [p \in Callers |-> {}]
  /\ res = [p \in Callers |-> "none"]
  /\ answered = {}

Goto(p, l) == pc' = [pc EXCEPT ![p] = l]

Return(p, r) ==
  /\ Goto(p, "idle")
  /\ res' = [res EXCEPT ![p] = r]

\* i of the loop: the server p asks.
At(p) == (start[p] + offset[p]) % N
-----------------------------------------------------------------------------
(* Resolve *)

Call(p) ==
  /\ pc[p] = "idle"
  /\ \E k \in Kinds :
       /\ kind' = [kind EXCEPT ![p] = k]
       /\ \/ /\ k # "udp" /\ ~enabled
             /\ Return(p, "disabled")
          \/ /\ k # "udp" /\ enabled
             /\ Goto(p, "rfc8484")
             /\ res' = [res EXCEPT ![p] = "none"]
          \/ /\ k = "udp"
             /\ Goto(p, "udp")
             /\ res' = [res EXCEPT ![p] = "none"]
  /\ start' = [start EXCEPT ![p] = lastServerIdx % N]
  /\ offset' = [offset EXCEPT ![p] = 0]
  /\ attempt' = [attempt EXCEPT ![p] = 0]
  /\ asked' = [asked EXCEPT ![p] = {}]
  /\ UNCHANGED <<client, answered>>

\* A loop that computes its server from the index as it is now.
NextServerRereads(p) ==
  /\ pc[p] = "next"
  /\ \/ /\ offset[p] + 1 < N
        /\ start' = [start EXCEPT ![p] = lastServerIdx % N]
        /\ offset' = [offset EXCEPT ![p] = @ + 1]
        /\ attempt' = [attempt EXCEPT ![p] = 0]
        /\ Goto(p, "rfc8484")
        /\ UNCHANGED res
     \/ /\ offset[p] + 1 = N
        /\ Return(p, "failed")
        /\ UNCHANGED <<start, offset, attempt>>
  /\ UNCHANGED <<client, kind, asked, answered>>

\* The server has failed: the next one, with a context of its own, or an error
\* once all have been asked.
NextServer(p) ==
  /\ pc[p] = "next"
  /\ \/ /\ offset[p] + 1 < N
        /\ offset' = [offset EXCEPT ![p] = @ + 1]
        /\ attempt' = [attempt EXCEPT ![p] = 0]
        /\ Goto(p, "rfc8484")
        /\ UNCHANGED res
     \/ /\ offset[p] + 1 = N
        /\ Return(p, "failed")
        /\ UNCHANGED <<offset, attempt>>
  /\ UNCHANGED <<client, kind, start, asked, answered>>

\* After a success: an address is the result, a record must be parsed first.
Succeed(p) ==
  \/ /\ kind[p] = "address"
     /\ Return(p, "ok")
  \/ /\ kind[p] = "https"
     /\ Goto(p, "record")
     /\ UNCHANGED res

\* An index that is stored as it counts the loop.
StoreOffset(p) ==
  /\ pc[p] = "store"
  /\ lastServerIdx' = offset[p]
  /\ Succeed(p)
  /\ UNCHANGED <<enabled, frame, asked, answered>>

\* The server that answered becomes the first to be asked.
Store(p) ==
  /\ pc[p] = "store"
  /\ lastServerIdx' = IF At(p) # start[p] THEN At(p) ELSE lastServerIdx
  /\ Succeed(p)
  /\ UNCHANGED <<enabled, frame, asked, answered>>

\* parseHTTPSRecord, and for GetECHConfig the test for an ECH configuration: a
\* record that fails here is not asked for anywhere else.
Record(p) ==
  /\ pc[p] = "record"
  /\ \E r \in {"ok", "no record"} : Return(p, r)
  /\ UNCHANGED <<client, frame, asked, answered>>
-----------------------------------------------------------------------------
(* resolveWithServer and resolveAttempt *)

Ask(p) == asked' = [asked EXCEPT ![p] = @ \cup {At(p)}]

Answer(p) ==
  /\ answered' = answered \cup {At(p)}
  /\ Goto(p, "store")

\* The binary form.  An error that is not the end of the context leads to the
\* JSON form, whatever it is.
Rfc8484(p) ==
  /\ pc[p] = "rfc8484"
  /\ Ask(p)
  /\ \/ Answer(p)
     \/ \E l \in {"json", "next"} : Goto(p, l) /\ UNCHANGED answered
  /\ UNCHANGED <<client, frame, res>>

\* The JSON form.  An error of TLS or of the connection is worth one retry.
Json(p) ==
  /\ pc[p] = "json"
  /\ \/ Answer(p)
     \/ /\ attempt[p] = 0
        /\ Goto(p, "backoff")
        /\ UNCHANGED answered
     \/ /\ Goto(p, "next")
        /\ UNCHANGED answered
  /\ UNCHANGED <<client, frame, asked, res>>

\* A retry that does not count as an attempt.
BackoffUncounted(p) ==
  /\ pc[p] = "backoff"
  /\ \E l \in {"rfc8484", "next"} : Goto(p, l)
  /\ UNCHANGED <<client, frame, asked, res, answered>>

\* 100 ms, or the end of the context.
Backoff(p) ==
  /\ pc[p] = "backoff"
  /\ \/ /\ attempt' = [attempt EXCEPT ![p] = @ + 1]
        /\ Goto(p, "rfc8484")
     \/ /\ Goto(p, "next")
        /\ UNCHANGED attempt
  /\ UNCHANGED <<client, kind, start, offset, asked, res, answered>>

\* ResolveHTTPSUDP: one datagram each way, one deadline, no retry; it asks
\* whether or not DoH is enabled.
ResolveHTTPSUDP(p) ==
  /\ pc[p] = "udp"
  /\ \E r \in {"ok", "no record", "failed"} : Return(p, r)
  /\ UNCHANGED <<client, frame, asked, answered>>
-----------------------------------------------------------------------------
Proceed(p) ==
  NextServer(p) \/ Store(p) \/ Record(p) \/ Rfc8484(p) \/ Json(p) \/ Backoff(p)
    \/ ResolveHTTPSUDP(p)

Next == \E p \in Callers : Call(p) \/ Proceed(p)

Spec == Init /\ [][Next]_vars

\* Every request ends, by the deadline of its server's context or of its socket.
FairSpec == Spec /\ \A p \in Callers : WF_vars(Proceed(p))
-----------------------------------------------------------------------------
(* Properties *)

PCs == {"idle", "rfc8484", "json", "backoff", "next", "store", "record", "udp"}
Results == {"none", "ok", "failed", "no record", "disabled"}

\* Every variable stays in its domain; a server is tried twice at most.
TypeOK ==
  /\ enabled \in BOOLEAN
  /\ lastServerIdx \in Servers
  /\ pc \in [Callers -> PCs]
  /\ kind \in [Callers -> Kinds]
  /\ start \in [Callers -> Servers]
  /\ offset \in [Callers -> Servers]
  /\ attempt \in [Callers -> 0..1]
  /\ asked \in [Callers -> SUBSET Servers]
  /\ res \in [Callers -> Results]
  /\ answered \subseteq Servers

\* Resolve reports that all DoH servers failed only when this very call has
\* asked every one of them, wherever its rotation began and however other calls
\* moved the index meanwhile.
AllServersTried ==
  \A p \in Callers :
    res[p] = "failed" /\ kind[p] # "udp" => asked[p] = Servers

\* The index names a server that has answered, or the first one: it never
\* sends callers to a server nobody has had an answer from (Resolve).
IndexHasAnswered == lastServerIdx \in answered \cup {0}

\* Every call returns, with servers that hang, refuse or break off.
ResolveReturns == \A p \in Callers : pc[p] # "idle" ~> pc[p] = "idle"
=============================================================================
