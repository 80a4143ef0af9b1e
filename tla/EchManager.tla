----------------------------- MODULE EchManager -----------------------------
(***************************************************************************)
(* ech.EchManager for its one cache key, echDomain: the cache behind       *)
(* em.mu, the table of running queries behind em.flightMu, callers of      *)
(* GetTlsConfig, Refresh, CacheConfig, ClearCache and CleanupExpired, and  *)
(* the auto-refresh goroutine.  Each critical section, network query and   *)
(* channel operation is a step.                                            *)
(*                                                                         *)
(* An entry carries the ticks of the clock it has left; what an entry      *)
(* holds besides is one configuration, since no step looks into it.        *)
(***************************************************************************)
EXTENDS Integers, Sequences, FiniteSets

CONSTANTS
  Callers,      \* goroutines that call the manager
  Loop,         \* the goroutine of autoRefreshLoop
  TTL,          \* cacheTTL, in ticks of the clock
  MaxFlights,   \* bound: queries started by getECHConfig
  NoEntry,      \* no cache entry
  Config,       \* an ECH configuration list
  Unset,        \* the zero value of f.cfg and f.err
  Failed        \* a query error, for a caller of GetTlsConfig standard TLS

Procs == Callers \cup {Loop}

ASSUME EchAssumption ==
  /\ Loop \notin Callers
  /\ TTL \in Nat \ {0}
  /\ MaxFlights \in Nat
  /\ Unset \notin {Config, Failed} /\ Config # Failed
  /\ NoEntry \notin [left : Int, by : {"get", "refresh", "inject"}]

VARIABLES
  cache,      \* em.cache[echDomain]
  inflight,   \* em.inflight[echDomain] as an index of flights, 0 when absent
  flights,    \* every inflightFetch made: its done channel and its result
  stopped,    \* em.stopChan is closed
  pc,         \* where each goroutine is
  job,        \* "get" or "refresh": on whose behalf it runs fetchAndCache
  ent,        \* the cache entry a Get has read
  fl,         \* the flight a Get leads or waits for
  ans         \* the answer of the query it runs

state == <<cache, inflight, flights>>
locals == <<job, ent, fl, ans>>
vars == <<cache, inflight, flights, stopped, pc, job, ent, fl, ans>>

LeaderPCs == {"doh", "udp", "store", "publish", "signal", "unflight"}
PCs == {"idle", "check", "flight", "wait", "tick", "exit"} \cup LeaderPCs

Init ==
  /\ cache = NoEntry
  /\ inflight = 0
  /\ flights = <<>>
  /\ stopped = FALSE
  /\ pc = [p \in Procs |-> IF p = Loop THEN "tick" ELSE "idle"]
  /\ job = [p \in Procs |-> "none"]
  /\ ent = [p \in Procs |-> NoEntry]
  /\ fl = [p \in Procs |-> 0]
  /\ ans = [p \in Procs |-> Unset]

Goto(p, l) == pc' = [pc EXCEPT ![p] = l]

Home(p) == IF p = Loop THEN "tick" ELSE "idle"

\* The call of p returns: nothing of its frame is left.
Return(p) ==
  /\ Goto(p, Home(p))
  /\ job' = [job EXCEPT ![p] = "none"]
  /\ ent' = [ent EXCEPT ![p] = NoEntry]
  /\ fl' = [fl EXCEPT ![p] = 0]
  /\ ans' = [ans EXCEPT ![p] = Unset]
-----------------------------------------------------------------------------
(* getECHConfig, called by GetTlsConfig *)

\* The cache is read under the read lock, and judged after it is released.
GetCall(p) ==
  /\ p \in Callers
  /\ pc[p] = "idle"
  /\ Len(flights) < MaxFlights
  /\ job' = [job EXCEPT ![p] = "get"]
  /\ ent' = [ent EXCEPT ![p] = cache]
  /\ Goto(p, "check")
  /\ UNCHANGED <<state, stopped, fl, ans>>

\* time.Now().Before(entry.expiresAt)
Live(e) == e # NoEntry /\ e.left > 0

GetCheck(p) ==
  /\ pc[p] = "check"
  /\ \/ /\ Live(ent[p])
        /\ Return(p)
     \/ /\ ~Live(ent[p])
        /\ Goto(p, "flight")
        /\ UNCHANGED locals
  /\ UNCHANGED <<state, stopped>>

\* A leader that registers its flight whether or not one is running.
GetFlightAlwaysLeads(p) ==
  /\ pc[p] = "flight"
  /\ flights' = Append(flights, [closed |-> FALSE, res |-> Unset])
  /\ inflight' = Len(flights) + 1
  /\ fl' = [fl EXCEPT ![p] = Len(flights) + 1]
  /\ Goto(p, "doh")
  /\ ent' = [ent EXCEPT ![p] = NoEntry]
  /\ UNCHANGED <<cache, stopped, job, ans>>

\* The critical section of flightMu: join the running flight or lead a new one.
GetFlight(p) ==
  /\ pc[p] = "flight"
  /\ \/ /\ inflight # 0
        /\ fl' = [fl EXCEPT ![p] = inflight]
        /\ Goto(p, "wait")
        /\ UNCHANGED <<inflight, flights>>
     \/ /\ inflight = 0
        /\ flights' = Append(flights, [closed |-> FALSE, res |-> Unset])
        /\ inflight' = Len(flights) + 1
        /\ fl' = [fl EXCEPT ![p] = Len(flights) + 1]
        /\ Goto(p, "doh")
  /\ ent' = [ent EXCEPT ![p] = NoEntry]
  /\ UNCHANGED <<cache, stopped, job, ans>>

GetWait(p) ==
  /\ pc[p] = "wait"
  /\ flights[fl[p]].closed
  /\ Return(p)
  /\ UNCHANGED <<state, stopped>>

\* A leader that wakes the waiters before it has written the result.
GetPublishAfterSignal(p) ==
  /\ pc[p] = "publish"
  /\ flights' = [flights EXCEPT ![fl[p]].closed = TRUE]
  /\ Goto(p, "signal")
  /\ UNCHANGED <<cache, inflight, stopped, locals>>

\* f.cfg, f.err = cfg, err
GetPublish(p) ==
  /\ pc[p] = "publish"
  /\ flights' = [flights EXCEPT ![fl[p]].res = ans[p]]
  /\ Goto(p, "signal")
  /\ UNCHANGED <<cache, inflight, stopped, locals>>

\* close(f.done)
GetSignal(p) ==
  /\ pc[p] = "signal"
  /\ flights' = [flights EXCEPT ![fl[p]].closed = TRUE]
  /\ Goto(p, "unflight")
  /\ UNCHANGED <<cache, inflight, stopped, locals>>

GetUnflight(p) ==
  /\ pc[p] = "unflight"
  /\ inflight' = 0
  /\ Return(p)
  /\ UNCHANGED <<cache, flights, stopped>>
-----------------------------------------------------------------------------
(* fetchAndCache, shared by getECHConfig and Refresh *)

\* A DoH server answers with a configuration, or all of them fail.
FetchDoH(p) ==
  /\ pc[p] = "doh"
  /\ \/ /\ ans' = [ans EXCEPT ![p] = Config]
        /\ Goto(p, "store")
     \/ /\ Goto(p, "udp")
        /\ UNCHANGED ans
  /\ UNCHANGED <<state, stopped, job, ent, fl>>

FetchUDP(p) ==
  /\ pc[p] = "udp"
  /\ \E a \in {Config, Failed} : ans' = [ans EXCEPT ![p] = a]
  /\ Goto(p, "store")
  /\ UNCHANGED <<state, stopped, job, ent, fl>>

\* A failed fetch that leaves getECHConfig before it has told its waiters.
FetchStoreEarlyReturn(p) ==
  /\ pc[p] = "store"
  /\ \/ /\ ans[p] = Failed
        /\ UNCHANGED cache
     \/ /\ ans[p] # Failed
        /\ cache' = [left |-> TTL, by |-> job[p]]
  /\ \/ /\ job[p] = "get" /\ ans[p] # Failed
        /\ Goto(p, "publish")
        /\ UNCHANGED locals
     \/ /\ job[p] = "refresh" \/ ans[p] = Failed
        /\ Return(p)
  /\ UNCHANGED <<inflight, flights, stopped>>

FetchStore(p) ==
  /\ pc[p] = "store"
  /\ \/ /\ ans[p] = Failed
        /\ UNCHANGED cache
     \/ /\ ans[p] # Failed
        /\ cache' = [left |-> TTL, by |-> job[p]]
  /\ \/ /\ job[p] = "get"
        /\ Goto(p, "publish")
        /\ UNCHANGED locals
     \/ /\ job[p] = "refresh"
        /\ Return(p)
  /\ UNCHANGED <<inflight, flights, stopped>>
-----------------------------------------------------------------------------
(* Refresh and the auto-refresh goroutine *)

\* Drops the entry first; the fetch that follows does not use the flight table.
Refresh(p) ==
  /\ cache' = NoEntry
  /\ job' = [job EXCEPT ![p] = "refresh"]
  /\ Goto(p, "doh")
  /\ UNCHANGED <<inflight, flights, stopped, ent, fl, ans>>

RefreshCall(p) ==
  /\ p \in Callers
  /\ pc[p] = "idle"
  /\ Refresh(p)

LoopTick ==
  /\ pc[Loop] = "tick"
  /\ Refresh(Loop)

\* A loop that only looks at stopChan when the ticker has nothing for it.
LoopStopIgnored ==
  /\ pc[Loop] = "tick"
  /\ stopped
  /\ UNCHANGED vars

LoopStop ==
  /\ pc[Loop] = "tick"
  /\ stopped
  /\ Goto(Loop, "exit")
  /\ UNCHANGED <<state, stopped, locals>>

\* A second call would panic: the callers stop the loop once.
StopAutoRefresh ==
  /\ ~stopped
  /\ stopped' = TRUE
  /\ UNCHANGED <<state, pc, locals>>
-----------------------------------------------------------------------------
(* The other operations, each one critical section of em.mu *)

ClearCache ==
  /\ cache' = NoEntry
  /\ UNCHANGED <<inflight, flights, stopped, pc, locals>>

\* now.After(entry.expiresAt): an entry with no tick left is not live any more
\* and not yet removed.
CleanupExpired ==
  /\ cache # NoEntry
  /\ cache.left < 0
  /\ cache' = NoEntry
  /\ UNCHANGED <<inflight, flights, stopped, pc, locals>>

\* A configuration fetched by other means, before the first Get.
CacheConfig ==
  /\ cache' = [left |-> TTL, by |-> "inject"]
  /\ UNCHANGED <<inflight, flights, stopped, pc, locals>>
-----------------------------------------------------------------------------
(* Environment *)

Older(e) ==
  IF e = NoEntry THEN e ELSE [e EXCEPT !.left = IF @ < 0 THEN @ ELSE @ - 1]

\* Time passes for the cached entry and for the copies that were read of it.
Tick ==
  /\ cache' = Older(cache)
  /\ ent' = [p \in Procs |-> Older(ent[p])]
  /\ UNCHANGED <<inflight, flights, stopped, pc, job, fl, ans>>
-----------------------------------------------------------------------------
Fetch(p) == FetchDoH(p) \/ FetchUDP(p) \/ FetchStore(p)

\* The steps of a goroutine that is inside a call.
Proceed(p) ==
  GetCheck(p) \/ GetFlight(p) \/ GetWait(p) \/ GetPublish(p) \/ GetSignal(p)
    \/ GetUnflight(p) \/ Fetch(p)

Next ==
  \/ \E p \in Procs : GetCall(p) \/ RefreshCall(p) \/ Proceed(p)
  \/ LoopTick \/ LoopStop \/ StopAutoRefresh
  \/ ClearCache \/ CleanupExpired \/ CacheConfig
  \/ Tick

Spec == Init /\ [][Next]_vars

\* Goroutines inside a call run, and queries end because every DoH and UDP
\* request has a timeout.  Go's select chooses among ready cases at random, so a
\* stop that stays ready is chosen in the end (strong fairness); nobody is
\* obliged to call, and the clock does not have to move.
FairSpec ==
  /\ Spec
  /\ \A p \in Procs : WF_vars(Proceed(p))
  /\ SF_vars(LoopStop)
-----------------------------------------------------------------------------
(* Properties *)

Entry == [left : -1..TTL, by : {"get", "refresh", "inject"}]
Answer == {Config, Failed, Unset}
Flight == [closed : BOOLEAN, res : Answer]

StateTypeOK ==
  /\ cache \in Entry \cup {NoEntry}
  /\ flights \in Seq(Flight)
  /\ inflight \in 0..Len(flights)
  /\ stopped \in BOOLEAN

LocalTypeOK ==
  /\ pc \in [Procs -> PCs]
  /\ job \in [Procs -> {"none", "get", "refresh"}]
  /\ ent \in [Procs -> Entry \cup {NoEntry}]
  /\ fl \in [Procs -> 0..Len(flights)]
  /\ ans \in [Procs -> Answer]
  /\ \A p \in Procs : pc[p] = "wait" => fl[p] # 0

\* Every variable stays in its domain; a goroutine that waits for a flight
\* names one that exists (the pointer f of getECHConfig is never nil).
TypeOK == StateTypeOK /\ LocalTypeOK

Leads(p) == job[p] = "get" /\ pc[p] \in LeaderPCs

\* A registered flight has exactly one leader at work, and without one no Get
\* is querying: queries of two Gets never run at the same time, and a failed or
\* finished query is always taken out of the table again (getECHConfig).
SingleFlight ==
  /\ \A p \in Procs : Leads(p) => inflight # 0 /\ fl[p] = inflight
  /\ \A p, q \in Procs : Leads(p) /\ Leads(q) => p = q
  /\ inflight # 0 => \E p \in Procs : Leads(p)

\* Nobody waits for a flight that no one will finish: its channel is closed or
\* its leader is still on the way to closing it (getECHConfig's <-f.done).
NoWaiterStranded ==
  \A p \in Procs : pc[p] = "wait" =>
    \/ flights[fl[p]].closed
    \/ \E q \in Procs : Leads(q) /\ fl[q] = fl[p] /\ pc[q] # "unflight"

\* A waiter never reads the result before the leader has written it: with the
\* zero values it would report success and hand TLS an empty ECH list.
NoUnsetResult ==
  \A i \in 1..Len(flights) : flights[i].closed => flights[i].res # Unset

\* Every GetTlsConfig returns, whoever runs its query and however it ends.
GetReturns ==
  \A p \in Callers : (job[p] = "get" /\ pc[p] # "idle") ~> pc[p] = "idle"

\* After StopAutoRefresh the loop ends, even when a refresh is under way or the
\* ticker keeps firing (autoRefreshLoop).
LoopEnds == stopped ~> pc[Loop] = "exit"

\* The comment over the flight table: concurrent Gets of one domain query the
\* network once.  A Get that read the cache before another Get filled it
\* must not start a second query while that entry is good.  It does not hold
\* (see the README).
ConcurrentGetsQueryOnce ==
  [][\A p \in Procs :
       pc[p] = "flight" /\ pc'[p] = "doh" =>
         ~(Live(cache) /\ cache.by = "get")]_vars
=============================================================================
