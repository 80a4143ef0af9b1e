------------------------------ MODULE DnsCache ------------------------------
(***************************************************************************)
(* dns.DNSCache for one domain: its entries of type A, AAAA and HTTPS      *)
(* behind dc.mu, callers of the resolving operations and the cleaning      *)
(* goroutine.  A query of the DoH client is one step (see DohClient); the  *)
(* hit and miss counters, which only GetStats reads, are left out.         *)
(*                                                                         *)
(* Callers resolve A and AAAA as addresses and HTTPS as a record: an HTTPS *)
(* entry is written by SetHTTPS only and an address entry by Set only.     *)
(***************************************************************************)
EXTENDS Integers

CONSTANTS
  Callers,   \* goroutines that resolve
  TTL,       \* dc.ttl, in ticks of the clock
  MaxLag,    \* bound: ticks between cleanup's time.Now and its lock
  NoEntry    \* no cache entry

Types == {"A", "AAAA", "HTTPS"}
MinLeft == -1 - MaxLag

\* What an entry holds: an address of a family, or a record with or without an
\* ECH configuration; and the ticks until it expires.
Values == {"v4", "v6", "ech", "plain"}
Entry == [left : MinLeft..TTL, val : Values]

ASSUME CacheAssumption ==
  /\ TTL \in Nat \ {0}
  /\ MaxLag \in Nat
  /\ NoEntry \notin [left : Int, val : Values]

VARIABLES
  enabled,   \* dohClient.enabled, which never changes
  cache,     \* dc.cache
  pc,        \* where each caller is
  job,       \* the operation it runs
  key,       \* the type it looks up
  found,     \* types for which its LookupIPs has an address
  missed,    \* history: sources that had nothing for its call
  closed,    \* dc.stopCleanup is closed
  cleaner,   \* where cleanupLoop is
  lag        \* ticks since the cleanup's now

vars == <<enabled, cache, pc, job, key, found, missed, closed, cleaner, lag>>
cleaning == <<closed, cleaner, lag>>

\* ResolveAny, LookupIPs, ResolveHTTPS and GetECHConfig; the first two run
\* ResolveCached for A and AAAA.
Jobs == {"any", "lookup", "https", "ech"}

Init ==
  /\ enabled \in BOOLEAN
  /\ cache = [k \in Types |-> NoEntry]
  /\ pc = [p \in Callers |-> "idle"]
  /\ job = [p \in Callers |-> "none"]
  /\ key = [p \in Callers |-> "A"]
  /\ found = [p \in Callers |-> {}]
  /\ missed = [p \in Callers |-> {}]
  /\ closed = FALSE
  /\ cleaner = "tick"
  /\ lag = 0

Goto(p, l) == pc' = [pc EXCEPT ![p] = l]

\* The call returns its result: nothing of its frame is left.
Return(p) ==
  /\ Goto(p, "idle")
  /\ job' = [job EXCEPT ![p] = "none"]
  /\ key' = [key EXCEPT ![p] = "A"]
  /\ found' = [found EXCEPT ![p] = {}]
  /\ missed' = [missed EXCEPT ![p] = {}]

\* The call returns an error, for want of source s or of an ECH configuration.
ReturnError(p, s) ==
  /\ Goto(p, "failed")
  /\ missed' = [missed EXCEPT ![p] = @ \cup s]
  /\ UNCHANGED <<job, key, found>>

\* On to the next step of the same call, for type k, with s found missing.
Continue(p, l, k, s) ==
  /\ Goto(p, l)
  /\ key' = [key EXCEPT ![p] = k]
  /\ missed' = [missed EXCEPT ![p] = @ \cup s]
  /\ UNCHANGED <<job, found>>
-----------------------------------------------------------------------------
(* The operations *)

\* LookupIPs does not look into the cache when DoH is off.
Call(p) ==
  /\ pc[p] \in {"idle", "failed"}
  /\ \E j \in Jobs :
       /\ job' = [job EXCEPT ![p] = j]
       /\ key' = [key EXCEPT ![p] = IF j \in {"https", "ech"} THEN "HTTPS" ELSE "A"]
       /\ Goto(p, IF j = "lookup" /\ ~enabled THEN "system"
                  ELSE IF j = "ech" THEN "getEch" ELSE "get")
  /\ found' = [found EXCEPT ![p] = {}]
  /\ missed' = [missed EXCEPT ![p] = {}]
  /\ UNCHANGED <<enabled, cache, cleaning>>

\* A type of the call is resolved with value v.
Hit(p, v) ==
  \/ /\ job[p] \in {"any", "https"} \/ key[p] = "AAAA" \/ v = "ech"
     /\ Return(p)
  \/ /\ job[p] = "lookup" /\ key[p] = "A"
     /\ Goto(p, "get")
     /\ key' = [key EXCEPT ![p] = "AAAA"]
     /\ found' = [found EXCEPT ![p] = {"A"}]
     /\ UNCHANGED <<job, missed>>
  \/ /\ job[p] = "ech" /\ v = "plain"
     /\ ReturnError(p, {})

\* A ResolveAny that goes from A straight to the system's resolver.
FailSkipsAAAA(p) ==
  \/ /\ job[p] = "lookup" /\ key[p] = "A"
     /\ Continue(p, "get", "AAAA", {"A"})
  \/ /\ job[p] = "any" \/ key[p] = "AAAA"
     /\ found[p] = {}
     /\ Continue(p, "system", "AAAA", {key[p]})
  \/ /\ found[p] # {} /\ key[p] = "AAAA"
     /\ Return(p)
  \/ /\ key[p] = "HTTPS"
     /\ ReturnError(p, {"HTTPS"})

\* The DoH client has nothing for it: ResolveAny and LookupIPs go on to AAAA,
\* then to the system's resolver, the second if it has no address at all.
Fail(p) ==
  \/ /\ key[p] = "A"
     /\ Continue(p, "get", "AAAA", {"A"})
  \/ /\ key[p] = "AAAA" /\ found[p] = {}
     /\ Continue(p, "system", "AAAA", {"AAAA"})
  \/ /\ key[p] = "AAAA" /\ found[p] # {}
     /\ Return(p)
  \/ /\ key[p] = "HTTPS"
     /\ ReturnError(p, {"HTTPS"})

\* time.Now().After(entry.ExpiresAt)
Expired(k) == cache[k] # NoEntry /\ cache[k].left < 0

\* A look into the cache under its lock, which drops an expired entry.
Look(k) ==
  cache' = IF Expired(k) THEN [cache EXCEPT ![k] = NoEntry] ELSE cache

Served(k) == cache[k] # NoEntry /\ ~Expired(k)

\* Get, and GetHTTPS within ResolveHTTPS.
Get(p) ==
  /\ pc[p] = "get"
  /\ Look(key[p])
  /\ \/ /\ Served(key[p])
        /\ Hit(p, cache[key[p]].val)
     \/ /\ ~Served(key[p])
        /\ Continue(p, "query", key[p], {})
  /\ UNCHANGED <<enabled, cleaning>>

\* A GetECHConfig that tries again on a record without ECH.
GetEchRepeats(p) ==
  /\ pc[p] = "getEch"
  /\ Look("HTTPS")
  /\ \/ /\ Served("HTTPS") /\ cache["HTTPS"].val = "ech"
        /\ Return(p)
     \/ /\ Served("HTTPS") /\ cache["HTTPS"].val = "plain"
        /\ Continue(p, "getEch", "HTTPS", {})
     \/ /\ ~Served("HTTPS")
        /\ Continue(p, "get", "HTTPS", {})
  /\ UNCHANGED <<enabled, cleaning>>

\* The first GetHTTPS of GetECHConfig; without an ECH configuration there,
\* ResolveHTTPS looks a second time before it queries.
GetEch(p) ==
  /\ pc[p] = "getEch"
  /\ Look("HTTPS")
  /\ \/ /\ Served("HTTPS") /\ cache["HTTPS"].val = "ech"
        /\ Return(p)
     \/ /\ ~(Served("HTTPS") /\ cache["HTTPS"].val = "ech")
        /\ Continue(p, "get", "HTTPS", {})
  /\ UNCHANGED <<enabled, cleaning>>

\* dohClient.Resolve or ResolveHTTPS, outside the lock; it fails when DoH is off.
Query(p) ==
  /\ pc[p] = "query"
  /\ \/ /\ enabled
        /\ Continue(p, "set", key[p], {})
     \/ Fail(p)
  /\ UNCHANGED <<enabled, cache, cleaning>>

\* What a server answers for a type.
Answers(k) ==
  CASE k = "A" -> {"v4"} [] k = "AAAA" -> {"v6"} [] k = "HTTPS" -> {"ech", "plain"}

Write(k, v) == cache' = [cache EXCEPT ![k] = [left |-> TTL, val |-> v]]

\* Set or SetHTTPS, and the return of the answer.
Set(p) ==
  /\ pc[p] = "set"
  /\ \E v \in Answers(key[p]) : Write(key[p], v) /\ Hit(p, v)
  /\ UNCHANGED <<enabled, cleaning>>

\* LookupIP, the system's resolver.  ResolveAny keeps its first address.
System(p) ==
  /\ pc[p] = "system"
  /\ \/ ReturnError(p, {"system"})
     \/ /\ job[p] = "any"
        /\ \E k \in {"A", "AAAA"} : Continue(p, "sysSet", k, {})
     \/ /\ job[p] = "lookup"
        /\ Return(p)
  /\ UNCHANGED <<enabled, cache, cleaning>>

Family(k) == IF k = "A" THEN "v4" ELSE "v6"

\* A system address that is kept as A whatever its family.
SysSetAsA(p) ==
  /\ pc[p] = "sysSet"
  /\ Write("A", Family(key[p]))
  /\ Return(p)
  /\ UNCHANGED <<enabled, cleaning>>

\* Kept under the type of its family.
SysSet(p) ==
  /\ pc[p] = "sysSet"
  /\ Write(key[p], Family(key[p]))
  /\ Return(p)
  /\ UNCHANGED <<enabled, cleaning>>
-----------------------------------------------------------------------------
(* cleanupLoop and Close *)

\* cleanup reads the clock before it has the lock.
CleanupStart ==
  /\ cleaner = "tick"
  /\ cleaner' = "sweep"
  /\ lag' = 0
  /\ UNCHANGED <<enabled, cache, pc, job, key, found, missed, closed>>

\* A sweep that takes an entry at its last instant for an expired one.
CleanupSweepEager ==
  /\ cleaner = "sweep"
  /\ cache' = [k \in Types |->
                 IF cache[k] # NoEntry /\ cache[k].left + lag <= 0 THEN NoEntry ELSE cache[k]]
  /\ cleaner' = "tick"
  /\ lag' = 0
  /\ UNCHANGED <<enabled, pc, job, key, found, missed, closed>>

\* now.After(entry.ExpiresAt), for the now that was read before.
CleanupSweep ==
  /\ cleaner = "sweep"
  /\ cache' = [k \in Types |->
                 IF cache[k] # NoEntry /\ cache[k].left + lag < 0 THEN NoEntry ELSE cache[k]]
  /\ cleaner' = "tick"
  /\ lag' = 0
  /\ UNCHANGED <<enabled, pc, job, key, found, missed, closed>>

CleanupStop ==
  /\ cleaner = "tick"
  /\ closed
  /\ cleaner' = "exit"
  /\ UNCHANGED <<enabled, cache, pc, job, key, found, missed, closed, lag>>

\* A second call would panic: the owner closes once.
Close ==
  /\ ~closed
  /\ closed' = TRUE
  /\ UNCHANGED <<enabled, cache, pc, job, key, found, missed, cleaner, lag>>

Older(e) ==
  IF e = NoEntry THEN e ELSE [e EXCEPT !.left = IF @ = MinLeft THEN @ ELSE @ - 1]

Tick ==
  /\ lag < MaxLag \/ cleaner # "sweep"
  /\ cache' = [k \in Types |-> Older(cache[k])]
  /\ lag' = IF cleaner = "sweep" THEN lag + 1 ELSE lag
  /\ UNCHANGED <<enabled, pc, job, key, found, missed, closed, cleaner>>
-----------------------------------------------------------------------------
Proceed(p) == Get(p) \/ GetEch(p) \/ Query(p) \/ Set(p) \/ System(p) \/ SysSet(p)

Next ==
  \/ \E p \in Callers : Call(p) \/ Proceed(p)
  \/ CleanupStart \/ CleanupSweep \/ CleanupStop \/ Close \/ Tick

Spec == Init /\ [][Next]_vars

\* Queries end (DohClient, ResolveReturns), and the system's resolver has its
\* own timeouts.
FairSpec == Spec /\ \A p \in Callers : WF_vars(Proceed(p))
-----------------------------------------------------------------------------
(* Properties *)

PCs == {"idle", "failed", "getEch", "get", "query", "set", "system", "sysSet"}

\* Every variable stays in its domain; no entry outlives the TTL.
TypeOK ==
  /\ enabled \in BOOLEAN
  /\ cache \in [Types -> Entry \cup {NoEntry}]
  /\ pc \in [Callers -> PCs]
  /\ job \in [Callers -> Jobs \cup {"none"}]
  /\ key \in [Callers -> Types]
  /\ found \in [Callers -> SUBSET {"A"}]
  /\ missed \in [Callers -> SUBSET (Types \cup {"system"})]
  /\ closed \in BOOLEAN
  /\ cleaner \in {"tick", "sweep", "exit"}
  /\ lag \in 0..MaxLag

\* An entry holds what its type says, whoever stored it: a caller that asks for
\* an A record is never given an IPv6 address (Set, SetHTTPS, ResolveAny).
EntriesOfTheirType ==
  \A k \in Types : cache[k] # NoEntry => cache[k].val \in Answers(k)

\* No entry that would still be served is thrown away, although the cleaning
\* goroutine works with a time read before it had the lock and callers store
\* entries meanwhile (cleanup, Get, GetHTTPS).
LiveNotRemoved ==
  [][\A k \in Types : cache[k] # NoEntry /\ cache'[k] = NoEntry => cache[k].left < 0]_vars

\* ResolveAny and LookupIPs fail only after every source had nothing: both
\* record types by DoH, which LookupIPs skips when DoH is off, and the system.
FailsAfterAllSources ==
  \A p \in Callers :
    pc[p] = "failed" /\ job[p] \in {"any", "lookup"} =>
      missed[p] = IF job[p] = "lookup" /\ ~enabled THEN {"system"}
                  ELSE {"A", "AAAA", "system"}

\* Every call returns, whatever is in the cache and whichever sources fail.
CallsReturn ==
  \A p \in Callers : pc[p] \notin {"idle", "failed"} ~> pc[p] \in {"idle", "failed"}
=============================================================================
