---------------------------- MODULE DnsCacheProofs ----------------------------
(***************************************************************************)
(* The DNS cache for any callers, lifetime and delay of the cleaning       *)
(* goroutine: types, entries of their type, no live entry removed, and no  *)
(* call that fails with a source it has not tried.                         *)
(***************************************************************************)
EXTENDS DnsCache, TLAPS

\* Where a call is, what it has found and which sources had nothing for it.
CallOK(p) ==
  /\ job[p] \in {"https", "ech"} => key[p] = "HTTPS" /\ pc[p] # "sysSet"
  /\ job[p] \in {"any", "lookup"} => key[p] # "HTTPS" /\ pc[p] # "getEch"
  /\ pc[p] # "idle" => job[p] # "none"
  /\ pc[p] = "sysSet" => key[p] # "HTTPS"
  /\ job[p] \in {"any", "lookup"} /\ pc[p] \in {"get", "query", "set"} =>
       /\ job[p] = "lookup" => enabled
       /\ key[p] = "A" => found[p] = {} /\ missed[p] = {}
       /\ key[p] = "AAAA" /\ found[p] = {} => missed[p] = {"A"}
  /\ job[p] \in {"any", "lookup"} /\ pc[p] = "system" =>
       missed[p] = IF job[p] = "lookup" /\ ~enabled THEN {} ELSE {"A", "AAAA"}
  /\ job[p] \in {"any", "lookup"} /\ pc[p] = "failed" =>
       missed[p] = IF job[p] = "lookup" /\ ~enabled THEN {"system"}
                   ELSE {"A", "AAAA", "system"}

CallsInv == \A p \in Callers : CallOK(p)

IInv == TypeOK /\ EntriesOfTheirType /\ CallsInv
-----------------------------------------------------------------------------
(* Types *)

FrameOK ==
  /\ pc \in [Callers -> PCs]
  /\ job \in [Callers -> Jobs \cup {"none"}]
  /\ key \in [Callers -> Types]
  /\ found \in [Callers -> SUBSET {"A"}]
  /\ missed \in [Callers -> SUBSET (Types \cup {"system"})]

CacheOK == cache \in [Types -> Entry \cup {NoEntry}]

CleaningOK == closed \in BOOLEAN /\ cleaner \in {"tick", "sweep", "exit"} /\ lag \in 0..MaxLag

LEMMA ReturnType ==
  ASSUME FrameOK, NEW p \in Callers, Return(p)
  PROVE  FrameOK'
BY DEF FrameOK, Return, Goto, PCs, Types

LEMMA ErrorType ==
  ASSUME FrameOK, NEW p \in Callers, NEW s \in SUBSET (Types \cup {"system"}), ReturnError(p, s)
  PROVE  FrameOK'
BY DEF FrameOK, ReturnError, Goto, PCs

LEMMA ContinueType ==
  ASSUME FrameOK, NEW p \in Callers, NEW l \in PCs, NEW k \in Types,
         NEW s \in SUBSET (Types \cup {"system"}), Continue(p, l, k, s)
  PROVE  FrameOK'
BY DEF FrameOK, Continue, Goto

LEMMA HitType ==
  ASSUME FrameOK, NEW p \in Callers, NEW v, Hit(p, v)
  PROVE  FrameOK'
<1>1. CASE Return(p)
  BY <1>1, ReturnType
<1>2. CASE /\ Goto(p, "get") /\ key' = [key EXCEPT ![p] = "AAAA"]
           /\ found' = [found EXCEPT ![p] = {"A"}] /\ UNCHANGED <<job, missed>>
  BY <1>2 DEF FrameOK, Goto, PCs, Types
<1>3. CASE ReturnError(p, {})
  BY <1>3, ErrorType
<1>4. QED BY <1>1, <1>2, <1>3 DEF Hit

LEMMA FailType ==
  ASSUME FrameOK, NEW p \in Callers, Fail(p)
  PROVE  FrameOK'
BY ReturnType, ErrorType, ContinueType DEF Fail, PCs, Types

LEMMA LookType ==
  ASSUME CacheOK, NEW k \in Types, Look(k)
  PROVE  CacheOK'
BY DEF CacheOK, Look

LEMMA WriteType ==
  ASSUME CacheOK, NEW k \in Types, NEW v \in Values, Write(k, v)
  PROVE  CacheOK'
<1>1. TTL \in MinLeft..TTL
  BY CacheAssumption DEF MinLeft
<1>2. [left |-> TTL, val |-> v] \in Entry
  BY <1>1 DEF Entry
<1>3. QED BY <1>2 DEF CacheOK, Write

LEMMA AnswersValues == \A k \in Types : Answers(k) \subseteq Values /\ Family(k) \in Values
BY DEF Types, Answers, Family, Values

LEMMA OlderType ==
  ASSUME NEW e \in Entry \cup {NoEntry}
  PROVE  Older(e) \in Entry \cup {NoEntry}
<1>1. CASE e = NoEntry
  BY <1>1 DEF Older
<1>2. CASE e \in Entry /\ e # NoEntry
  <2>1. MinLeft \in Int /\ TTL \in Int /\ e.left \in MinLeft..TTL /\ e.val \in Values
    BY <1>2, CacheAssumption DEF Entry, MinLeft
  <2>2. (IF e.left = MinLeft THEN e.left ELSE e.left - 1) \in MinLeft..TTL
    BY <2>1
  <2>3. QED BY <1>2, <2>1, <2>2 DEF Older, Entry
<1>3. QED BY <1>1, <1>2

LEMMA InitType == Init => TypeOK
<1> SUFFICES ASSUME Init PROVE TypeOK
  OBVIOUS
<1>1. 0 \in 0..MaxLag
  BY CacheAssumption
<1>2. QED BY <1>1 DEF Init, TypeOK, PCs, Types, Jobs

LEMMA CallType ==
  ASSUME TypeOK, NEW p \in Callers, Call(p)
  PROVE  TypeOK'
<1>1. FrameOK'
  BY DEF TypeOK, Call, Goto, FrameOK, PCs, Types, Jobs
<1>2. QED BY <1>1 DEF Call, cleaning, TypeOK, FrameOK

LEMMA ProceedType ==
  ASSUME TypeOK, NEW p \in Callers, Proceed(p)
  PROVE  TypeOK'
<1>0. FrameOK /\ CacheOK /\ key[p] \in Types
  BY DEF TypeOK, FrameOK, CacheOK
<1>1. FrameOK' /\ CacheOK'
  <2>1. CASE Get(p)
    BY <1>0, <2>1, LookType, HitType, ContinueType DEF Get, PCs
  <2>2. CASE GetEch(p)
    BY <1>0, <2>2, LookType, ReturnType, ContinueType DEF GetEch, PCs, Types
  <2>3. CASE Query(p)
    BY <1>0, <2>3, FailType, ContinueType DEF Query, CacheOK, PCs
  <2>4. CASE Set(p)
    BY <1>0, <2>4, WriteType, HitType, AnswersValues DEF Set
  <2>5. CASE System(p)
    BY <1>0, <2>5, ErrorType, ContinueType, ReturnType DEF System, CacheOK, PCs, Types
  <2>6. CASE SysSet(p)
    BY <1>0, <2>6, WriteType, ReturnType, AnswersValues DEF SysSet
  <2>7. QED BY <2>1, <2>2, <2>3, <2>4, <2>5, <2>6 DEF Proceed
<1>2. UNCHANGED <<enabled, closed, cleaner, lag>>
  BY DEF Proceed, Get, GetEch, Query, Set, System, SysSet, cleaning
<1>3. QED BY <1>1, <1>2 DEF TypeOK, FrameOK, CacheOK

LEMMA CleanerType ==
  ASSUME TypeOK, CleanupStart \/ CleanupSweep \/ CleanupStop \/ Close \/ Tick
  PROVE  TypeOK'
<1>1. enabled' \in BOOLEAN /\ FrameOK'
  BY DEF CleanupStart, CleanupSweep, CleanupStop, Close, Tick, TypeOK, FrameOK
<1>2. CleaningOK'
  <2>1. MaxLag \in Nat /\ lag \in 0..MaxLag /\ 0 \in 0..MaxLag
    BY CacheAssumption DEF TypeOK
  <2>2. CASE Tick
    <3>1. lag' \in 0..MaxLag
      BY <2>1, <2>2 DEF Tick
    <3>2. QED BY <2>2, <3>1 DEF Tick, TypeOK, CleaningOK
  <2>3. CASE CleanupStart \/ CleanupSweep \/ CleanupStop \/ Close
    BY <2>1, <2>3 DEF CleanupStart, CleanupSweep, CleanupStop, Close, TypeOK, CleaningOK
  <2>4. QED BY <2>2, <2>3
<1>3. CacheOK'
  <2>1. \A k \in Types : cache[k] \in Entry \cup {NoEntry} /\ Older(cache[k]) \in Entry \cup {NoEntry}
    BY OlderType DEF TypeOK
  <2>2. CASE CleanupSweep
    BY <2>1, <2>2 DEF CleanupSweep, CacheOK
  <2>3. CASE Tick
    BY <2>1, <2>3 DEF Tick, CacheOK
  <2>4. CASE UNCHANGED cache
    BY <2>4 DEF TypeOK, CacheOK
  <2>5. QED BY <2>2, <2>3, <2>4 DEF CleanupStart, CleanupStop, Close
<1>4. QED BY <1>1, <1>2, <1>3 DEF TypeOK, FrameOK, CacheOK, CleaningOK

LEMMA TypeStep == TypeOK /\ [Next]_vars => TypeOK'
<1> SUFFICES ASSUME TypeOK, [Next]_vars PROVE TypeOK'
  OBVIOUS
<1>1. CASE UNCHANGED vars
  BY <1>1 DEF vars, TypeOK
<1>2. QED BY <1>1, CallType, ProceedType, CleanerType DEF Next
-----------------------------------------------------------------------------
(* The entries *)

LEMMA WriteKind ==
  ASSUME TypeOK, EntriesOfTheirType, NEW k \in Types, NEW v \in Answers(k), Write(k, v)
  PROVE  EntriesOfTheirType'
BY DEF TypeOK, EntriesOfTheirType, Write

\* A step that writes nothing keeps entries, ages them or removes them.
LEMMA KeptKind ==
  ASSUME TypeOK, EntriesOfTheirType,
         \A k \in Types : \/ cache'[k] \in {cache[k], NoEntry}
                          \/ cache[k] # NoEntry /\ cache'[k].val = cache[k].val
  PROVE  EntriesOfTheirType'
BY DEF EntriesOfTheirType

LEMMA LookKept ==
  ASSUME TypeOK, NEW k \in Types, Look(k)
  PROVE  \A m \in Types :
           cache'[m] # cache[m] => cache'[m] = NoEntry /\ cache[m].left < 0
<1>1. cache \in [Types -> Entry \cup {NoEntry}]
  BY DEF TypeOK
<1>2. ASSUME NEW m \in Types, cache'[m] # cache[m]
      PROVE  cache'[m] = NoEntry /\ cache[m].left < 0
  <2>1. Expired(k) /\ cache' = [cache EXCEPT ![k] = NoEntry]
    BY <1>2 DEF Look
  <2>2. m = k /\ cache'[m] = NoEntry
    BY <1>1, <1>2, <2>1
  <2>3. cache[k].left < 0
    BY <2>1 DEF Expired
  <2>4. QED BY <2>2, <2>3
<1>3. QED BY <1>2

LEMMA OlderKept ==
  ASSUME NEW e \in Entry, e # NoEntry
  PROVE  Older(e) # NoEntry /\ Older(e).val = e.val
<1>1. MinLeft \in Int /\ TTL \in Int /\ e.left \in Int /\ e.val \in Values
  BY CacheAssumption DEF Entry, MinLeft
<1>2. Older(e) = [e EXCEPT !.left = IF @ = MinLeft THEN @ ELSE @ - 1]
  BY DEF Older
<1>3. Older(e) \in [left : Int, val : Values] /\ Older(e).val = e.val
  BY <1>1, <1>2 DEF Entry
<1>4. QED BY <1>3, CacheAssumption

LEMMA KindStep == TypeOK /\ CallsInv /\ EntriesOfTheirType /\ [Next]_vars => EntriesOfTheirType'
<1> SUFFICES ASSUME TypeOK, CallsInv, EntriesOfTheirType, [Next]_vars
             PROVE  EntriesOfTheirType'
  OBVIOUS
<1>1. CASE UNCHANGED cache
  BY <1>1, KeptKind
<1>2. ASSUME NEW p \in Callers, Get(p) \/ GetEch(p) PROVE EntriesOfTheirType'
  <2>1. key[p] \in Types /\ "HTTPS" \in Types
    BY DEF TypeOK, Types
  <2>2. PICK k \in Types : Look(k)
    BY <1>2, <2>1 DEF Get, GetEch
  <2>3. QED BY <2>2, LookKept, KeptKind
<1>3. ASSUME NEW p \in Callers, Set(p) PROVE EntriesOfTheirType'
  BY <1>3, WriteKind DEF Set, TypeOK
<1>4. ASSUME NEW p \in Callers, SysSet(p) PROVE EntriesOfTheirType'
  <2>1. key[p] \in Types /\ key[p] # "HTTPS"
    BY <1>4 DEF SysSet, TypeOK, CallsInv, CallOK
  <2>2. Family(key[p]) \in Answers(key[p])
    BY <2>1 DEF Types, Family, Answers
  <2>3. QED BY <1>4, <2>1, <2>2, WriteKind DEF SysSet
<1>5. CASE CleanupSweep
  BY <1>5, KeptKind DEF CleanupSweep
<1>6. CASE Tick
  <2>1. \A k \in Types : cache[k] = NoEntry => cache'[k] = NoEntry
    BY <1>6 DEF Tick, Older
  <2>2. \A k \in Types : cache[k] # NoEntry => cache'[k].val = cache[k].val
    BY <1>6, OlderKept DEF Tick, TypeOK
  <2>3. QED BY <2>1, <2>2, KeptKind
<1>7. QED
  BY <1>1, <1>2, <1>3, <1>4, <1>5, <1>6
     DEF Next, vars, Call, Proceed, Query, System, CleanupStart, CleanupStop, Close

LEMMA LiveStep ==
  ASSUME TypeOK, [Next]_vars, NEW k \in Types, cache[k] # NoEntry, cache'[k] = NoEntry
  PROVE  cache[k].left < 0
<1>0. cache \in [Types -> Entry \cup {NoEntry}] /\ cache[k] \in Entry /\ cache[k].left \in Int
  BY CacheAssumption DEF TypeOK, Entry, MinLeft
<1>1. CASE UNCHANGED cache
  BY <1>1
<1>2. ASSUME NEW p \in Callers, Get(p) \/ GetEch(p) PROVE cache[k].left < 0
  <2>1. key[p] \in Types /\ "HTTPS" \in Types
    BY DEF TypeOK, Types
  <2>2. PICK m \in Types : Look(m)
    BY <1>2, <2>1 DEF Get, GetEch
  <2>3. QED BY <2>2, LookKept
<1>3. ASSUME NEW m \in Types, NEW v \in Values, Write(m, v) PROVE cache[k].left < 0
  <2>1. TTL \in Int /\ NoEntry \notin [left : Int, val : Values]
    BY CacheAssumption
  <2>2. [left |-> TTL, val |-> v] # NoEntry
    BY <2>1
  <2>3. QED BY <1>0, <1>3, <2>2 DEF Write
<1>4. ASSUME NEW p \in Callers, Set(p) \/ SysSet(p) PROVE cache[k].left < 0
  <2>1. key[p] \in Types
    BY DEF TypeOK
  <2>2. \E m \in Types, v \in Values : Write(m, v)
    BY <1>4, <2>1, AnswersValues DEF Set, SysSet
  <2>3. QED BY <1>3, <2>2
<1>5. CASE CleanupSweep
  <2>1. lag \in Nat
    BY CacheAssumption DEF TypeOK
  <2>2. cache[k].left + lag < 0
    BY <1>5 DEF CleanupSweep
  <2>3. QED BY <1>0, <2>1, <2>2
<1>6. CASE Tick
  BY <1>0, <1>6, OlderKept DEF Tick
<1>7. QED
  BY <1>1, <1>2, <1>4, <1>5, <1>6
     DEF Next, vars, Call, Proceed, Query, System, CleanupStart, CleanupStop, Close
-----------------------------------------------------------------------------
(* The calls *)

LEMMA InitRest == Init => EntriesOfTheirType /\ CallsInv
BY DEF Init, EntriesOfTheirType, CallsInv, CallOK, Types

\* The frames of the other callers are not touched.
LEMMA OthersOK ==
  ASSUME TypeOK, CallsInv, UNCHANGED enabled, NEW p \in Callers, CallOK(p)',
         \A d \in Callers : d # p =>
           /\ pc'[d] = pc[d] /\ job'[d] = job[d] /\ key'[d] = key[d]
           /\ found'[d] = found[d] /\ missed'[d] = missed[d]
  PROVE  CallsInv'
<1>1. ASSUME NEW d \in Callers, d # p PROVE CallOK(d)'
  BY <1>1 DEF CallsInv, CallOK
<1>2. QED BY <1>1 DEF CallsInv

LEMMA ReturnOK ==
  ASSUME TypeOK, CallsInv, UNCHANGED enabled, NEW p \in Callers, Return(p)
  PROVE  CallsInv'
<1>1. CallOK(p)'
  BY DEF TypeOK, Return, Goto, CallOK
<1>2. QED BY <1>1, OthersOK DEF TypeOK, Return, Goto

LEMMA ErrorOK ==
  ASSUME TypeOK, CallsInv, UNCHANGED enabled, NEW p \in Callers, NEW s, ReturnError(p, s),
         pc[p] # "idle",
         job[p] \in {"any", "lookup"} =>
           missed[p] \cup s = IF job[p] = "lookup" /\ ~enabled THEN {"system"}
                              ELSE {"A", "AAAA", "system"}
  PROVE  CallsInv'
<1>1. CallOK(p)'
  BY DEF TypeOK, ReturnError, Goto, CallsInv, CallOK
<1>2. QED BY <1>1, OthersOK DEF TypeOK, ReturnError, Goto

LEMMA ContinueOK ==
  ASSUME TypeOK, CallsInv, UNCHANGED enabled, NEW p \in Callers, NEW l, NEW k, NEW s,
         Continue(p, l, k, s), pc[p] # "idle", l \in {"get", "query", "set", "system", "sysSet"},
         job[p] \in {"https", "ech"} => k = "HTTPS" /\ l # "sysSet",
         job[p] \in {"any", "lookup"} => k # "HTTPS",
         l = "sysSet" => k # "HTTPS",
         job[p] \in {"any", "lookup"} /\ l \in {"get", "query", "set"} =>
           /\ job[p] = "lookup" => enabled
           /\ k = "A" => found[p] = {} /\ missed[p] \cup s = {}
           /\ k = "AAAA" /\ found[p] = {} => missed[p] \cup s = {"A"},
         job[p] \in {"any", "lookup"} /\ l = "system" =>
           missed[p] \cup s = IF job[p] = "lookup" /\ ~enabled THEN {} ELSE {"A", "AAAA"}
  PROVE  CallsInv'
<1>1. /\ pc'[p] = l /\ key'[p] = k /\ missed'[p] = missed[p] \cup s
      /\ job'[p] = job[p] /\ found'[p] = found[p]
  BY DEF TypeOK, Continue, Goto
<1>2. job[p] # "none"
  BY DEF CallsInv, CallOK
<1>3. CallOK(p)'
  BY <1>1, <1>2 DEF CallOK
<1>4. QED BY <1>3, OthersOK DEF TypeOK, Continue, Goto

LEMMA HitOK ==
  ASSUME TypeOK, CallsInv, UNCHANGED enabled, NEW p \in Callers, NEW v, Hit(p, v),
         pc[p] \in {"get", "set"}
  PROVE  CallsInv'
<1>1. CASE Return(p)
  BY <1>1, ReturnOK
<1>2. CASE /\ job[p] = "lookup" /\ key[p] = "A"
           /\ Goto(p, "get") /\ key' = [key EXCEPT ![p] = "AAAA"]
           /\ found' = [found EXCEPT ![p] = {"A"}] /\ UNCHANGED <<job, missed>>
  <2>1. CallOK(p)'
    BY <1>2 DEF TypeOK, Goto, CallsInv, CallOK
  <2>2. QED BY <1>2, <2>1, OthersOK DEF TypeOK, Goto
<1>3. CASE job[p] = "ech" /\ ReturnError(p, {})
  BY <1>3, ErrorOK
<1>4. QED BY <1>1, <1>2, <1>3 DEF Hit

LEMMA FailOK ==
  ASSUME TypeOK, CallsInv, UNCHANGED enabled, NEW p \in Callers, Fail(p), pc[p] = "query"
  PROVE  CallsInv'
<1>0. CallOK(p) /\ job[p] \in {"any", "lookup", "https", "ech", "none"} /\ job[p] # "none"
  BY DEF CallsInv, CallOK, TypeOK, Jobs
<1>1. CASE key[p] = "A" /\ Continue(p, "get", "AAAA", {"A"})
  BY <1>0, <1>1, ContinueOK DEF CallOK
<1>2. CASE key[p] = "AAAA" /\ found[p] = {} /\ Continue(p, "system", "AAAA", {"AAAA"})
  <2>1. job[p] \in {"any", "lookup"} /\ missed[p] = {"A"} /\ (job[p] = "lookup" => enabled)
    BY <1>0, <1>2 DEF CallOK
  <2>2. missed[p] \cup {"AAAA"} = {"A", "AAAA"}
    BY <2>1
  <2>3. QED BY <1>2, <2>1, <2>2, ContinueOK
<1>3. CASE Return(p)
  BY <1>3, ReturnOK
<1>4. CASE key[p] = "HTTPS" /\ ReturnError(p, {"HTTPS"})
  BY <1>0, <1>4, ErrorOK DEF CallOK
<1>5. QED BY <1>1, <1>2, <1>3, <1>4 DEF Fail

LEMMA CallsStep == TypeOK /\ CallsInv /\ [Next]_vars => CallsInv'
<1> SUFFICES ASSUME TypeOK, CallsInv, [Next]_vars PROVE CallsInv'
  OBVIOUS
<1>0. \A p \in Callers : /\ CallOK(p) /\ key[p] \in Types
                        /\ job[p] \in {"any", "lookup", "https", "ech", "none"}
  BY DEF CallsInv, TypeOK, Jobs
<1>1. CASE UNCHANGED <<enabled, pc, job, key, found, missed>>
  BY <1>1 DEF CallsInv, CallOK
<1>2. ASSUME NEW p \in Callers, Call(p) PROVE CallsInv'
  <2>1. CallOK(p)'
    BY <1>2 DEF Call, Goto, TypeOK, CallOK, Jobs
  <2>2. QED BY <1>2, <2>1, OthersOK DEF Call, Goto, TypeOK
<1>3. ASSUME NEW p \in Callers, Get(p) PROVE CallsInv'
  <2>1. CASE Hit(p, cache[key[p]].val)
    BY <1>3, <2>1, HitOK DEF Get
  <2>2. CASE Continue(p, "query", key[p], {})
    BY <1>0, <1>3, <2>2, ContinueOK DEF Get, CallOK
  <2>3. QED BY <1>3, <2>1, <2>2 DEF Get
<1>4. ASSUME NEW p \in Callers, GetEch(p) PROVE CallsInv'
  <2>1. CASE Return(p)
    BY <1>4, <2>1, ReturnOK DEF GetEch
  <2>2. CASE Continue(p, "get", "HTTPS", {})
    BY <1>0, <1>4, <2>2, ContinueOK DEF GetEch, CallOK
  <2>3. QED BY <1>4, <2>1, <2>2 DEF GetEch
<1>5. ASSUME NEW p \in Callers, Query(p) PROVE CallsInv'
  <2>1. CASE Continue(p, "set", key[p], {})
    BY <1>0, <1>5, <2>1, ContinueOK DEF Query, CallOK
  <2>2. CASE Fail(p)
    BY <1>5, <2>2, FailOK DEF Query
  <2>3. QED BY <1>5, <2>1, <2>2 DEF Query
<1>6. ASSUME NEW p \in Callers, Set(p) PROVE CallsInv'
  BY <1>6, HitOK DEF Set
<1>7. ASSUME NEW p \in Callers, System(p) PROVE CallsInv'
  <2>1. CASE ReturnError(p, {"system"})
    <3>1. job[p] \in {"any", "lookup"} =>
            missed[p] \cup {"system"} = IF job[p] = "lookup" /\ ~enabled THEN {"system"}
                                        ELSE {"A", "AAAA", "system"}
      BY <1>0, <1>7 DEF System, CallOK
    <3>2. QED BY <1>7, <2>1, <3>1, ErrorOK DEF System
  <2>2. ASSUME job[p] = "any", NEW k \in {"A", "AAAA"}, Continue(p, "sysSet", k, {})
        PROVE  CallsInv'
    BY <1>7, <2>2, ContinueOK DEF System
  <2>3. CASE Return(p)
    BY <1>7, <2>3, ReturnOK DEF System
  <2>4. QED BY <1>7, <2>1, <2>2, <2>3 DEF System
<1>8. ASSUME NEW p \in Callers, SysSet(p) PROVE CallsInv'
  BY <1>8, ReturnOK DEF SysSet
<1>9. QED
  BY <1>1, <1>2, <1>3, <1>4, <1>5, <1>6, <1>7, <1>8
     DEF Next, vars, Proceed, CleanupStart, CleanupSweep, CleanupStop, Close, Tick
-----------------------------------------------------------------------------
(* The theorems *)

LEMMA Invariance == Spec => []IInv
<1>1. Init => IInv
  BY InitType, InitRest DEF IInv
<1>2. IInv /\ [Next]_vars => IInv'
  BY TypeStep, KindStep, CallsStep DEF IInv
<1>3. QED BY <1>1, <1>2, PTL DEF Spec

\* For any callers and lifetime, the cache keeps its types and no entry lives
\* longer than dc.ttl (Set, SetHTTPS).
THEOREM TypeCorrect == Spec => []TypeOK
<1>1. IInv => TypeOK
  BY DEF IInv
<1>2. QED BY <1>1, Invariance, PTL

\* Whatever callers store concurrently, an entry is of the type of its key
\* (Set, SetHTTPS, ResolveAny).
THEOREM EntryTypes == Spec => []EntriesOfTheirType
<1>1. IInv => EntriesOfTheirType
  BY DEF IInv
<1>2. QED BY <1>1, Invariance, PTL

\* However late the cleaning goroutine gets the lock, it removes no entry that
\* would still be served, and neither does a lookup (cleanup, Get, GetHTTPS).
THEOREM LiveEntriesStay == Spec => LiveNotRemoved
<1> DEFINE Removed == \A k \in Types : cache[k] # NoEntry /\ cache'[k] = NoEntry => cache[k].left < 0
<1>1. IInv /\ [Next]_vars => [Removed]_vars
  BY LiveStep DEF IInv
<1>2. QED BY <1>1, Invariance, PTL DEF Spec, LiveNotRemoved

\* A call that fails has tried each of its sources, for any callers and any
\* state of the cache (ResolveAny, LookupIPs).
THEOREM AllSourcesTried == Spec => []FailsAfterAllSources
<1>1. IInv => FailsAfterAllSources
  BY DEF IInv, CallsInv, CallOK, FailsAfterAllSources
<1>2. QED BY <1>1, Invariance, PTL
=============================================================================
