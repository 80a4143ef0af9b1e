-------------------------- MODULE EchManagerProofs --------------------------
(***************************************************************************)
(* EchManager for any number of callers: types, one running query at a     *)
(* time among the Gets, no stranded waiter and no result read before it    *)
(* was written.                                                            *)
(***************************************************************************)
EXTENDS EchManager, TLAPS

\* What a goroutine's place says of the job it does and the answer it holds.
JobInv ==
  \A p \in Procs :
    /\ pc[p] \in {"publish", "signal", "unflight"} => job[p] = "get"
    /\ pc[p] \in {"doh", "udp", "store"} => job[p] \in {"get", "refresh"}
    /\ pc[p] \in {"check", "flight"} => job[p] = "get"
    /\ pc[p] \in {"store", "publish", "signal", "unflight"} => ans[p] # Unset

\* What its place says of the flight a leader runs.
FlightInv ==
  \A p \in Procs : Leads(p) =>
    /\ flights[fl[p]].closed <=> pc[p] = "unflight"
    /\ pc[p] \in {"signal", "unflight"} => flights[fl[p]].res # Unset

IInv ==
  /\ TypeOK /\ JobInv /\ FlightInv
  /\ SingleFlight /\ NoWaiterStranded /\ NoUnsetResult

control == <<inflight, flights, pc, job, fl, ans>>

LEMMA LoopIsProc == Loop \in Procs /\ \A p \in Procs : Home(p) \in PCs
BY DEF Procs, Home, PCs

LEMMA InitType == Init => TypeOK
<1>1. Init => flights \in Seq(Flight) /\ inflight \in 0..Len(flights)
  <2>1. <<>> \in Seq(Flight) /\ 0 \in 0..Len(<<>>)
    OBVIOUS
  <2>2. QED BY <2>1 DEF Init
<1>2. Init => StateTypeOK
  <2>1. Init => cache \in Entry \cup {NoEntry} /\ stopped \in BOOLEAN
    BY DEF Init
  <2>2. QED BY <1>1, <2>1 DEF StateTypeOK
<1>3. Init => LocalTypeOK
  BY <1>1 DEF Init, LocalTypeOK, PCs, Answer
<1>4. QED BY <1>2, <1>3 DEF TypeOK

LEMMA InitInv == Init => IInv
<1> SUFFICES ASSUME Init PROVE IInv
  OBVIOUS
<1>1. TypeOK
  BY InitType
<1>2. \A p \in Procs : ~Leads(p) /\ pc[p] \in {"idle", "tick"}
  BY DEF Init, Leads
<1>3. JobInv
  BY <1>2 DEF JobInv
<1>4. SingleFlight
  BY <1>2 DEF SingleFlight, Init
<1>5. FlightInv /\ NoWaiterStranded
  BY <1>2 DEF FlightInv, NoWaiterStranded
<1>6. NoUnsetResult
  BY DEF NoUnsetResult, Init
<1>7. QED BY <1>1, <1>3, <1>4, <1>5, <1>6 DEF IInv
-----------------------------------------------------------------------------
(* Types *)

LEMMA GotoType ==
  ASSUME LocalTypeOK, NEW p \in Procs, NEW l \in PCs \ {"wait"}, Goto(p, l)
  PROVE  /\ pc' \in [Procs -> PCs]
         /\ \A q \in Procs : pc'[q] = "wait" => q # p /\ pc[q] = "wait"
BY DEF LocalTypeOK, Goto

LEMMA ReturnType ==
  ASSUME LocalTypeOK, NEW p \in Procs, Return(p), Len(flights') = Len(flights),
         Len(flights) \in Nat
  PROVE  LocalTypeOK'
<1>1. Home(p) \in PCs \ {"wait"}
  BY DEF Home, PCs
<1>2. Goto(p, Home(p))
  BY DEF Return
<1>3. /\ pc' \in [Procs -> PCs]
      /\ \A q \in Procs : pc'[q] = "wait" => q # p /\ pc[q] = "wait"
  BY <1>1, <1>2, GotoType
<1>4. /\ job' \in [Procs -> {"none", "get", "refresh"}]
      /\ ent' \in [Procs -> Entry \cup {NoEntry}]
      /\ ans' \in [Procs -> Answer]
  BY DEF Return, LocalTypeOK, Answer
<1>5. fl' \in [Procs -> 0..Len(flights)] /\ \A q \in Procs : q # p => fl'[q] = fl[q]
  BY DEF Return, LocalTypeOK
<1>6. QED BY <1>3, <1>4, <1>5 DEF LocalTypeOK

LEMMA LeadType ==
  ASSUME TypeOK, NEW p \in Procs, Goto(p, "doh"),
         flights' = Append(flights, [closed |-> FALSE, res |-> Unset]),
         inflight' = Len(flights) + 1,
         fl' = [fl EXCEPT ![p] = Len(flights) + 1]
  PROVE  /\ pc' \in [Procs -> PCs]
         /\ flights' \in Seq(Flight) /\ inflight' \in 0..Len(flights')
         /\ fl' \in [Procs -> 0..Len(flights')]
         /\ \A q \in Procs : pc'[q] = "wait" => fl'[q] # 0
<1>1. [closed |-> FALSE, res |-> Unset] \in Flight /\ flights \in Seq(Flight)
  BY DEF Flight, Answer, TypeOK, StateTypeOK
<1>2. flights' \in Seq(Flight) /\ Len(flights') = Len(flights) + 1 /\ Len(flights) \in Nat
  BY <1>1
<1>3. inflight' \in 0..Len(flights')
  BY <1>2
<1>4. fl \in [Procs -> 0..Len(flights)]
  BY DEF TypeOK, LocalTypeOK
<1>5. fl' \in [Procs -> 0..Len(flights')]
  BY <1>2, <1>4
<1>6. /\ pc' \in [Procs -> PCs]
      /\ \A q \in Procs : pc'[q] = "wait" => q # p /\ pc[q] = "wait"
  BY GotoType DEF TypeOK, PCs, LeaderPCs
<1>7. QED BY <1>2, <1>3, <1>4, <1>5, <1>6 DEF TypeOK, LocalTypeOK

\* Replacing one element of a sequence of flights leaves one.
LEMMA FlightUpdate ==
  ASSUME NEW q \in Seq(Flight), NEW i, NEW f, i \in 1..Len(q) => f \in Flight
  PROVE  [q EXCEPT ![i] = f] \in Seq(Flight) /\ Len([q EXCEPT ![i] = f]) = Len(q)
<1> DEFINE s == [q EXCEPT ![i] = f]
<1>1. DOMAIN q = 1..Len(q) /\ Len(q) \in Nat
  OBVIOUS
<1>2. DOMAIN s = 1..Len(q)
  BY <1>1
<1>3. ASSUME NEW j \in 1..Len(q) PROVE s[j] \in Flight
  <2>1. s[j] = IF j = i THEN f ELSE q[j]
    BY <1>1
  <2>2. QED BY <2>1
<1>4. s = [j \in 1..Len(q) |-> s[j]]
  BY <1>2
<1> HIDE DEF s
<1>5. s \in [1..Len(q) -> Flight]
  BY <1>3, <1>4
<1>6. s \in Seq(Flight) /\ Len(s) = Len(q)
  BY <1>1, <1>5
<1>7. QED BY <1>6 DEF s

LEMMA FlightFields ==
  ASSUME NEW g \in Flight, NEW r \in Answer
  PROVE  [g EXCEPT !.res = r] \in Flight /\ [g EXCEPT !.closed = TRUE] \in Flight
BY DEF Flight

LEMMA GetType ==
  ASSUME TypeOK, NEW p \in Procs,
         GetCall(p) \/ GetCheck(p) \/ GetFlight(p) \/ GetWait(p)
  PROVE  TypeOK'
<1> USE DEF TypeOK, PCs, LeaderPCs
<1>1. Len(flights) \in Nat
  BY DEF StateTypeOK
<1>2. CASE GetCall(p)
  <2>1. Goto(p, "check")
    BY <1>2 DEF GetCall
  <2>2. QED
    BY <1>2, <2>1, GotoType DEF GetCall, StateTypeOK, LocalTypeOK, state
<1>3. CASE GetCheck(p)
  <2>1. CASE Return(p)
    BY <1>1, <1>3, <2>1, ReturnType DEF GetCheck, StateTypeOK, state
  <2>2. CASE Goto(p, "flight") /\ UNCHANGED locals
    BY <1>3, <2>2, GotoType DEF GetCheck, StateTypeOK, LocalTypeOK, state, locals
  <2>3. QED BY <1>3, <2>1, <2>2 DEF GetCheck
<1>4. CASE GetFlight(p)
  <2>1. ent' \in [Procs -> Entry \cup {NoEntry}]
    BY <1>4 DEF GetFlight, LocalTypeOK
  <2>2. CASE inflight # 0
    BY <1>4, <2>1, <2>2 DEF GetFlight, Goto, StateTypeOK, LocalTypeOK
  <2>3. CASE inflight = 0
    <3>1. /\ flights' = Append(flights, [closed |-> FALSE, res |-> Unset])
          /\ inflight' = Len(flights) + 1
          /\ fl' = [fl EXCEPT ![p] = Len(flights) + 1]
          /\ Goto(p, "doh")
          /\ UNCHANGED <<cache, stopped, job, ans>>
      BY <1>4, <2>3 DEF GetFlight
    <3>2. QED BY <2>1, <3>1, LeadType DEF StateTypeOK, LocalTypeOK
  <2>4. QED BY <2>2, <2>3
<1>5. CASE GetWait(p)
  BY <1>1, <1>5, ReturnType DEF GetWait, StateTypeOK, state
<1>6. QED BY <1>2, <1>3, <1>4, <1>5

LEMMA LeaderType ==
  ASSUME TypeOK, NEW p \in Procs,
         GetPublish(p) \/ GetSignal(p) \/ GetUnflight(p) \/ Fetch(p), JobInv
  PROVE  TypeOK'
<1> USE DEF TypeOK, PCs, LeaderPCs
<1>1. Len(flights) \in Nat
  BY DEF StateTypeOK
<1>2. ASSUME NEW l \in PCs \ {"wait"}, Goto(p, l), flights' \in Seq(Flight),
             Len(flights') = Len(flights),
             UNCHANGED <<cache, inflight, stopped, locals>>
      PROVE  TypeOK'
  BY <1>2, GotoType DEF StateTypeOK, LocalTypeOK, locals
<1>3. CASE GetPublish(p)
  <2> DEFINE f == [flights[fl[p]] EXCEPT !.res = ans[p]]
  <2>1. ans[p] \in Answer /\ flights \in Seq(Flight)
    BY DEF LocalTypeOK, StateTypeOK
  <2>2. flights' = [flights EXCEPT ![fl[p]] = f]
    BY <1>3 DEF GetPublish
  <2>3. flights' \in Seq(Flight) /\ Len(flights') = Len(flights)
    <3>1. fl[p] \in 1..Len(flights) => flights[fl[p]] \in Flight
      BY <2>1
    <3>2. fl[p] \in 1..Len(flights) => f \in Flight
      BY <2>1, <3>1, FlightFields
    <3> HIDE DEF f
    <3>3. QED BY <2>1, <2>2, <3>2, FlightUpdate
  <2>4. QED BY <1>2, <1>3, <2>3 DEF GetPublish
<1>4. CASE GetSignal(p)
  <2> DEFINE f == [flights[fl[p]] EXCEPT !.closed = TRUE]
  <2>1. /\ ans[p] \in Answer /\ flights \in Seq(Flight)
        /\ flights' = [flights EXCEPT ![fl[p]] = f]
    BY <1>4 DEF GetSignal, StateTypeOK, LocalTypeOK
  <2>2. flights' \in Seq(Flight) /\ Len(flights') = Len(flights)
    <3>1. fl[p] \in 1..Len(flights) => flights[fl[p]] \in Flight
      BY <2>1
    <3>2. fl[p] \in 1..Len(flights) => f \in Flight
      BY <2>1, <3>1, FlightFields
    <3> HIDE DEF f
    <3>3. QED BY <2>1, <3>2, FlightUpdate
  <2>3. QED BY <1>2, <1>4, <2>2 DEF GetSignal
<1>5. CASE GetUnflight(p)
  BY <1>1, <1>5, ReturnType DEF GetUnflight, StateTypeOK
<1>6. CASE FetchDoH(p) \/ FetchUDP(p)
  <2>1. ans' \in [Procs -> Answer]
    BY <1>6 DEF FetchDoH, FetchUDP, StateTypeOK, LocalTypeOK, Answer
  <2>2. \E l \in PCs \ {"wait"} : Goto(p, l)
    BY <1>6 DEF FetchDoH, FetchUDP
  <2>3. QED
    BY <1>6, <2>1, <2>2, GotoType DEF FetchDoH, FetchUDP, StateTypeOK, LocalTypeOK, state
<1>7. CASE FetchStore(p)
  <2>1. cache' \in Entry \cup {NoEntry}
    <3>1. CASE UNCHANGED cache
      BY <3>1 DEF StateTypeOK
    <3>2. CASE ans[p] # Failed /\ cache' = [left |-> TTL, by |-> job[p]]
      <4>1. job[p] \in {"get", "refresh"}
        BY <1>7 DEF FetchStore, JobInv
      <4>2. TTL \in -1..TTL
        BY EchAssumption
      <4>3. QED BY <3>2, <4>1, <4>2 DEF Entry
    <3>3. QED BY <1>7, <3>1, <3>2 DEF FetchStore
  <2>2. StateTypeOK'
    BY <1>7, <2>1 DEF FetchStore, StateTypeOK
  <2>3. CASE Goto(p, "publish") /\ UNCHANGED locals
    BY <1>7, <2>2, <2>3, GotoType DEF FetchStore, LocalTypeOK, locals
  <2>4. CASE Return(p)
    BY <1>1, <1>7, <2>2, <2>4, ReturnType DEF FetchStore
  <2>5. QED BY <1>7, <2>3, <2>4 DEF FetchStore
<1>8. QED BY <1>3, <1>4, <1>5, <1>6, <1>7 DEF Fetch

LEMMA OlderType ==
  ASSUME NEW e \in Entry \cup {NoEntry}
  PROVE  Older(e) \in Entry \cup {NoEntry}
<1>1. CASE e = NoEntry
  BY <1>1 DEF Older
<1>2. CASE e # NoEntry /\ e \in Entry
  <2>1. e.left \in -1..TTL /\ TTL \in Nat
    BY <1>2, EchAssumption DEF Entry
  <2>2. (IF e.left < 0 THEN e.left ELSE e.left - 1) \in -1..TTL
    BY <2>1
  <2>3. QED BY <1>2, <2>2 DEF Older, Entry
<1>3. QED BY <1>1, <1>2

LEMMA OtherType ==
  ASSUME TypeOK,
         \/ \E p \in Procs : RefreshCall(p)
         \/ LoopTick \/ LoopStop \/ StopAutoRefresh
         \/ ClearCache \/ CleanupExpired \/ CacheConfig
         \/ Tick
  PROVE  TypeOK'
<1> USE DEF TypeOK, PCs, LeaderPCs
<1>1. CASE \E p \in Procs : Refresh(p)
  BY <1>1, GotoType DEF Refresh, StateTypeOK, LocalTypeOK
<1>2. CASE LoopStop
  BY <1>2, LoopIsProc, GotoType DEF LoopStop, StateTypeOK, LocalTypeOK, state, locals
<1>3. CASE StopAutoRefresh
  BY <1>3 DEF StopAutoRefresh, StateTypeOK, LocalTypeOK, state, locals
<1>4. CASE ClearCache \/ CleanupExpired
  BY <1>4 DEF ClearCache, CleanupExpired, StateTypeOK, LocalTypeOK, locals
<1>5. CASE CacheConfig
  <2>1. TTL \in -1..TTL /\ cache' = [left |-> TTL, by |-> "inject"]
    BY <1>5, EchAssumption DEF CacheConfig
  <2>2. cache' \in Entry
    BY <2>1 DEF Entry
  <2>3. QED BY <1>5, <2>2 DEF CacheConfig, StateTypeOK, LocalTypeOK, locals
<1>6. CASE Tick
  <2>1. cache' \in Entry \cup {NoEntry}
    BY <1>6, OlderType DEF Tick, StateTypeOK
  <2>2. ent' \in [Procs -> Entry \cup {NoEntry}]
    BY <1>6, OlderType DEF Tick, LocalTypeOK
  <2>3. QED BY <1>6, <2>1, <2>2 DEF Tick, StateTypeOK, LocalTypeOK
<1>7. QED BY <1>1, <1>2, <1>3, <1>4, <1>5, <1>6, LoopIsProc DEF RefreshCall, LoopTick

LEMMA TypeStep == TypeOK /\ JobInv /\ [Next]_vars => TypeOK'
<1>1. TypeOK /\ UNCHANGED vars => TypeOK'
  BY DEF vars, TypeOK, StateTypeOK, LocalTypeOK
<1>2. QED BY <1>1, GetType, LeaderType, OtherType DEF Next, Proceed

-----------------------------------------------------------------------------
(* The flight table *)

Safe == JobInv /\ FlightInv /\ SingleFlight /\ NoWaiterStranded /\ NoUnsetResult

\* A step of p leaves the frames of the other goroutines alone.
Others(p) ==
  \A q \in Procs \ {p} :
    pc'[q] = pc[q] /\ job'[q] = job[q] /\ fl'[q] = fl[q] /\ ans'[q] = ans[q]

\* What JobInv says of one goroutine in the next state.
JobAfter(p) ==
  /\ pc'[p] \in {"publish", "signal", "unflight"} => job'[p] = "get"
  /\ pc'[p] \in {"doh", "udp", "store"} => job'[p] \in {"get", "refresh"}
  /\ pc'[p] \in {"check", "flight"} => job'[p] = "get"
  /\ pc'[p] \in {"store", "publish", "signal", "unflight"} => ans'[p] # Unset

LEMMA JobStep ==
  ASSUME JobInv, NEW p \in Procs, Others(p), JobAfter(p)
  PROVE  JobInv'
BY DEF JobInv, Others, JobAfter

LEMMA ReturnLocal ==
  ASSUME LocalTypeOK, NEW p \in Procs, Return(p)
  PROVE  pc'[p] = Home(p) /\ pc'[p] \in {"idle", "tick"} /\ Others(p)
BY DEF LocalTypeOK, Return, Goto, Others, Home

\* A goroutine that neither leads nor waits afterwards, and did not lead before.
LEMMA Bystander ==
  ASSUME Safe, NEW p \in Procs, Others(p), JobAfter(p),
         UNCHANGED <<inflight, flights>>,
         ~Leads(p), ~Leads(p)', pc'[p] # "wait"
  PROVE  Safe'
<1> USE DEF Safe
<1>1. JobInv'
  BY JobStep
<1>2. \A q \in Procs : Leads(q)' => Leads(q) /\ q # p /\ fl'[q] = fl[q] /\ pc'[q] = pc[q]
  BY DEF Others, Leads
<1>3. \A q \in Procs : Leads(q) => Leads(q)' /\ q # p /\ fl'[q] = fl[q] /\ pc'[q] = pc[q]
  BY DEF Others, Leads
<1>4. FlightInv'
  BY <1>2 DEF FlightInv
<1>5. SingleFlight'
  BY <1>2, <1>3 DEF SingleFlight
<1>6. \A q \in Procs : pc'[q] = "wait" => pc[q] = "wait" /\ fl'[q] = fl[q]
  BY DEF Others
<1>7. NoWaiterStranded'
  BY <1>3, <1>6 DEF NoWaiterStranded
<1>8. NoUnsetResult'
  BY DEF NoUnsetResult
<1>9. QED BY <1>1, <1>4, <1>5, <1>7, <1>8

\* A leader that stays one and has not closed its flight yet.
LEMMA LeaderMoves ==
  ASSUME Safe, NEW p \in Procs, Others(p), JobAfter(p), UNCHANGED inflight,
         Leads(p), Leads(p)', fl'[p] = fl[p],
         DOMAIN flights' = DOMAIN flights, Len(flights') = Len(flights),
         \A i \in 1..Len(flights) : i # fl[p] => flights'[i] = flights[i],
         flights'[fl[p]].closed => flights'[fl[p]].res # Unset,
         flights[fl[p]].closed => flights'[fl[p]].closed,
         flights'[fl[p]].closed <=> pc'[p] = "unflight",
         pc'[p] \in {"signal", "unflight"} => flights'[fl[p]].res # Unset,
         TypeOK
  PROVE  Safe'
<1> USE DEF Safe
<1>1. JobInv'
  BY JobStep
<1>2. \A q \in Procs : Leads(q)' <=> q = p
  BY DEF Others, Leads, SingleFlight
<1>3. fl \in [Procs -> 0..Len(flights)] /\ Len(flights) \in Nat
  BY DEF TypeOK, LocalTypeOK, StateTypeOK
<1>4. FlightInv'
  BY <1>2 DEF FlightInv
<1>5. SingleFlight'
  BY <1>2 DEF SingleFlight
<1>6. \A q \in Procs : pc'[q] = "wait" => q # p /\ pc[q] = "wait" /\ fl'[q] = fl[q]
  BY DEF Others, Leads, LeaderPCs
<1>7. NoWaiterStranded'
  <2> SUFFICES ASSUME NEW q \in Procs, pc'[q] = "wait"
               PROVE  \/ flights'[fl'[q]].closed
                      \/ \E r \in Procs : Leads(r)' /\ fl'[r] = fl'[q] /\ pc'[r] # "unflight"
    BY DEF NoWaiterStranded
  <2>1. pc[q] = "wait" /\ fl'[q] = fl[q] /\ fl[q] \in 1..Len(flights)
    BY <1>3, <1>6 DEF TypeOK, LocalTypeOK
  <2>2. CASE fl[q] = fl[p]
    BY <1>2, <2>1, <2>2
  <2>3. CASE fl[q] # fl[p]
    <3>1. flights[fl[q]].closed
      BY <2>1, <2>3 DEF NoWaiterStranded, SingleFlight
    <3>2. QED BY <2>1, <2>3, <3>1
  <2>4. QED BY <2>2, <2>3
<1>8. NoUnsetResult'
  BY DEF NoUnsetResult
<1>9. QED BY <1>1, <1>4, <1>5, <1>7, <1>8

LEMMA FlightSafe ==
  ASSUME TypeOK, Safe, NEW p \in Procs, GetFlight(p)
  PROVE  Safe'
<1> USE DEF Safe
<1>1. pc[p] = "flight" /\ job[p] = "get" /\ UNCHANGED <<job, ans>>
  BY DEF GetFlight, JobInv
<1>2. Others(p) /\ \A q \in Procs \ {p} : Leads(q)' <=> Leads(q)
  BY DEF GetFlight, Goto, Others, TypeOK, LocalTypeOK, Leads
<1>3. ~Leads(p)
  BY <1>1 DEF Leads, LeaderPCs
<1>4. flights \in Seq(Flight) /\ Len(flights) \in Nat /\ fl \in [Procs -> 0..Len(flights)]
      /\ pc \in [Procs -> PCs]
  BY DEF TypeOK, StateTypeOK, LocalTypeOK
<1>5. CASE inflight # 0
  <2>1. /\ fl'[p] = inflight /\ pc'[p] = "wait" /\ UNCHANGED <<inflight, flights>>
    BY <1>4, <1>5 DEF GetFlight, Goto
  <2>2. ~Leads(p)'
    BY <2>1 DEF Leads, LeaderPCs
  <2>3. JobInv'
    BY <1>2, <2>1, JobStep DEF JobAfter
  <2>4. \A q \in Procs : Leads(q)' => Leads(q) /\ q # p /\ fl'[q] = fl[q] /\ pc'[q] = pc[q]
    BY <1>2, <2>2 DEF Others
  <2>5. \A q \in Procs : Leads(q) => Leads(q)' /\ q # p /\ fl'[q] = fl[q] /\ pc'[q] = pc[q]
    BY <1>2, <1>3 DEF Others
  <2>6. FlightInv'
    BY <2>1, <2>4 DEF FlightInv
  <2>7. SingleFlight'
    BY <2>1, <2>4, <2>5 DEF SingleFlight
  <2>8. NoUnsetResult'
    BY <2>1 DEF NoUnsetResult
  <2>9. NoWaiterStranded'
    <3>1. ASSUME NEW q \in Procs, pc'[q] = "wait"
          PROVE  \/ flights'[fl'[q]].closed
                 \/ \E r \in Procs : Leads(r)' /\ fl'[r] = fl'[q] /\ pc'[r] # "unflight"
      <4>1. CASE q = p
        <5>1. PICK r \in Procs : Leads(r)
          BY <1>5 DEF SingleFlight
        <5>2. fl[r] = inflight /\ (flights[fl[r]].closed <=> pc[r] = "unflight")
          BY <5>1 DEF SingleFlight, FlightInv
        <5>3. QED BY <2>1, <2>5, <4>1, <5>1, <5>2
      <4>2. CASE q # p
        <5>1. pc[q] = "wait" /\ fl'[q] = fl[q]
          BY <1>2, <3>1, <4>2 DEF Others
        <5>2. QED BY <2>1, <2>5, <5>1 DEF NoWaiterStranded
      <4>3. QED BY <4>1, <4>2
    <3>2. QED BY <3>1 DEF NoWaiterStranded
  <2>10. QED BY <2>3, <2>6, <2>7, <2>8, <2>9
<1>6. CASE inflight = 0
  <2> DEFINE n == Len(flights) + 1
             f == [closed |-> FALSE, res |-> Unset]
  <2>1. /\ flights' = Append(flights, f) /\ inflight' = n
        /\ fl'[p] = n /\ pc'[p] = "doh"
    BY <1>4, <1>6 DEF GetFlight, Goto
  <2>2. f.closed = FALSE
    OBVIOUS
  <2> HIDE DEF f
  <2>3. /\ flights'[n] = f /\ Len(flights') = n
        /\ \A i \in 1..Len(flights) : flights'[i] = flights[i]
    BY <1>4, <2>1
  <2>4. \A q \in Procs : ~Leads(q)
    BY <1>6 DEF SingleFlight
  <2>5. \A q \in Procs : Leads(q)' <=> q = p
    BY <1>1, <1>2, <2>1, <2>4 DEF Leads, LeaderPCs
  <2>6. JobInv'
    BY <1>1, <1>2, <2>1, JobStep DEF JobAfter
  <2>7. FlightInv'
    BY <2>1, <2>2, <2>3, <2>5 DEF FlightInv
  <2>8. SingleFlight'
    BY <1>4, <2>1, <2>5 DEF SingleFlight
  <2>9. NoUnsetResult'
    <3>1. ASSUME NEW i \in 1..n, flights'[i].closed PROVE flights'[i].res # Unset
      <4>1. CASE i = n
        BY <2>2, <2>3, <3>1, <4>1
      <4>2. CASE i # n
        <5>1. i \in 1..Len(flights)
          BY <1>4, <4>2
        <5>2. QED BY <2>3, <3>1, <5>1 DEF NoUnsetResult
      <4>3. QED BY <4>1, <4>2
    <3>2. QED BY <2>3, <3>1 DEF NoUnsetResult
  <2>10. NoWaiterStranded'
    <3>1. ASSUME NEW q \in Procs, pc'[q] = "wait" PROVE flights'[fl'[q]].closed
      <4>1. q # p /\ pc[q] = "wait" /\ fl'[q] = fl[q]
        BY <1>2, <2>1, <3>1 DEF Others
      <4>2. fl[q] \in 1..Len(flights) /\ flights[fl[q]].closed
        BY <1>4, <2>4, <4>1 DEF NoWaiterStranded, TypeOK, LocalTypeOK
      <4>3. QED BY <2>3, <4>1, <4>2
    <3>2. QED BY <3>1 DEF NoWaiterStranded
  <2>11. QED BY <2>6, <2>7, <2>8, <2>9, <2>10
<1>7. QED BY <1>5, <1>6

\* The steps of a Get before it leads or waits, and the end of its wait.
LEMMA GetSafe ==
  ASSUME TypeOK, Safe, NEW p \in Procs, GetCall(p) \/ GetCheck(p) \/ GetWait(p)
  PROVE  Safe'
<1> USE DEF LeaderPCs
<1>1. UNCHANGED <<inflight, flights>>
  BY DEF GetCall, GetCheck, GetWait, state
<1>2. CASE Return(p) /\ pc[p] \in {"check", "wait"}
  <2>1. pc'[p] \in {"idle", "tick"} /\ Others(p)
    BY <1>2, ReturnLocal DEF TypeOK
  <2>2. ~Leads(p) /\ ~Leads(p)' /\ JobAfter(p)
    BY <1>2, <2>1 DEF Leads, JobAfter
  <2>3. QED BY <1>1, <2>1, <2>2, Bystander
<1>3. CASE GetCall(p)
  <2>1. pc'[p] = "check" /\ job'[p] = "get" /\ Others(p) /\ pc[p] = "idle"
    BY <1>3 DEF GetCall, Goto, Others, TypeOK, LocalTypeOK
  <2>2. ~Leads(p) /\ ~Leads(p)' /\ JobAfter(p)
    BY <2>1 DEF Leads, JobAfter
  <2>3. QED BY <1>1, <2>1, <2>2, Bystander
<1>4. CASE GetCheck(p) /\ Goto(p, "flight") /\ UNCHANGED locals
  <2>1. pc'[p] = "flight" /\ Others(p) /\ pc[p] = "check" /\ job'[p] = job[p]
    BY <1>4 DEF GetCheck, Goto, Others, TypeOK, LocalTypeOK, locals
  <2>2. ~Leads(p) /\ ~Leads(p)' /\ JobAfter(p)
    BY <2>1 DEF Leads, JobAfter, Safe, JobInv
  <2>3. QED BY <1>1, <2>1, <2>2, Bystander
<1>5. QED BY <1>2, <1>3, <1>4 DEF GetCheck, GetWait

\* A query of a Get belongs to a leader, one of a Refresh to a bystander.
LEMMA FetchSafe ==
  ASSUME TypeOK, Safe, NEW p \in Procs, Fetch(p)
  PROVE  Safe'
<1> USE DEF LeaderPCs
<1>1. UNCHANGED <<inflight, flights>>
  BY DEF Fetch, FetchDoH, FetchUDP, FetchStore, state
<1>2. pc[p] \in {"doh", "udp", "store"} /\ job[p] \in {"get", "refresh"}
  BY DEF Fetch, FetchDoH, FetchUDP, FetchStore, Safe, JobInv
<1>3. ASSUME pc'[p] \in {"udp", "store", "publish"}, UNCHANGED <<job, fl>>, Others(p),
             pc'[p] \in {"store", "publish"} => ans'[p] # Unset,
             pc'[p] = "publish" => job[p] = "get"
      PROVE  Safe'
  <2>1. JobAfter(p)
    BY <1>2, <1>3 DEF JobAfter
  <2>2. CASE job[p] = "get"
    <3>1. Leads(p) /\ Leads(p)' /\ fl'[p] = fl[p]
      BY <1>2, <1>3, <2>2 DEF Leads
    <3>2. ~flights[fl[p]].closed
      BY <1>2, <3>1 DEF Safe, FlightInv
    <3>3. /\ ~flights'[fl[p]].closed
          /\ pc'[p] # "unflight" /\ pc'[p] \notin {"signal", "unflight"}
      BY <1>1, <1>3, <3>2
    <3>4. QED BY <1>1, <1>3, <2>1, <3>1, <3>2, <3>3, LeaderMoves
  <2>3. CASE job[p] = "refresh"
    <3>1. ~Leads(p) /\ ~Leads(p)' /\ pc'[p] # "wait"
      BY <1>3, <2>3 DEF Leads
    <3>2. QED BY <1>1, <1>3, <2>1, <3>1, Bystander
  <2>4. QED BY <1>2, <2>2, <2>3
<1>4. Config # Unset /\ Failed # Unset
  BY EchAssumption
<1>5. CASE FetchDoH(p)
  <2>1. /\ pc'[p] \in {"udp", "store"} /\ UNCHANGED <<job, fl>> /\ Others(p)
        /\ pc'[p] = "store" => ans'[p] # Unset
    BY <1>4, <1>5 DEF FetchDoH, Goto, Others, TypeOK, LocalTypeOK
  <2>2. QED BY <1>3, <2>1
<1>6. CASE FetchUDP(p)
  <2>1. /\ pc'[p] = "store" /\ UNCHANGED <<job, fl>> /\ Others(p)
        /\ ans'[p] # Unset
    BY <1>4, <1>6 DEF FetchUDP, Goto, Others, TypeOK, LocalTypeOK
  <2>2. QED BY <1>3, <2>1
<1>7. CASE FetchStore(p) /\ job[p] = "get"
  <2>1. pc[p] = "store" /\ Goto(p, "publish") /\ UNCHANGED locals
    BY <1>7 DEF FetchStore
  <2>2. ans[p] # Unset
    BY <2>1 DEF Safe, JobInv
  <2>3. /\ pc'[p] = "publish" /\ UNCHANGED <<job, fl>> /\ Others(p) /\ ans'[p] # Unset
    BY <2>1, <2>2 DEF Goto, Others, TypeOK, LocalTypeOK, locals
  <2>4. QED BY <1>3, <1>7, <2>3
<1>8. CASE FetchStore(p) /\ job[p] = "refresh"
  <2>1. Return(p) /\ ~Leads(p)
    BY <1>8 DEF FetchStore, Leads
  <2>2. pc'[p] \in {"idle", "tick"} /\ Others(p)
    BY <2>1, ReturnLocal DEF TypeOK
  <2>3. ~Leads(p)' /\ JobAfter(p)
    BY <2>2 DEF Leads, JobAfter
  <2>4. QED BY <1>1, <2>1, <2>2, <2>3, Bystander
<1>9. QED BY <1>2, <1>5, <1>6, <1>7, <1>8 DEF Fetch

LEMMA PublishSafe ==
  ASSUME TypeOK, Safe, NEW p \in Procs, GetPublish(p) \/ GetSignal(p)
  PROVE  Safe'
<1>1. Leads(p) /\ fl[p] = inflight /\ inflight # 0
  BY DEF GetPublish, GetSignal, Safe, JobInv, SingleFlight, Leads, LeaderPCs
<1>2. flights \in Seq(Flight) /\ Len(flights) \in Nat /\ fl[p] \in 1..Len(flights)
  BY <1>1 DEF TypeOK, StateTypeOK
<1>3. ans[p] # Unset /\ ~flights[fl[p]].closed
  BY <1>1 DEF GetPublish, GetSignal, Safe, JobInv, FlightInv
<1>4. flights[fl[p]] \in Flight
  BY <1>2
<1>5. CASE GetPublish(p)
  <2> DEFINE f == [flights[fl[p]] EXCEPT !.res = ans[p]]
  <2>1. f.res = ans[p] /\ f.closed = flights[fl[p]].closed
    BY <1>4 DEF Flight
  <2>2. flights' = [flights EXCEPT ![fl[p]] = f]
    BY <1>5 DEF GetPublish
  <2> HIDE DEF f
  <2>3. /\ flights'[fl[p]] = f /\ DOMAIN flights' = DOMAIN flights
        /\ Len(flights') = Len(flights)
        /\ \A i \in 1..Len(flights) : i # fl[p] => flights'[i] = flights[i]
    BY <1>2, <2>2
  <2>4. pc'[p] = "signal" /\ UNCHANGED <<inflight, job, fl, ans>> /\ Others(p)
    BY <1>5 DEF GetPublish, Goto, Others, TypeOK, LocalTypeOK, locals
  <2>5. Leads(p)' /\ JobAfter(p)
    BY <1>1, <1>3, <2>4 DEF Leads, LeaderPCs, JobAfter
  <2>6. QED BY <1>1, <1>3, <2>1, <2>3, <2>4, <2>5, LeaderMoves
<1>6. CASE GetSignal(p)
  <2> DEFINE f == [flights[fl[p]] EXCEPT !.closed = TRUE]
  <2>1. f.res = flights[fl[p]].res /\ f.closed = TRUE
    BY <1>4 DEF Flight
  <2>2. flights' = [flights EXCEPT ![fl[p]] = f]
    BY <1>6 DEF GetSignal
  <2>3. flights[fl[p]].res # Unset
    BY <1>1, <1>6 DEF GetSignal, Safe, FlightInv
  <2> HIDE DEF f
  <2>4. /\ flights'[fl[p]] = f /\ DOMAIN flights' = DOMAIN flights
        /\ Len(flights') = Len(flights)
        /\ \A i \in 1..Len(flights) : i # fl[p] => flights'[i] = flights[i]
    BY <1>2, <2>2
  <2>5. pc'[p] = "unflight" /\ UNCHANGED <<inflight, job, fl, ans>> /\ Others(p)
    BY <1>6 DEF GetSignal, Goto, Others, TypeOK, LocalTypeOK, locals
  <2>6. Leads(p)' /\ JobAfter(p)
    BY <1>1, <1>3, <2>5 DEF Leads, LeaderPCs, JobAfter
  <2>7. QED BY <1>1, <2>1, <2>3, <2>4, <2>5, <2>6, LeaderMoves
<1>7. QED BY <1>5, <1>6

LEMMA UnflightSafe ==
  ASSUME TypeOK, Safe, NEW p \in Procs, GetUnflight(p)
  PROVE  Safe'
<1>1. pc[p] = "unflight" /\ Return(p) /\ inflight' = 0 /\ UNCHANGED flights
  BY DEF GetUnflight
<1>2. Leads(p) /\ flights[fl[p]].closed
  BY <1>1 DEF Safe, JobInv, FlightInv, Leads, LeaderPCs
<1>3. pc'[p] \in {"idle", "tick"} /\ Others(p)
  BY <1>1, ReturnLocal DEF TypeOK
<1>4. \A q \in Procs : ~Leads(q)'
  BY <1>2, <1>3 DEF Safe, SingleFlight, Others, Leads, LeaderPCs
<1>5. JobAfter(p)
  BY <1>3 DEF JobAfter
<1>6. JobInv'
  BY <1>3, <1>5, JobStep DEF Safe
<1>7. FlightInv' /\ SingleFlight' /\ NoUnsetResult'
  BY <1>1, <1>4 DEF Safe, FlightInv, SingleFlight, NoUnsetResult
<1>8. NoWaiterStranded'
  <2>1. ASSUME NEW q \in Procs, pc'[q] = "wait" PROVE flights'[fl'[q]].closed
    <3>1. q # p /\ pc[q] = "wait" /\ fl'[q] = fl[q]
      BY <1>3, <2>1 DEF Others
    <3>2. CASE flights[fl[q]].closed
      BY <1>1, <3>1, <3>2
    <3>3. CASE \E r \in Procs : Leads(r) /\ fl[r] = fl[q] /\ pc[r] # "unflight"
      BY <1>1, <1>2, <3>3 DEF Safe, SingleFlight
    <3>4. QED BY <3>1, <3>2, <3>3 DEF Safe, NoWaiterStranded
  <2>2. QED BY <2>1 DEF NoWaiterStranded
<1>9. QED BY <1>6, <1>7, <1>8 DEF Safe

LEMMA OtherSafe ==
  ASSUME TypeOK, Safe,
         \/ \E p \in Procs : RefreshCall(p)
         \/ LoopTick \/ LoopStop \/ StopAutoRefresh
         \/ ClearCache \/ CleanupExpired \/ CacheConfig
         \/ Tick
  PROVE  Safe'
<1> USE LoopIsProc DEF LeaderPCs
<1>1. ASSUME NEW p \in Procs, Refresh(p), pc[p] \in {"idle", "tick"} PROVE Safe'
  <2>1. /\ pc'[p] = "doh" /\ job'[p] = "refresh" /\ Others(p)
        /\ UNCHANGED <<inflight, flights>>
    BY <1>1 DEF Refresh, Goto, Others, TypeOK, LocalTypeOK
  <2>2. ~Leads(p) /\ ~Leads(p)' /\ JobAfter(p)
    BY <1>1, <2>1 DEF Leads, JobAfter
  <2>3. QED BY <2>1, <2>2, Bystander
<1>2. CASE LoopStop
  <2>1. /\ pc'[Loop] = "exit" /\ pc[Loop] = "tick" /\ Others(Loop)
        /\ UNCHANGED <<inflight, flights>>
    BY <1>2 DEF LoopStop, Goto, Others, TypeOK, LocalTypeOK, locals, state
  <2>2. ~Leads(Loop) /\ ~Leads(Loop)' /\ JobAfter(Loop)
    BY <2>1 DEF Leads, JobAfter
  <2>3. QED BY <2>1, <2>2, Bystander
<1>3. CASE UNCHANGED control
  BY <1>3 DEF control, Safe, JobInv, FlightInv, SingleFlight, NoWaiterStranded,
              NoUnsetResult, Leads
<1>4. CASE StopAutoRefresh \/ ClearCache \/ CleanupExpired \/ CacheConfig \/ Tick
  BY <1>3, <1>4 DEF StopAutoRefresh, ClearCache, CleanupExpired, CacheConfig, Tick,
                    control, state, locals
<1>5. QED BY <1>1, <1>2, <1>4 DEF RefreshCall, LoopTick

LEMMA SafeStep == TypeOK /\ Safe /\ [Next]_vars => Safe'
<1>1. Safe /\ UNCHANGED vars => Safe'
  BY DEF vars, Safe, JobInv, FlightInv, SingleFlight, NoWaiterStranded,
         NoUnsetResult, Leads
<1>2. QED
  BY <1>1, GetSafe, FlightSafe, FetchSafe, PublishSafe, UnflightSafe, OtherSafe
     DEF Next, Proceed
-----------------------------------------------------------------------------
(* The theorems *)

LEMMA Invariance == Spec => []IInv
<1>1. Init => IInv
  BY InitInv
<1>2. IInv /\ [Next]_vars => IInv'
  BY TypeStep, SafeStep DEF IInv, Safe
<1>3. QED BY <1>1, <1>2, PTL DEF Spec

\* For any callers and any cache lifetime, the manager keeps its types and no
\* waiter holds a nil flight.
THEOREM TypeCorrect == Spec => []TypeOK
<1>1. IInv => TypeOK
  BY DEF IInv
<1>2. QED BY <1>1, Invariance, PTL

\* At most one Get queries the network at any time, and the flight table never
\* holds a flight nobody runs (getECHConfig).
THEOREM OneFlight == Spec => []SingleFlight
<1>1. IInv => SingleFlight
  BY DEF IInv
<1>2. QED BY <1>1, Invariance, PTL

\* No Get waits for a flight that nobody is going to finish (getECHConfig).
THEOREM WaitersServed == Spec => []NoWaiterStranded
<1>1. IInv => NoWaiterStranded
  BY DEF IInv
<1>2. QED BY <1>1, Invariance, PTL

\* A closed flight always carries its result (getECHConfig writes f.cfg and
\* f.err before it closes f.done).
THEOREM ResultBeforeSignal == Spec => []NoUnsetResult
<1>1. IInv => NoUnsetResult
  BY DEF IInv
<1>2. QED BY <1>1, Invariance, PTL
=============================================================================
