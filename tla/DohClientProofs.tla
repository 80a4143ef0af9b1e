--------------------------- MODULE DohClientProofs ---------------------------
(***************************************************************************)
(* DohClient for any number of callers and servers: types, the rotation    *)
(* that skips no server, and an index that names one that has answered.    *)
(***************************************************************************)
EXTENDS DohClient, TLAPS

\* Whatever a caller goes on to, the servers before its offset were asked, and
\* the one at its offset too once a request has been sent to it.
RotationInv ==
  \A p \in Callers : pc[p] \in {"rfc8484", "json", "backoff", "next"} =>
    /\ \A k \in 0..N - 1 : k < offset[p] => (start[p] + k) % N \in asked[p]
    /\ pc[p] # "rfc8484" => At(p) \in asked[p]

\* What a caller's place says of its attempt, its kind and the answer it has.
PlaceInv ==
  \A p \in Callers :
    /\ pc[p] = "backoff" => attempt[p] = 0
    /\ pc[p] = "udp" => kind[p] = "udp"
    /\ pc[p] = "store" => At(p) \in answered

Safe == PlaceInv /\ RotationInv /\ AllServersTried /\ IndexHasAnswered

IInv == TypeOK /\ Safe
-----------------------------------------------------------------------------
(* Rotation *)

LEMMA Modulo ==
  ASSUME NEW a \in Nat
  PROVE  /\ a % N \in Servers
         /\ a < N => a % N = a
BY DohAssumption DEF Servers

LEMMA WrapAround ==
  ASSUME NEW i \in Servers
  PROVE  (i + N) % N = i
BY DohAssumption DEF Servers

\* N steps from anywhere visit every server.
LEMMA Rotation ==
  ASSUME NEW s \in Servers, NEW i \in Servers
  PROVE  \E k \in 0..N - 1 : (s + k) % N = i
<1>1. N \in Nat \ {0} /\ s \in 0..N - 1 /\ i \in 0..N - 1
  BY DohAssumption DEF Servers
<1>2. CASE s <= i
  <2>1. i - s \in 0..N - 1 /\ s + (i - s) = i /\ i \in Nat /\ i < N
    BY <1>1, <1>2
  <2>2. (s + (i - s)) % N = i
    BY <2>1, Modulo
  <2>3. QED BY <2>1, <2>2
<1>3. CASE i < s
  <2>1. i - s + N \in 0..N - 1 /\ s + (i - s + N) = i + N
    BY <1>1, <1>3
  <2>2. QED BY <2>1, WrapAround
<1>4. QED BY <1>1, <1>2, <1>3

LEMMA AtServer ==
  ASSUME TypeOK, NEW p \in Callers
  PROVE  At(p) \in Servers
<1>1. start[p] + offset[p] \in Nat
  BY DohAssumption DEF TypeOK, Servers
<1>2. QED BY <1>1, Modulo DEF At
-----------------------------------------------------------------------------
LEMMA InitInv == Init => IInv
<1> SUFFICES ASSUME Init PROVE IInv
  OBVIOUS
<1>1. 0 \in Servers
  BY DohAssumption DEF Servers
<1>2. TypeOK
  BY <1>1 DEF Init, TypeOK, PCs, Kinds, Results
<1>3. Safe
  BY DEF Init, Safe, PlaceInv, RotationInv, AllServersTried, IndexHasAnswered
<1>4. QED BY <1>2, <1>3 DEF IInv

\* Types of a caller's frame after one of its steps.
LEMMA GotoType ==
  ASSUME TypeOK, NEW p \in Callers, NEW l \in PCs, Goto(p, l)
  PROVE  pc' \in [Callers -> PCs]
BY DEF TypeOK, Goto

LEMMA ReturnType ==
  ASSUME TypeOK, NEW p \in Callers, NEW r \in Results, Return(p, r)
  PROVE  pc' \in [Callers -> PCs] /\ res' \in [Callers -> Results]
BY DEF TypeOK, Return, Goto, PCs

LEMMA TypeStep == IInv /\ [Next]_vars => TypeOK'
<1> SUFFICES ASSUME IInv, [Next]_vars PROVE TypeOK'
  OBVIOUS
<1> USE DEF IInv
<1>1. CASE UNCHANGED vars
  BY <1>1 DEF vars, TypeOK
<1>2. ASSUME NEW p \in Callers, Call(p) PROVE TypeOK'
  <2>1. lastServerIdx % N \in Servers /\ 0 \in Servers
    BY Modulo, DohAssumption DEF TypeOK, Servers
  <2>2. pc' \in [Callers -> PCs] /\ res' \in [Callers -> Results]
    BY <1>2 DEF Call, Return, Goto, TypeOK, PCs, Results
  <2>3. kind' \in [Callers -> Kinds]
    BY <1>2 DEF Call, TypeOK
  <2>4. /\ start' \in [Callers -> Servers] /\ offset' \in [Callers -> Servers]
        /\ attempt' \in [Callers -> 0..1] /\ asked' \in [Callers -> SUBSET Servers]
    BY <1>2, <2>1 DEF Call, TypeOK
  <2>5. QED BY <1>2, <2>2, <2>3, <2>4 DEF Call, TypeOK, client
<1>3. ASSUME NEW p \in Callers, NextServer(p) PROVE TypeOK'
  <2>1. CASE offset[p] + 1 < N /\ offset' = [offset EXCEPT ![p] = @ + 1]
              /\ attempt' = [attempt EXCEPT ![p] = 0] /\ Goto(p, "rfc8484") /\ UNCHANGED res
    <3>1. offset[p] + 1 \in Servers
      BY <2>1, DohAssumption DEF TypeOK, Servers
    <3>2. pc' \in [Callers -> PCs]
      BY <2>1, GotoType DEF PCs
    <3>3. offset' \in [Callers -> Servers] /\ attempt' \in [Callers -> 0..1]
      BY <2>1, <3>1 DEF TypeOK
    <3>4. QED BY <1>3, <2>1, <3>2, <3>3 DEF NextServer, TypeOK, client
  <2>2. CASE Return(p, "failed") /\ UNCHANGED <<offset, attempt>>
    BY <1>3, <2>2, ReturnType DEF NextServer, TypeOK, client, Results
  <2>3. QED BY <1>3, <2>1, <2>2 DEF NextServer
<1>4. ASSUME NEW p \in Callers, Store(p) PROVE TypeOK'
  <2>1. lastServerIdx' \in Servers
    BY <1>4, AtServer DEF Store, TypeOK
  <2>2. pc' \in [Callers -> PCs] /\ res' \in [Callers -> Results]
    BY <1>4, GotoType, ReturnType DEF Store, Succeed, TypeOK, PCs, Results
  <2>3. QED BY <1>4, <2>1, <2>2 DEF Store, TypeOK, frame
<1>5. ASSUME NEW p \in Callers, Record(p) \/ ResolveHTTPSUDP(p) PROVE TypeOK'
  <2>1. pc' \in [Callers -> PCs] /\ res' \in [Callers -> Results]
    BY <1>5, ReturnType DEF Record, ResolveHTTPSUDP, Results
  <2>2. QED BY <1>5, <2>1 DEF Record, ResolveHTTPSUDP, TypeOK, client, frame
<1>6. ASSUME NEW p \in Callers, Rfc8484(p) \/ Json(p) PROVE TypeOK'
  <2>1. answered' \subseteq Servers
    BY <1>6, AtServer DEF Rfc8484, Json, Answer, TypeOK
  <2>2. asked' \in [Callers -> SUBSET Servers]
    BY <1>6, AtServer DEF Rfc8484, Json, Ask, TypeOK
  <2>3. pc' \in [Callers -> PCs]
    BY <1>6, GotoType DEF Rfc8484, Json, Answer, PCs
  <2>4. QED BY <1>6, <2>1, <2>2, <2>3 DEF Rfc8484, Json, TypeOK, client, frame
<1>7. ASSUME NEW p \in Callers, Backoff(p) PROVE TypeOK'
  <2>1. attempt[p] = 0
    BY <1>7 DEF Backoff, Safe, PlaceInv
  <2>2. attempt' \in [Callers -> 0..1]
    BY <1>7, <2>1 DEF Backoff, TypeOK
  <2>3. pc' \in [Callers -> PCs]
    BY <1>7, GotoType DEF Backoff, PCs
  <2>4. QED BY <1>7, <2>2, <2>3 DEF Backoff, TypeOK, client
<1>8. QED BY <1>1, <1>2, <1>3, <1>4, <1>5, <1>6, <1>7 DEF Next, Proceed
-----------------------------------------------------------------------------
(* A step of p leaves the others' frames alone, so only p's has to be looked at *)

Others(p) ==
  \A q \in Callers \ {p} :
    /\ pc'[q] = pc[q] /\ kind'[q] = kind[q] /\ start'[q] = start[q]
    /\ offset'[q] = offset[q] /\ attempt'[q] = attempt[q]
    /\ asked'[q] = asked[q] /\ res'[q] = res[q]

PlaceAfter(p) ==
  /\ pc'[p] = "backoff" => attempt'[p] = 0
  /\ pc'[p] = "udp" => kind'[p] = "udp"
  /\ pc'[p] = "store" => At(p)' \in answered'

RotationAfter(p) ==
  pc'[p] \in {"rfc8484", "json", "backoff", "next"} =>
    /\ \A k \in 0..N - 1 : k < offset'[p] => (start'[p] + k) % N \in asked'[p]
    /\ pc'[p] # "rfc8484" => At(p)' \in asked'[p]

LEMMA OneCaller ==
  ASSUME Safe, NEW p \in Callers, Others(p), PlaceAfter(p), RotationAfter(p),
         res'[p] = "failed" /\ kind'[p] # "udp" => asked'[p] = Servers,
         answered \subseteq answered', IndexHasAnswered'
  PROVE  Safe'
<1>1. PlaceInv'
  <2>1. \A q \in Callers \ {p} : At(q)' = At(q)
    BY DEF Others, At
  <2>2. QED BY <2>1 DEF Safe, PlaceInv, PlaceAfter, Others
<1>2. RotationInv'
  <2>1. \A q \in Callers \ {p} : At(q)' = At(q)
    BY DEF Others, At
  <2>2. QED BY <2>1 DEF Safe, RotationInv, RotationAfter, Others
<1>3. AllServersTried'
  BY DEF Safe, AllServersTried, Others
<1>4. QED BY <1>1, <1>2, <1>3 DEF Safe

\* A step that leaves the rotation and the shared state alone.
LEMMA Stays ==
  ASSUME IInv, NEW p \in Callers, Others(p),
         UNCHANGED <<lastServerIdx, answered>>,
         start'[p] = start[p], offset'[p] = offset[p], asked'[p] = asked[p],
         kind'[p] = kind[p],
         pc'[p] \in {"idle", "record"} \/
           (pc[p] \in {"json", "backoff"} /\ pc'[p] \in {"rfc8484", "backoff", "next"}),
         pc'[p] = "backoff" => attempt'[p] = 0,
         res'[p] = "failed" => res[p] = "failed" \/ kind[p] = "udp"
  PROVE  Safe'
<1>1. At(p)' = At(p)
  BY DEF At
<1>2. PlaceAfter(p)
  BY DEF PlaceAfter
<1>3. RotationAfter(p)
  BY <1>1 DEF RotationAfter, IInv, Safe, RotationInv
<1>4. IndexHasAnswered'
  BY DEF IInv, Safe, IndexHasAnswered
<1>5. QED BY <1>2, <1>3, <1>4, OneCaller DEF IInv, Safe, AllServersTried

LEMMA CallSafe ==
  ASSUME IInv, NEW p \in Callers, Call(p)
  PROVE  Safe'
<1>1. Others(p)
  BY DEF Call, Return, Goto, Others, IInv, TypeOK
<1>2. /\ pc'[p] \in {"idle", "rfc8484", "udp"} /\ offset'[p] = 0
      /\ pc'[p] = "udp" => kind'[p] = "udp"
      /\ res'[p] # "failed"
  BY DEF Call, Return, Goto, IInv, TypeOK
<1>3. PlaceAfter(p) /\ RotationAfter(p)
  BY <1>2 DEF PlaceAfter, RotationAfter
<1>4. answered \subseteq answered' /\ IndexHasAnswered'
  BY DEF Call, client, IInv, Safe, IndexHasAnswered
<1>5. QED BY <1>1, <1>2, <1>3, <1>4, OneCaller DEF IInv

LEMMA NextServerSafe ==
  ASSUME IInv, NEW p \in Callers, NextServer(p)
  PROVE  Safe'
<1>1. /\ pc[p] = "next" /\ UNCHANGED <<lastServerIdx, answered>>
      /\ start'[p] = start[p] /\ asked'[p] = asked[p] /\ kind'[p] = kind[p]
  BY DEF NextServer, client
<1>2. Others(p)
  BY DEF NextServer, Return, Goto, Others, IInv, TypeOK
<1>3. /\ \A k \in 0..N - 1 : k < offset[p] => (start[p] + k) % N \in asked[p]
      /\ (start[p] + offset[p]) % N \in asked[p]
  BY <1>1 DEF IInv, Safe, RotationInv, At
<1>4. offset[p] \in 0..N - 1 /\ N \in Nat
  BY DohAssumption DEF IInv, TypeOK, Servers
<1>5. \A k \in 0..N - 1 : k < offset[p] + 1 => (start[p] + k) % N \in asked[p]
  <2> SUFFICES ASSUME NEW k \in 0..N - 1, k < offset[p] + 1
               PROVE  (start[p] + k) % N \in asked[p]
    OBVIOUS
  <2>1. k < offset[p] \/ k = offset[p]
    BY <1>4
  <2>2. QED BY <1>3, <2>1
<1>6. IndexHasAnswered' /\ answered \subseteq answered'
  BY <1>1 DEF IInv, Safe, IndexHasAnswered
<1>7. CASE offset[p] + 1 < N /\ offset' = [offset EXCEPT ![p] = @ + 1]
            /\ Goto(p, "rfc8484") /\ UNCHANGED res
  <2>1. pc'[p] = "rfc8484" /\ offset'[p] = offset[p] + 1 /\ res'[p] = res[p]
    BY <1>7 DEF Goto, IInv, TypeOK
  <2>2. PlaceAfter(p) /\ RotationAfter(p)
    BY <1>1, <1>5, <2>1 DEF PlaceAfter, RotationAfter
  <2>3. QED BY <1>1, <1>2, <1>6, <2>1, <2>2, OneCaller DEF IInv, Safe, AllServersTried
<1>8. CASE offset[p] + 1 = N /\ Return(p, "failed")
  <2>1. pc'[p] = "idle"
    BY <1>8 DEF Return, Goto, IInv, TypeOK
  <2>2. PlaceAfter(p) /\ RotationAfter(p)
    BY <2>1 DEF PlaceAfter, RotationAfter
  <2>3. asked[p] = Servers
    <3>1. \A k \in 0..N - 1 : (start[p] + k) % N \in asked[p]
      BY <1>4, <1>5, <1>8
    <3>2. start[p] \in Servers /\ asked[p] \subseteq Servers
      BY DEF IInv, TypeOK
    <3>3. QED BY <3>1, <3>2, Rotation
  <2>4. QED BY <1>1, <1>2, <1>6, <2>2, <2>3, OneCaller DEF IInv
<1>9. QED BY <1>7, <1>8 DEF NextServer

LEMMA StoreSafe ==
  ASSUME IInv, NEW p \in Callers, Store(p)
  PROVE  Safe'
<1>1. /\ pc[p] = "store" /\ UNCHANGED answered
      /\ start'[p] = start[p] /\ offset'[p] = offset[p]
      /\ asked'[p] = asked[p] /\ kind'[p] = kind[p]
  BY DEF Store, frame
<1>2. Others(p)
  BY DEF Store, Succeed, Return, Goto, Others, IInv, TypeOK, frame
<1>3. pc'[p] \in {"idle", "record"} /\ (res'[p] = "failed" => res[p] = "failed")
  BY DEF Store, Succeed, Return, Goto, IInv, TypeOK
<1>4. PlaceAfter(p) /\ RotationAfter(p)
  BY <1>3 DEF PlaceAfter, RotationAfter
<1>5. At(p) \in answered
  BY <1>1 DEF IInv, Safe, PlaceInv
<1>6. IndexHasAnswered'
  BY <1>1, <1>5 DEF Store, IInv, Safe, IndexHasAnswered
<1>7. QED BY <1>1, <1>2, <1>3, <1>4, <1>6, OneCaller DEF IInv, Safe, AllServersTried

LEMMA RequestSafe ==
  ASSUME IInv, NEW p \in Callers, Rfc8484(p) \/ Json(p)
  PROVE  Safe'
<1>1. /\ pc[p] \in {"rfc8484", "json"} /\ UNCHANGED lastServerIdx
      /\ start'[p] = start[p] /\ offset'[p] = offset[p]
      /\ kind'[p] = kind[p] /\ res'[p] = res[p] /\ attempt'[p] = attempt[p]
  BY DEF Rfc8484, Json, frame, client
<1>2. Others(p)
  BY DEF Rfc8484, Json, Ask, Answer, Goto, Others, IInv, TypeOK, frame
<1>3. At(p)' = At(p)
  BY <1>1 DEF At
<1>4. asked[p] \subseteq asked'[p] /\ At(p) \in asked'[p]
  <2>1. CASE Rfc8484(p)
    BY <2>1 DEF Rfc8484, Ask, IInv, TypeOK
  <2>2. CASE Json(p)
    BY <2>2 DEF Json, IInv, Safe, RotationInv
  <2>3. QED BY <2>1, <2>2
<1>5. /\ answered \subseteq answered'
      /\ pc'[p] = "store" => At(p) \in answered'
      /\ pc'[p] = "backoff" => attempt[p] = 0
      /\ pc'[p] \in {"store", "json", "backoff", "next"}
  BY DEF Rfc8484, Json, Answer, Goto, IInv, TypeOK
<1>6. PlaceAfter(p)
  BY <1>1, <1>3, <1>5 DEF PlaceAfter
<1>7. \A k \in 0..N - 1 : k < offset[p] => (start[p] + k) % N \in asked[p]
  BY <1>1 DEF IInv, Safe, RotationInv
<1>8. RotationAfter(p)
  BY <1>1, <1>3, <1>4, <1>7 DEF RotationAfter
<1>9. IndexHasAnswered'
  BY <1>1, <1>5 DEF IInv, Safe, IndexHasAnswered
<1>10. res'[p] = "failed" /\ kind'[p] # "udp" => asked'[p] = Servers
  <2>1. asked'[p] \subseteq Servers
    BY AtServer DEF Rfc8484, Json, Ask, IInv, TypeOK
  <2>2. QED BY <1>1, <1>4, <2>1 DEF IInv, Safe, AllServersTried
<1>11. QED BY <1>2, <1>5, <1>6, <1>8, <1>9, <1>10, OneCaller DEF IInv

LEMMA SafeStep == IInv /\ [Next]_vars => Safe'
<1> SUFFICES ASSUME IInv, [Next]_vars PROVE Safe'
  OBVIOUS
<1>1. CASE UNCHANGED vars
  BY <1>1 DEF vars, IInv, Safe, PlaceInv, RotationInv, AllServersTried,
              IndexHasAnswered, At
<1>2. ASSUME NEW p \in Callers, Backoff(p) PROVE Safe'
  <2>1. Others(p) /\ pc[p] = "backoff" /\ pc'[p] \in {"rfc8484", "next"}
    BY <1>2 DEF Backoff, Goto, Others, IInv, TypeOK
  <2>2. QED BY <1>2, <2>1, Stays DEF Backoff, client
<1>3. ASSUME NEW p \in Callers, Record(p) \/ ResolveHTTPSUDP(p) PROVE Safe'
  <2>1. Others(p) /\ pc'[p] = "idle"
    BY <1>3 DEF Record, ResolveHTTPSUDP, Return, Goto, Others, IInv, TypeOK, frame
  <2>2. res'[p] = "failed" => kind[p] = "udp"
    BY <1>3 DEF Record, ResolveHTTPSUDP, Return, IInv, TypeOK, Safe, PlaceInv
  <2>3. QED BY <1>3, <2>1, <2>2, Stays DEF Record, ResolveHTTPSUDP, client, frame
<1>4. QED
  BY <1>1, <1>2, <1>3, CallSafe, NextServerSafe, StoreSafe, RequestSafe DEF Next, Proceed
-----------------------------------------------------------------------------
(* The theorems *)

LEMMA Invariance == Spec => []IInv
<1>1. IInv /\ [Next]_vars => IInv'
  BY TypeStep, SafeStep DEF IInv
<1>2. QED BY <1>1, InitInv, PTL DEF Spec

\* For any callers and servers, the client keeps its types; no server is given
\* a third attempt (resolveWithServer).
THEOREM TypeCorrect == Spec => []TypeOK
<1>1. IInv => TypeOK
  BY DEF IInv
<1>2. QED BY <1>1, Invariance, PTL

\* A Resolve that fails has asked every server of the list, for a list of any
\* length, whatever other callers do to the index.
THEOREM EveryServerAsked == Spec => []AllServersTried
<1>1. IInv => AllServersTried
  BY DEF IInv, Safe
<1>2. QED BY <1>1, Invariance, PTL

\* lastServerIdx is the first server or one that has answered (Resolve).
THEOREM IndexSound == Spec => []IndexHasAnswered
<1>1. IInv => IndexHasAnswered
  BY DEF IInv, Safe
<1>2. QED BY <1>1, Invariance, PTL
=============================================================================
