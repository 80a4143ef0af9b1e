----------------------------- MODULE LoggerProofs -----------------------------
(***************************************************************************)
(* Package logger.  The registry, for any goroutines, scopes and levels:   *)
(* one logger for each scope, all of the global level.  The rotating file, *)
(* for any number of backups, kills and lines: none is lost out of turn,   *)
(* none removed before its time, no file outgrows the limit.  The runtime  *)
(* log, for any limits and lines: it is the longest end of the session     *)
(* that fits.                                                              *)
(***************************************************************************)
EXTENDS Logger, FiniteSetTheorems, SequenceTheorems, WellFoundedInduction, TLAPS

RegTypeOK ==
  /\ globalLevel \in Nat
  /\ setter \in {"out", "loop"}
  /\ loggerMap \in [Scopes -> Nat]
  /\ loggers \in Seq(Nat)
  /\ call \in [Callers -> [scope : Scopes, at : {"out", "create"}]]
  /\ got \in [Callers -> Nat]
  /\ left \subseteq 1..Len(loggers)
  /\ own \subseteq 1..Len(loggers)

Used == {s \in Scopes : loggerMap[s] # 0}

\* The map leads to every logger, and there are no more of them than scopes in use.
MapExact ==
  /\ \A s \in Scopes : loggerMap[s] \in 0..Len(loggers)
  /\ \A l \in 1..Len(loggers) : \E s \in Scopes : loggerMap[s] = l
  /\ Len(loggers) = Cardinality(Used)

GivenOK == \A g \in Callers : got[g] # 0 => \E s \in Scopes : loggerMap[s] = got[g]

\* The loop of SetGlobalLevel leaves no logger behind it at another level.
LevelsInv ==
  /\ setter = "out" => left = {}
  /\ \A l \in 1..Len(loggers) : l \in own \/ l \in left \/ loggers[l] = globalLevel

RegInv == RegTypeOK /\ MapExact /\ GivenOK /\ LevelsInv
-----------------------------------------------------------------------------
LEMMA InitReg == RegInit => RegInv
<1> SUFFICES ASSUME RegInit PROVE RegInv
  OBVIOUS
<1>1. Len(loggers) = 0 /\ loggers \in Seq(Nat)
  BY DEF RegInit
<1>2. \A g \in Callers : call[g] = [scope |-> CHOOSE s \in Scopes : TRUE, at |-> "out"]
  BY DEF RegInit
<1>3. (CHOOSE s \in Scopes : TRUE) \in Scopes
  BY RegistryAssumption
<1>4. RegTypeOK
  BY <1>1, <1>3 DEF RegInit, RegTypeOK
<1>5. Used = {}
  BY DEF RegInit, Used
<1>6. QED
  BY <1>1, <1>4, <1>5, FS_EmptySet DEF RegInit, RegInv, MapExact, GivenOK, LevelsInv

\* A step that keeps the map and the number of loggers.
LEMMA MapKept ==
  ASSUME RegInv, UNCHANGED loggerMap, Len(loggers') = Len(loggers)
  PROVE  MapExact'
BY DEF RegInv, MapExact, Used

LEMMA LookReg ==
  ASSUME RegInv, NEW g \in Callers, GetLook(g)
  PROVE  RegInv'
<1>1. UNCHANGED <<globalLevel, setter, left, loggerMap, loggers, own>>
  BY DEF GetLook
<1>2. RegTypeOK'
  BY <1>1 DEF GetLook, Give, Place, RegInv, RegTypeOK
<1>3. GivenOK'
  BY <1>1 DEF GetLook, Give, RegInv, RegTypeOK, GivenOK
<1>4. LevelsInv'
  BY <1>1 DEF RegInv, LevelsInv
<1>5. QED BY <1>1, <1>2, <1>3, <1>4, MapKept DEF RegInv

LEMMA CreateReg ==
  ASSUME RegInv, NEW g \in Callers, GetCreate(g)
  PROVE  RegInv'
<1> DEFINE s == call[g].scope
           n == Len(loggers) + 1
<1>0. /\ s \in Scopes /\ Len(loggers) \in Nat /\ n \in 1..n /\ n # 0
      /\ UNCHANGED <<globalLevel, setter, left, own>>
      /\ call' = [call EXCEPT ![g] = [scope |-> s, at |-> "out"]]
      /\ left = {} /\ loggers \in Seq(Nat) /\ globalLevel \in Nat
  BY DEF GetCreate, Place, RegInv, RegTypeOK, LevelsInv
<1>1. CASE loggerMap[s] # 0 /\ Give(g, loggerMap[s]) /\ UNCHANGED <<loggerMap, loggers>>
  <2>1. RegTypeOK' /\ GivenOK'
    BY <1>0, <1>1 DEF Give, RegInv, RegTypeOK, GivenOK
  <2>2. LevelsInv'
    BY <1>0, <1>1 DEF RegInv, LevelsInv
  <2>3. QED BY <1>1, <2>1, <2>2, MapKept DEF RegInv
<1>2. CASE /\ loggerMap[s] = 0
           /\ loggers' = Append(loggers, globalLevel)
           /\ loggerMap' = [loggerMap EXCEPT ![s] = Len(loggers')]
           /\ Give(g, Len(loggers'))
  <2>1. /\ loggers' \in Seq(Nat) /\ Len(loggers') = n
        /\ loggers'[n] = globalLevel
        /\ \A l \in 1..Len(loggers) : loggers'[l] = loggers[l]
    BY <1>0, <1>2
  <2>2. \A l \in 1..n : l \in 1..Len(loggers) \/ l = n
    BY <1>0
  <2>3. /\ loggerMap' \in [Scopes -> Nat]
        /\ loggerMap'[s] = n
        /\ \A t \in Scopes : t # s => loggerMap'[t] = loggerMap[t]
    BY <1>0, <1>2, <2>1 DEF RegInv, RegTypeOK
  <2>4. got' = [got EXCEPT ![g] = n]
    BY <1>2, <2>1 DEF Give
  <2>5. RegTypeOK'
    <3>1. 1..Len(loggers) \subseteq 1..n
      BY <1>0
    <3>2. left' \subseteq 1..Len(loggers') /\ own' \subseteq 1..Len(loggers')
      BY <1>0, <2>1, <3>1 DEF RegInv, RegTypeOK
    <3>3. QED BY <1>0, <2>1, <2>3, <2>4, <3>2 DEF RegInv, RegTypeOK
  <2>6. \A t \in Scopes : loggerMap'[t] \in 0..n
    BY <1>0, <2>3 DEF RegInv, MapExact
  <2>7. \A l \in 1..n : \E t \in Scopes : loggerMap'[t] = l
    <3>1. ASSUME NEW l \in 1..Len(loggers) PROVE \E t \in Scopes : loggerMap'[t] = l
      <4>1. PICK t \in Scopes : loggerMap[t] = l
        BY DEF RegInv, MapExact
      <4>2. t # s
        BY <1>2, <4>1
      <4>3. QED BY <2>3, <4>1, <4>2
    <3>2. QED BY <1>0, <2>2, <2>3, <3>1
  <2>8. Cardinality(Used') = Cardinality(Used) + 1
    <3>1. Used' = Used \cup {s} /\ s \notin Used
      BY <1>0, <1>2, <2>3 DEF Used
    <3>2. IsFiniteSet(Used)
      <4>1. Used \in SUBSET Scopes
        BY DEF Used
      <4>2. QED BY <4>1, RegistryAssumption, FS_Subset
    <3>3. QED BY <3>1, <3>2, FS_AddElement
  <2>9. MapExact'
    BY <2>1, <2>6, <2>7, <2>8 DEF RegInv, MapExact
  <2>10. GivenOK'
    BY <1>0, <1>2, <2>3, <2>4 DEF RegInv, RegTypeOK, GivenOK
  <2>11. LevelsInv'
    BY <1>0, <2>1, <2>2 DEF RegInv, LevelsInv
  <2>12. QED BY <2>5, <2>9, <2>10, <2>11 DEF RegInv
<1>3. QED BY <1>1, <1>2 DEF GetCreate

LEMMA SetGlobalReg ==
  ASSUME RegInv, SetGlobal
  PROVE  RegInv'
<1>1. /\ UNCHANGED <<loggerMap, loggers, call, got>>
      /\ left' = {loggerMap[s] : s \in Scopes} \ {0} /\ own' = {}
      /\ setter' = "loop" /\ globalLevel' \in Nat
  BY RegistryAssumption DEF SetGlobal
<1>2. left' = 1..Len(loggers)
  BY <1>1 DEF RegInv, RegTypeOK, MapExact
<1>3. RegTypeOK' /\ LevelsInv' /\ GivenOK'
  BY <1>1, <1>2 DEF RegInv, RegTypeOK, LevelsInv, GivenOK
<1>4. QED BY <1>1, <1>3, MapKept DEF RegInv

\* The level of one of the loggers changes, and its history with it.
LEMMA LevelReg ==
  ASSUME RegInv, UNCHANGED <<globalLevel, setter, loggerMap, call, got>>,
         NEW l \in 1..Len(loggers), NEW v \in Nat, loggers' = [loggers EXCEPT ![l] = v],
         \/ v = globalLevel /\ left' = left \ {l} /\ own' = own \ {l}
         \/ UNCHANGED left /\ own' = own \cup {l}
  PROVE  RegInv'
<1>1. /\ loggers' \in Seq(Nat) /\ Len(loggers') = Len(loggers)
      /\ \A m \in 1..Len(loggers) : loggers'[m] = IF m = l THEN v ELSE loggers[m]
  BY DEF RegInv, RegTypeOK
<1>2. RegTypeOK' /\ GivenOK'
  BY <1>1 DEF RegInv, RegTypeOK, GivenOK
<1>3. LevelsInv'
  BY <1>1 DEF RegInv, LevelsInv
<1>4. QED BY <1>1, <1>2, <1>3, MapKept DEF RegInv

LEMMA SetGlobalStepReg ==
  ASSUME RegInv, SetGlobalStep
  PROVE  RegInv'
<1>1. ASSUME NEW l \in left, loggers' = [loggers EXCEPT ![l] = globalLevel],
             left' = left \ {l}, own' = own \ {l}, UNCHANGED setter
      PROVE  RegInv'
  <2>1. l \in 1..Len(loggers) /\ globalLevel \in Nat
    BY DEF RegInv, RegTypeOK
  <2>2. QED BY <1>1, <2>1, LevelReg DEF SetGlobalStep
<1>2. CASE left = {} /\ setter' = "out" /\ UNCHANGED <<left, loggers, own>>
  <2>1. RegTypeOK' /\ GivenOK' /\ LevelsInv'
    BY <1>2 DEF SetGlobalStep, RegInv, RegTypeOK, GivenOK, LevelsInv
  <2>2. QED BY <1>2, <2>1, MapKept DEF SetGlobalStep, RegInv
<1>3. QED BY <1>1, <1>2 DEF SetGlobalStep

LEMMA SetLevelReg ==
  ASSUME RegInv, NEW g \in Callers, SetLevel(g)
  PROVE  RegInv'
<1>1. got[g] \in 1..Len(loggers)
  BY DEF SetLevel, RegInv, RegTypeOK, GivenOK, MapExact
<1>2. PICK v \in Nat : loggers' = [loggers EXCEPT ![got[g]] = v]
  BY RegistryAssumption DEF SetLevel
<1>3. QED BY <1>1, <1>2, LevelReg DEF SetLevel

LEMMA RegStep == RegInv /\ [Next]_vars => RegInv'
<1> SUFFICES ASSUME RegInv, [Next]_vars PROVE RegInv'
  OBVIOUS
<1>1. CASE UNCHANGED regVars
  BY <1>1 DEF regVars, RegInv, RegTypeOK, MapExact, Used, GivenOK, LevelsInv
<1>2. CASE RegNext
  BY <1>2, LookReg, CreateReg, SetGlobalReg, SetGlobalStepReg, SetLevelReg DEF RegNext
<1>3. QED BY <1>1, <1>2 DEF Next, vars

LEMMA Invariance == Spec => []RegInv
<1>1. Init => RegInv
  BY InitReg DEF Init
<1>2. QED BY <1>1, RegStep, PTL DEF Spec
-----------------------------------------------------------------------------
\* However many goroutines ask for however many scopes at once, a scope has one
\* logger, which all of them are given (GetLogger).
THEOREM OneLoggerEach == Spec => []OneLoggerPerScope
<1>1. RegInv => OneLoggerPerScope
  <2> SUFFICES ASSUME RegInv PROVE OneLoggerPerScope
    OBVIOUS
  <2>1. Used \in SUBSET Scopes
    BY DEF Used
  <2>2. Cardinality(Used) <= Cardinality(Scopes)
    BY <2>1, RegistryAssumption, FS_Subset
  <2>3. QED BY <2>2 DEF RegInv, GivenOK, MapExact, OneLoggerPerScope
<1>2. QED BY <1>1, Invariance, PTL

\* No logger keeps an old level because it was made, or looked up, while the
\* level of all changed (SetGlobalLevel, GetLogger).
THEOREM LevelsFollow == Spec => []LevelsAgree
<1>1. RegInv => LevelsAgree
  BY DEF RegInv, LevelsInv, LevelsAgree
<1>2. QED BY <1>1, Invariance, PTL
-----------------------------------------------------------------------------
(* Numbers, and the bytes of lines *)

\* Induction for a set of numbers.
LEMMA SetInduction ==
  ASSUME NEW T \in SUBSET Nat, 0 \in T, \A n \in T : n + 1 \in T
  PROVE  T = Nat
<1> SUFFICES ASSUME Nat \ T # {} PROVE FALSE
  OBVIOUS
<1>1. IsWellFoundedOn(OpToRel(<, Nat), Nat)
  BY NatLessThanWellFounded
<1>2. PICK x \in Nat \ T : \A y \in Nat \ T : ~ (<<y, x>> \in OpToRel(<, Nat))
  BY <1>1, WFMin
<1>3. x # 0 /\ x - 1 \in Nat
  OBVIOUS
<1>4. <<x - 1, x>> \in OpToRel(<, Nat)
  BY <1>3 DEF OpToRel
<1>5. x - 1 \in T
  BY <1>2, <1>3, <1>4
<1>6. QED BY <1>3, <1>5

\* The least of some numbers.
LEMMA Least ==
  ASSUME NEW T \in SUBSET Nat, T # {}
  PROVE  \E n \in T : \A k \in T : n <= k
<1>1. IsWellFoundedOn(OpToRel(<, Nat), Nat)
  BY NatLessThanWellFounded
<1>2. PICK n \in T : \A k \in T : ~ (<<k, n>> \in OpToRel(<, Nat))
  BY <1>1, WFMin
<1>3. \A k \in T : ~ (k < n)
  BY <1>2 DEF OpToRel
<1>4. QED BY <1>3

\* The sizes of the first lines added up.
SumsOf(u, ls) ==
  /\ u \in [0..Len(ls) -> Nat]
  /\ u[0] = 0
  /\ \A k \in 1..Len(ls) : u[k] = u[k - 1] + ls[k].size

LEMMA SumsExist == \A ls \in Seq(Lines) : \E u : SumsOf(u, ls)
<1> DEFINE T == {n \in Nat : \A ls \in Seq(Lines) : Len(ls) = n => \E u : SumsOf(u, ls)}
<1>1. 0 \in T
  <2> SUFFICES ASSUME NEW ls \in Seq(Lines), Len(ls) = 0 PROVE \E u : SumsOf(u, ls)
    OBVIOUS
  <2>1. SumsOf([k \in 0..0 |-> 0], ls)
    BY DEF SumsOf
  <2>2. QED BY <2>1
<1>2. ASSUME NEW n \in T PROVE n + 1 \in T
  <2> SUFFICES ASSUME NEW ls \in Seq(Lines), Len(ls) = n + 1 PROVE \E u : SumsOf(u, ls)
    OBVIOUS
  <2> DEFINE front == SubSeq(ls, 1, n)
  <2>1. /\ front \in Seq(Lines) /\ Len(front) = n /\ n \in Nat
        /\ \A k \in 1..n : front[k] = ls[k]
    BY SubSeqProperties
  <2>2. PICK u : SumsOf(u, front)
    BY <2>1
  <2> HIDE DEF front
  <2> DEFINE v == [k \in 0..(n + 1) |-> IF k <= n THEN u[k] ELSE u[n] + ls[n + 1].size]
  <2>3. ls[n + 1].size \in Nat
    <3>1. ls[n + 1] \in Lines
      BY <2>1, ElementOfSeq
    <3>2. QED BY <3>1 DEF Lines
  <2>4. SumsOf(v, ls)
    BY <2>1, <2>2, <2>3 DEF SumsOf
  <2>5. QED BY <2>4
<1>3. T = Nat
  <2> HIDE DEF T
  <2>1. T \in SUBSET Nat
    BY DEF T
  <2>2. QED BY <1>1, <1>2, <2>1, SetInduction
<1>4. QED BY <1>3

\* What the recursive definition says, whatever function adds the sizes up.
LEMMA TotalIsSum ==
  ASSUME NEW ls \in Seq(Lines), NEW u, SumsOf(u, ls)
  PROVE  TotalSize(ls) = u[Len(ls)]
<1> DEFINE Step(f) == [k \in 0..Len(ls) |-> IF k = 0 THEN 0 ELSE f[k - 1] + ls[k].size]
           w == CHOOSE f : f = Step(f)
<1>1. u = Step(u)
  BY DEF SumsOf
<1>2. w = Step(w)
  BY <1>1
<1>3. TotalSize(ls) = w[Len(ls)]
  BY DEF TotalSize
<1> HIDE DEF w
<1>4. w[0] = 0 /\ DOMAIN w = 0..Len(ls) /\ \A k \in 1..Len(ls) : w[k] = w[k - 1] + ls[k].size
  BY <1>2
<1> DEFINE T == {n \in Nat : n <= Len(ls) => u[n] = w[n]}
<1>5. 0 \in T
  BY <1>4 DEF SumsOf
<1>6. ASSUME NEW n \in T PROVE n + 1 \in T
  BY <1>4 DEF SumsOf
<1>7. T = Nat
  <2> HIDE DEF T
  <2>1. T \in SUBSET Nat
    BY DEF T
  <2>2. QED BY <1>5, <1>6, <2>1, SetInduction
<1>8. QED BY <1>3, <1>7

LEMMA TotalNat ==
  ASSUME NEW ls \in Seq(Lines)
  PROVE  TotalSize(ls) \in Nat
<1>1. PICK u : SumsOf(u, ls)
  BY SumsExist
<1>2. TotalSize(ls) = u[Len(ls)] /\ Len(ls) \in 0..Len(ls)
  BY <1>1, TotalIsSum
<1>3. QED BY <1>1, <1>2 DEF SumsOf

LEMMA TotalEmpty == TotalSize(<<>>) = 0
<1>1. <<>> \in Seq(Lines) /\ Len(<<>>) = 0
  OBVIOUS
<1>2. PICK u : SumsOf(u, <<>>)
  BY <1>1, SumsExist
<1>3. QED BY <1>1, <1>2, TotalIsSum DEF SumsOf

\* A part of a sequence takes the difference of two sums.
LEMMA TotalPart ==
  ASSUME NEW ls \in Seq(Lines), NEW u, SumsOf(u, ls),
         NEW a \in 1..(Len(ls) + 1), NEW b \in (a - 1)..Len(ls)
  PROVE  /\ TotalSize(SubSeq(ls, a, b)) = u[b] - u[a - 1]
         /\ u[b] >= u[a - 1]
<1> DEFINE piece == SubSeq(ls, a, b)
<1>1. /\ piece \in Seq(Lines) /\ Len(piece) = b - a + 1
      /\ \A k \in 1..(b - a + 1) : piece[k] = ls[a + k - 1]
  BY SubSeqProperties
<1>0. Len(ls) \in Nat /\ a \in Int /\ b \in Int /\ a - 1 \in 0..Len(ls) /\ b <= Len(ls)
  OBVIOUS
<1>2. u[a - 1] \in Nat /\ \A k \in 0..Len(ls) : u[k] \in Nat
  BY <1>0 DEF SumsOf
<1> HIDE DEF piece
<1>3. \A k \in (a - 1)..b : u[k] >= u[a - 1]
  <2> DEFINE T == {n \in Nat : a - 1 + n <= b => u[a - 1 + n] >= u[a - 1]}
  <2>1. 0 \in T
    BY <1>2
  <2>2. ASSUME NEW n \in T PROVE n + 1 \in T
    <3> SUFFICES ASSUME a + n <= b PROVE u[a + n] >= u[a - 1]
      OBVIOUS
    <3>1. u[a + n] = u[a + n - 1] + ls[a + n].size /\ u[a + n - 1] >= u[a - 1]
      BY DEF SumsOf
    <3>2. ls[a + n].size \in Nat
      <4>1. ls[a + n] \in Lines
        BY ElementOfSeq
      <4>2. QED BY <4>1 DEF Lines
    <3>3. u[a + n - 1] \in Nat
      BY <1>2
    <3>4. QED BY <1>2, <3>1, <3>2, <3>3
  <2>3. T = Nat
    <3> HIDE DEF T
    <3>1. T \in SUBSET Nat
      BY DEF T
    <3>2. QED BY <2>1, <2>2, <3>1, SetInduction
  <2>4. ASSUME NEW k \in (a - 1)..b PROVE u[k] >= u[a - 1]
    <3>1. \A n \in Nat : a - 1 + n <= b => u[a - 1 + n] >= u[a - 1]
      BY <2>3
    <3> HIDE DEF T
    <3>2. PICK n \in Nat : a - 1 + n = k
      <4>1. k - (a - 1) \in Nat /\ a - 1 + (k - (a - 1)) = k
        BY <1>0
      <4>2. QED BY <4>1
    <3>3. a - 1 + n <= b
      BY <3>2
    <3>4. u[a - 1 + n] >= u[a - 1]
      BY <3>1, <3>3
    <3>5. QED BY <3>2, <3>4, Zenon
  <2>5. QED BY <2>4
<1> DEFINE v == [k \in 0..(b - a + 1) |-> u[a - 1 + k] - u[a - 1]]
<1>4. SumsOf(v, piece)
  <2>1. v \in [0..Len(piece) -> Nat]
    <3>1. ASSUME NEW k \in 0..(b - a + 1) PROVE u[a - 1 + k] - u[a - 1] \in Nat
      <4>1. a - 1 + k \in (a - 1)..b /\ a - 1 + k \in 0..Len(ls)
        BY <1>0
      <4>2. QED BY <1>2, <1>3, <4>1
    <3>2. QED BY <1>1, <3>1
  <2>2. v[0] = 0
    BY <1>2
  <2>3. ASSUME NEW k \in 1..Len(piece) PROVE v[k] = v[k - 1] + piece[k].size
    <3>0. k \in 1..(b - a + 1) /\ a + k - 1 \in 1..Len(ls) /\ a + k - 2 \in 0..Len(ls)
          /\ a + k - 1 - 1 = a + k - 2 /\ k - 1 \in 0..(b - a + 1)
          /\ a - 1 + k = a + k - 1 /\ a - 1 + (k - 1) = a + k - 2
      BY <1>0, <1>1
    <3>1. u[a + k - 1] = u[a + k - 2] + ls[a + k - 1].size
      BY <3>0 DEF SumsOf
    <3>2. ls[a + k - 1].size \in Nat
      <4>1. ls[a + k - 1] \in Lines
        BY <3>0, ElementOfSeq
      <4>2. QED BY <4>1 DEF Lines
    <3>3. piece[k] = ls[a + k - 1] /\ u[a + k - 1] \in Nat /\ u[a + k - 2] \in Nat
      <4>1. piece[k] = ls[a + k - 1]
        BY <1>1, <3>0
      <4>2. ASSUME NEW j \in 0..Len(ls) PROVE u[j] \in Nat
        BY <1>2
      <4>3. u[a + k - 1] \in Nat
        BY <3>0, <4>2
      <4>4. u[a + k - 2] \in Nat
        BY <3>0, <4>2
      <4>5. QED BY <4>1, <4>3, <4>4
    <3>4. v[k] = u[a + k - 1] - u[a - 1] /\ v[k - 1] = u[a + k - 2] - u[a - 1]
      <4>1. \A j \in 0..(b - a + 1) : v[j] = u[a - 1 + j] - u[a - 1]
        OBVIOUS
      <4>2. k \in 0..(b - a + 1)
        BY <3>0
      <4> HIDE DEF v
      <4>3. v[k] = u[a - 1 + k] - u[a - 1] /\ v[k - 1] = u[a - 1 + (k - 1)] - u[a - 1]
        BY <3>0, <4>1, <4>2
      <4>4. QED BY <3>0, <4>3
    <3> HIDE DEF v
    <3>5. piece[k].size = ls[a + k - 1].size
      BY <3>3
    <3>6. QED BY <1>2, <3>1, <3>2, <3>3, <3>4, <3>5
  <2>4. QED BY <2>1, <2>2, <2>3 DEF SumsOf
<1>5. TotalSize(piece) = v[Len(piece)]
  <2> HIDE DEF v
  <2>1. QED BY <1>1, <1>4, TotalIsSum
<1>6. v[Len(piece)] = u[b] - u[a - 1]
  BY <1>1
<1>7. QED BY <1>3, <1>5, <1>6 DEF piece

LEMMA TotalAppend ==
  ASSUME NEW ls \in Seq(Lines), NEW l \in Lines
  PROVE  /\ Append(ls, l) \in Seq(Lines)
         /\ TotalSize(Append(ls, l)) = TotalSize(ls) + l.size
<1> DEFINE ext == Append(ls, l)
<1>1. /\ ext \in Seq(Lines) /\ Len(ext) = Len(ls) + 1
      /\ ext[Len(ls) + 1] = l /\ Len(ls) \in Nat
      /\ SubSeq(ext, 1, Len(ls)) = ls
  <2>1. /\ ext \in Seq(Lines) /\ Len(ext) = Len(ls) + 1
        /\ \A i \in 1..Len(ls) : ext[i] = ls[i]
        /\ ext[Len(ls) + 1] = l /\ Len(ls) \in Nat
    BY AppendProperties
  <2>2. SubSeq(ext, 1, Len(ls)) \in Seq(Lines)
        /\ Len(SubSeq(ext, 1, Len(ls))) = Len(ls)
        /\ \A i \in 1..Len(ls) : SubSeq(ext, 1, Len(ls))[i] = ls[i]
    BY <2>1, SubSeqProperties
  <2>3. SubSeq(ext, 1, Len(ls)) = ls
    BY <2>2, SeqEqual
  <2>4. QED BY <2>1, <2>3
<1> HIDE DEF ext
<1>2. PICK u : SumsOf(u, ext)
  BY <1>1, SumsExist
<1>3. TotalSize(ext) = u[Len(ls) + 1] /\ u[Len(ls) + 1] = u[Len(ls)] + l.size
  BY <1>1, <1>2, TotalIsSum DEF SumsOf
<1>4. TotalSize(ls) = u[Len(ls)] - u[0] /\ u[0] = 0 /\ u[Len(ls)] \in Nat
  BY <1>1, <1>2, TotalPart DEF SumsOf
<1>5. QED BY <1>1, <1>3, <1>4 DEF ext
-----------------------------------------------------------------------------
(* The rotating file *)

Places == {"none", "open", "remove", "shift", "close", "current", "reopen", "write"}
Renaming == {"shift", "close", "current"}

\* The names of files are numbers, and who is where holds the lock.
FileTypeOK ==
  /\ backupCount \in Nat
  /\ rotatedCount \in Nat
  /\ boots \in Nat
  /\ shifting \in Int
  /\ at \in Places
  /\ DOMAIN files \subseteq Nat
  /\ holder = Nobody <=> at = "none"

\* Before the first start and after a kill nothing runs.
OffInv ==
  /\ ~up => at = "none" /\ waiting = {} /\ ~enabled
  /\ boots = 0 => ~up /\ DOMAIN files = {}

\* The first start of the program, as long as nothing has failed.
Calm == up /\ boots = 1 /\ mishaps = {}

\* The backups that exist.  In the middle of the renaming loop there is one
\* name without a file, behind the backups that have still to be renamed.
Backup(k) ==
  IF at \notin Renaming THEN k <= rotatedCount /\ k <= Oldest
  ELSE IF backupCount = 0 THEN k = 1 /\ rotatedCount > 1
  ELSE LET i == IF at = "shift" THEN shifting ELSE 0
       IN  \/ k <= i /\ k < rotatedCount
           \/ k >= i + 2 /\ k <= rotatedCount /\ k <= backupCount

ChainInv ==
  /\ \A k \in Nat \ {0} : k \in DOMAIN files <=> Backup(k)
  /\ 0 \in DOMAIN files <=> at \notin {"open", "reopen"}
  /\ holder = "init" <=> at = "open"
  /\ at \in Renaming \cup {"reopen"} => rotatedCount >= 1
  /\ at = "shift" => shifting < backupCount /\ (backupCount > 0 => shifting >= 0)
                     /\ (backupCount = 0 => shifting < 1)

FileInv == FileTypeOK /\ OffInv /\ (Calm => ChainInv)

LEMMA InitFile == FileInit => FileInv
BY FileLoggerAssumption DEF FileInit, FileInv, FileTypeOK, OffInv, Calm, Places

LEMMA RenameNames ==
  ASSUME NEW i \in Nat, NEW j \in Nat, Rename(i, j)
  PROVE  DOMAIN files' = (DOMAIN files \ {i}) \cup {j}
BY DEF Rename

LEMMA CreateNames ==
  ASSUME NEW i \in Nat, Create(i)
  PROVE  DOMAIN files' = DOMAIN files \cup {i}
BY DEF Create

\* A failure ends the calm.
LEMMA FailsNotCalm ==
  ASSUME NEW kind, Fails(kind)
  PROVE  ~Calm' /\ boots' = boots
BY DEF Fails, Calm

LEMMA BootFile ==
  ASSUME FileInv, Boot
  PROVE  FileInv'
<1>1. FileTypeOK'
  BY FileLoggerAssumption DEF Boot, FileInv, FileTypeOK, Places
<1>2. OffInv'
  BY DEF Boot, FileInv, FileTypeOK, OffInv
<1>3. ASSUME Calm' PROVE ChainInv'
  <2>1. boots = 0 /\ DOMAIN files = {} /\ files' = files
    BY <1>3 DEF Boot, Calm, FileInv, FileTypeOK, OffInv
  <2>2. at' = "open" /\ rotatedCount' = 0 /\ holder' = "init"
    BY <2>1 DEF Boot, Exists
  <2>3. QED
    BY <2>1, <2>2 DEF ChainInv, Backup, Renaming
<1>4. QED BY <1>1, <1>2, <1>3 DEF FileInv

LEMMA OpenFile ==
  ASSUME FileInv, InitOpen
  PROVE  FileInv'
<1>0. DOMAIN files' \in {DOMAIN files, DOMAIN files \cup {0}}
  BY CreateNames DEF InitOpen
<1>1. FileTypeOK' /\ boots' = boots
  BY <1>0, FailsNotCalm DEF InitOpen, FileInv, FileTypeOK, Places, history
<1>2. OffInv'
  BY <1>1 DEF InitOpen, FileInv, OffInv
<1>3. ASSUME Calm' PROVE ChainInv'
  <2>1. Calm /\ DOMAIN files' = DOMAIN files \cup {0}
    BY <1>3, CreateNames, FailsNotCalm DEF InitOpen, Calm, history
  <2>2. at = "open" /\ at' = "none" /\ holder' = Nobody
        /\ UNCHANGED <<backupCount, rotatedCount>>
    BY DEF InitOpen
  <2>3. QED
    BY <2>1, <2>2, FileLoggerAssumption DEF FileInv, ChainInv, Backup, Renaming, Oldest
<1>4. QED BY <1>1, <1>2, <1>3 DEF FileInv

LEMMA CrashFile ==
  ASSUME FileInv, Crash
  PROVE  FileInv'
BY DEF Crash, FileInv, FileTypeOK, OffInv, Calm, Places, history

\* A step of rotate, as long as nothing fails.
LEMMA RotateRest ==
  ASSUME FileInv, Keep, at # "none", at' \in Places \ {"none"}, boots' = boots,
         DOMAIN files' \subseteq Nat, shifting' \in Int, rotatedCount' \in Nat
  PROVE  FileTypeOK' /\ OffInv'
BY DEF Keep, FileInv, FileTypeOK, OffInv

LEMMA RemoveFile ==
  ASSUME FileInv, RemoveOldest
  PROVE  FileInv'
<1>0. DOMAIN files' = DOMAIN files \ ({backupCount} \ {0})
  BY DEF RemoveOldest
<1>1. FileTypeOK' /\ OffInv'
  BY <1>0, RotateRest DEF RemoveOldest, FileInv, FileTypeOK, Places, history
<1>2. ASSUME Calm' PROVE ChainInv'
  <2>1. ChainInv /\ backupCount \in Nat /\ rotatedCount \in Nat /\ backupCount' = backupCount
    BY <1>2 DEF RemoveOldest, Keep, Calm, FileInv, FileTypeOK, history
  <2>2. at = "remove" /\ at' = "shift" /\ holder' = holder /\ shifting' = backupCount - 1
        /\ rotatedCount' = rotatedCount + 1
    BY DEF RemoveOldest, Keep
  <2>3. ASSUME NEW k \in Nat \ {0} PROVE k \in DOMAIN files' <=> Backup(k)'
    <3>1. k \in DOMAIN files <=> (k <= rotatedCount /\ k <= Oldest)
      BY <2>1, <2>2 DEF ChainInv, Backup, Renaming
    <3>2. QED
      BY <1>0, <2>1, <2>2, <3>1 DEF Backup, Renaming, Oldest
  <2>4. 0 \in DOMAIN files' /\ holder' # "init"
    BY <1>0, <2>1, <2>2 DEF ChainInv
  <2>5. QED
    BY <2>1, <2>2, <2>3, <2>4 DEF ChainInv
<1>3. QED BY <1>1, <1>2 DEF FileInv

\* A rename takes the name i away and makes sure of the name j.
LEMMA RenameIfThere ==
  ASSUME NEW i \in Nat, NEW j \in Nat, DOMAIN files \subseteq Nat,
         IF Exists(i) THEN Rename(i, j) ELSE UNCHANGED files
  PROVE  /\ DOMAIN files' \subseteq Nat
         /\ DOMAIN files' = IF i \in DOMAIN files THEN (DOMAIN files \ {i}) \cup {j}
                            ELSE DOMAIN files
<1>1. CASE i \in DOMAIN files
  <2>1. Rename(i, j)
    BY <1>1 DEF Exists
  <2>2. DOMAIN files' = (DOMAIN files \ {i}) \cup {j}
    BY <2>1, RenameNames
  <2>3. QED BY <1>1, <2>2
<1>2. CASE i \notin DOMAIN files
  BY <1>2 DEF Exists
<1>3. QED BY <1>1, <1>2

LEMMA ShiftFile ==
  ASSUME FileInv, Shift
  PROVE  FileInv'
<1>0. /\ shifting \in Int /\ boots' = boots /\ rotatedCount' = rotatedCount
      /\ DOMAIN files' \subseteq Nat /\ shifting' \in Int
  <2>1. shifting \in Int /\ DOMAIN files \subseteq Nat
    BY DEF FileInv, FileTypeOK
  <2>2. boots' = boots /\ rotatedCount' = rotatedCount /\ shifting' \in Int
    BY <2>1 DEF Shift, Fails, history
  <2>3. ASSUME shifting >= 1,
               IF Exists(shifting) THEN Rename(shifting, shifting + 1) ELSE UNCHANGED files
        PROVE  DOMAIN files' \subseteq Nat
    <3>1. shifting \in Nat /\ shifting + 1 \in Nat
      BY <2>1, <2>3
    <3>2. QED BY <2>1, <2>3, <3>1, RenameIfThere
  <2>4. ASSUME UNCHANGED files PROVE DOMAIN files' \subseteq Nat
    BY <2>1, <2>4
  <2>5. QED BY <2>1, <2>2, <2>3, <2>4 DEF Shift
<1>1. FileTypeOK' /\ OffInv'
  BY <1>0, RotateRest DEF Shift, FileInv, FileTypeOK, Places
<1>2. ASSUME Calm' PROVE ChainInv'
  <2>1. /\ ChainInv /\ backupCount \in Nat /\ rotatedCount \in Nat
        /\ at = "shift" /\ UNCHANGED <<backupCount, holder, history>>
    BY <1>2, FailsNotCalm DEF Shift, Keep, Calm, FileInv, FileTypeOK, history
  <2>2. CASE shifting >= 1
    <3>1. /\ shifting' = shifting - 1 /\ at' = at
          /\ IF Exists(shifting) THEN Rename(shifting, shifting + 1) ELSE UNCHANGED files
      BY <1>0, <1>2, <2>2 DEF Shift, Fails, Calm
    <3>2. DOMAIN files' = IF shifting \in DOMAIN files
                          THEN (DOMAIN files \ {shifting}) \cup {shifting + 1}
                          ELSE DOMAIN files
      <4>1. shifting \in Nat /\ shifting + 1 \in Nat /\ DOMAIN files \subseteq Nat
        BY <1>0, <2>2 DEF FileInv, FileTypeOK
      <4>2. QED BY <3>1, <4>1, RenameIfThere
    <3>3. ASSUME NEW k \in Nat \ {0} PROVE k \in DOMAIN files' <=> Backup(k)'
      <4>1. /\ k \in DOMAIN files <=> Backup(k)
            /\ shifting \in DOMAIN files <=> Backup(shifting)
            /\ shifting < backupCount
        BY <1>0, <2>1, <2>2 DEF ChainInv
      <4>2. QED
        BY <1>0, <2>1, <2>2, <3>1, <3>2, <4>1 DEF Backup, Renaming
    <3>4. QED
      BY <1>0, <2>1, <2>2, <3>1, <3>2, <3>3 DEF ChainInv, Renaming
  <2>3. CASE shifting < 1
    <3>1. at' = "close" /\ UNCHANGED <<files, shifting>>
      BY <2>3, <1>0 DEF Shift
    <3>2. ASSUME NEW k \in Nat \ {0} PROVE Backup(k)' <=> Backup(k)
      BY <1>0, <2>1, <2>3, <3>1 DEF ChainInv, Backup, Renaming
    <3>3. QED
      BY <1>0, <2>1, <3>1, <3>2 DEF ChainInv, Renaming
  <2>4. QED BY <1>0, <2>2, <2>3
<1>3. QED BY <1>1, <1>2 DEF FileInv

LEMMA CloseOldFile ==
  ASSUME FileInv, CloseOld
  PROVE  FileInv'
<1>1. FileTypeOK' /\ OffInv'
  BY RotateRest DEF CloseOld, FileInv, FileTypeOK, Places, history
<1>2. ASSUME Calm' PROVE ChainInv'
  <2>1. ChainInv
    BY <1>2 DEF CloseOld, Keep, Calm, FileInv, history
  <2>2. at = "close" /\ at' = "current"
        /\ UNCHANGED <<backupCount, rotatedCount, shifting, holder, files>>
    BY DEF CloseOld, Keep
  <2>3. QED
    BY <2>1, <2>2 DEF ChainInv, Backup, Renaming
<1>3. QED BY <1>1, <1>2 DEF FileInv

LEMMA CurrentFile ==
  ASSUME FileInv, RenameCurrent
  PROVE  FileInv'
<1>0. DOMAIN files' \subseteq Nat /\ boots' = boots
  <2>1. DOMAIN files \subseteq Nat
    BY DEF FileInv, FileTypeOK
  <2>2. ASSUME IF Exists(0) THEN Rename(0, 1) ELSE UNCHANGED files
        PROVE  DOMAIN files' \subseteq Nat
    BY <2>1, <2>2, RenameIfThere
  <2>3. ASSUME UNCHANGED files PROVE DOMAIN files' \subseteq Nat
    BY <2>1, <2>3
  <2>4. boots' = boots
    BY DEF RenameCurrent, Fails, history
  <2>5. QED BY <2>2, <2>3, <2>4 DEF RenameCurrent
<1>1. FileTypeOK' /\ OffInv'
  BY <1>0, RotateRest DEF RenameCurrent, FileInv, FileTypeOK, Places
<1>2. ASSUME Calm' PROVE ChainInv'
  <2>1. /\ ChainInv /\ backupCount \in Nat /\ rotatedCount \in Nat
    BY <1>2, FailsNotCalm DEF RenameCurrent, Keep, Calm, FileInv, FileTypeOK, history
  <2>2. at = "current" /\ at' = "reopen"
        /\ UNCHANGED <<backupCount, rotatedCount, holder>>
    BY DEF RenameCurrent, Keep
  <2>3. DOMAIN files' = (DOMAIN files \ {0}) \cup {1}
    <3>1. Exists(0)
      BY <2>1, <2>2 DEF ChainInv, Exists
    <3>2. Rename(0, 1)
      BY <1>2, <3>1, FailsNotCalm DEF RenameCurrent
    <3>3. QED BY <3>2, RenameNames
  <2>4. ASSUME NEW k \in Nat \ {0} PROVE k \in DOMAIN files' <=> Backup(k)'
    BY <2>1, <2>2, <2>3 DEF ChainInv, Backup, Renaming, Oldest
  <2>5. QED
    BY <2>1, <2>2, <2>3, <2>4 DEF ChainInv, Renaming
<1>3. QED BY <1>1, <1>2 DEF FileInv

LEMMA ReopenFile ==
  ASSUME FileInv, Reopen
  PROVE  FileInv'
<1>0. DOMAIN files' \subseteq Nat /\ boots' = boots
  <2>1. DOMAIN files \subseteq Nat
    BY DEF FileInv, FileTypeOK
  <2>2. DOMAIN files' \in {DOMAIN files, DOMAIN files \cup {0}}
    BY CreateNames DEF Reopen
  <2>3. boots' = boots
    BY DEF Reopen, Fails, history
  <2>4. QED BY <2>1, <2>2, <2>3
<1>1. FileTypeOK' /\ OffInv'
  BY <1>0, RotateRest DEF Reopen, FileInv, FileTypeOK, Places
<1>2. ASSUME Calm' PROVE ChainInv'
  <2>1. /\ ChainInv /\ DOMAIN files' = DOMAIN files \cup {0}
    BY <1>2, CreateNames, FailsNotCalm DEF Reopen, Keep, Calm, FileInv, history
  <2>2. at = "reopen" /\ holder # "init" /\ at' = "write"
        /\ UNCHANGED <<backupCount, rotatedCount, shifting, holder>>
    BY <2>1 DEF Reopen, Keep, ChainInv
  <2>3. QED
    BY <2>1, <2>2 DEF ChainInv, Backup, Renaming, Oldest
<1>3. QED BY <1>1, <1>2 DEF FileInv

\* The steps that leave the renaming alone.
LEMMA QuietFile ==
  ASSUME FileInv, Calm, Calm', at \notin Renaming \cup {"open", "reopen"},
         at' \notin Renaming \cup {"open", "reopen"}, holder' # "init",
         DOMAIN files' = DOMAIN files, UNCHANGED <<backupCount, rotatedCount>>
  PROVE  ChainInv'
BY DEF FileInv, ChainInv, Backup, Renaming, Oldest

LEMMA CheckFile ==
  ASSUME FileInv, NEW w \in Writers, WriteCheck(w)
  PROVE  FileInv'
<1>1. FileTypeOK' /\ OffInv'
  BY DEF WriteCheck, FileInv, FileTypeOK, OffInv, logFields, history
<1>2. Calm' => ChainInv'
  BY DEF WriteCheck, FileInv, Calm, ChainInv, Backup, Oldest, logFields, history
<1>3. QED BY <1>1, <1>2 DEF FileInv

LEMMA LockFile ==
  ASSUME FileInv, NEW w \in Writers, WriteLock(w)
  PROVE  FileInv'
<1>1. at = "none" /\ at' \in {"remove", "write"} /\ holder' = w
      /\ w # Nobody /\ w # "init" /\ up
  BY FileLoggerAssumption DEF WriteLock, FileInv, FileTypeOK, OffInv
<1>2. FileTypeOK' /\ OffInv'
  BY <1>1 DEF WriteLock, FileInv, FileTypeOK, OffInv, Places, history
<1>3. Calm' => ChainInv'
  BY <1>1, QuietFile DEF WriteLock, Calm, Renaming, history
<1>4. QED BY <1>2, <1>3 DEF FileInv

LEMMA LineFile ==
  ASSUME FileInv, WriteLine
  PROVE  FileInv'
<1>1. DOMAIN files' = DOMAIN files /\ at = "write" /\ at' = "none" /\ holder' = Nobody
      /\ Nobody # "init"
  BY FileLoggerAssumption DEF WriteLine
<1>2. FileTypeOK' /\ OffInv'
  BY <1>1 DEF WriteLine, FileInv, FileTypeOK, OffInv, Places, logFields
<1>3. Calm' => ChainInv'
  BY <1>1, QuietFile DEF WriteLine, Calm, Renaming, logFields
<1>4. QED BY <1>2, <1>3 DEF FileInv

LEMMA CloseFile ==
  ASSUME FileInv, Close
  PROVE  FileInv'
<1>1. FileTypeOK' /\ OffInv'
  BY DEF Close, FileInv, FileTypeOK, OffInv, locked
<1>2. ASSUME Calm' PROVE ChainInv'
  <2>1. ChainInv
    BY <1>2 DEF Close, Calm, FileInv, locked
  <2>2. QED
    BY <2>1 DEF Close, ChainInv, Backup, Oldest, locked
<1>3. QED BY <1>1, <1>2 DEF FileInv
-----------------------------------------------------------------------------
LEMMA FileStep == FileInv /\ [Next]_vars => FileInv'
<1> SUFFICES ASSUME FileInv, [Next]_vars PROVE FileInv'
  OBVIOUS
<1>1. CASE UNCHANGED fileVars
  BY <1>1 DEF fileVars, logFields, locked, history, FileInv, FileTypeOK, OffInv, Calm,
              ChainInv, Backup, Oldest
<1>2. CASE FileNext
  BY <1>2, BootFile, OpenFile, CrashFile, RemoveFile, ShiftFile, CloseOldFile, CurrentFile,
     ReopenFile, CheckFile, LockFile, LineFile, CloseFile DEF FileNext, Rotate
<1>3. QED BY <1>1, <1>2 DEF Next, vars

LEMMA FileInvariance == Spec => []FileInv
<1>1. Init => FileInv
  BY InitFile DEF Init
<1>2. QED BY <1>1, FileStep, PTL DEF Spec

\* As long as nothing fails, rotation keeps every backup until there are as many
\* as were asked for, whatever their number: the loop that renames them leaves no
\* gap behind and overwrites none (rotate).
THEOREM BackupsStay == Spec => []BackupsKept
<1>1. FileInv => BackupsKept
  <2> SUFFICES ASSUME FileInv, mishaps = {}, boots = 1, holder = Nobody, up
      PROVE  Cardinality(DOMAIN files \ {0}) =
               IF rotatedCount < Oldest THEN rotatedCount ELSE Oldest
    BY DEF BackupsKept
  <2> DEFINE n == IF rotatedCount < Oldest THEN rotatedCount ELSE Oldest
  <2>1. /\ n \in Nat /\ at = "none" /\ DOMAIN files \subseteq Nat
        /\ rotatedCount \in Nat /\ Oldest \in Nat
    BY DEF FileInv, FileTypeOK, Oldest
  <2>2. \A k \in Nat \ {0} : k \in DOMAIN files <=> (k <= rotatedCount /\ k <= Oldest)
    BY <2>1 DEF FileInv, Calm, ChainInv, Backup, Renaming
  <2>3. \A k \in DOMAIN files \ {0} : k \in Nat \ {0} /\ k <= rotatedCount /\ k <= Oldest
    BY <2>1, <2>2
  <2>4. DOMAIN files \ {0} = 1..n
    BY <2>1, <2>2, <2>3
  <2>5. Cardinality(1..n) = n
    BY <2>1, FS_Interval
  <2>6. QED BY <2>4, <2>5
<1>2. QED BY <1>1, FileInvariance, PTL
-----------------------------------------------------------------------------
(* The lines of the rotating file *)

\* Files by their names, the oldest under the greatest one: what they hold are
\* the lines up to c, in order and without a gap.
Typed(fs) == DOMAIN fs \subseteq Nat /\ \A a \in DOMAIN fs : fs[a] \in Seq(Lines)

Ordered(fs) ==
  \A a, b \in DOMAIN fs : \A k \in 1..Len(fs[a]), l \in 1..Len(fs[b]) :
    (a > b \/ (a = b /\ k < l)) => fs[a][k].no < fs[b][l].no

Holds(fs, n) == \E a \in DOMAIN fs : \E k \in 1..Len(fs[a]) : fs[a][k].no = n

UpTo(fs, c) ==
  \A a \in DOMAIN fs : \A k \in 1..Len(fs[a]) :
    fs[a][k].no <= c /\ \A n \in fs[a][k].no..c : Holds(fs, n)

Chain(fs, c) == Typed(fs) /\ Ordered(fs) /\ UpTo(fs, c)

Moved(fs, i, j) == [k \in (DOMAIN fs \ {i}) \cup {j} |-> IF k = j THEN fs[i] ELSE fs[k]]
Dropped(fs, o) == [k \in DOMAIN fs \ {o} |-> fs[k]]

LEMMA LineNumber ==
  ASSUME NEW fs, Typed(fs), NEW a \in DOMAIN fs, NEW k \in 1..Len(fs[a])
  PROVE  fs[a][k].no \in Nat /\ Len(fs[a]) \in Nat
<1>1. fs[a] \in Seq(Lines)
  BY DEF Typed
<1>2. fs[a][k] \in Lines /\ Len(fs[a]) \in Nat
  BY <1>1, ElementOfSeq
<1>3. QED BY <1>2 DEF Lines

\* The file of the greatest name may go.
LEMMA ChainDrop ==
  ASSUME NEW fs, NEW c \in Nat, NEW o \in Nat, Chain(fs, c), \A a \in DOMAIN fs : a <= o
  PROVE  Chain(Dropped(fs, o), c)
<1> DEFINE gs == Dropped(fs, o)
<1>1. DOMAIN gs = DOMAIN fs \ {o} /\ \A a \in DOMAIN gs : gs[a] = fs[a]
  BY DEF Dropped
<1> HIDE DEF gs
<1>2. Typed(gs)
  BY <1>1 DEF Chain, Typed
<1>3. Ordered(gs)
  BY <1>1 DEF Chain, Ordered
<1>4. ASSUME NEW a \in DOMAIN gs, NEW k \in 1..Len(gs[a])
      PROVE  gs[a][k].no <= c /\ \A n \in gs[a][k].no..c : Holds(gs, n)
  <2>1. a \in DOMAIN fs /\ k \in 1..Len(fs[a]) /\ gs[a] = fs[a] /\ a # o /\ a \in Nat
    BY <1>1, <1>4 DEF Chain, Typed
  <2>2. gs[a][k].no <= c
    BY <2>1 DEF Chain, UpTo
  <2>3. ASSUME NEW n \in gs[a][k].no..c PROVE Holds(gs, n)
    <3>1. PICK b \in DOMAIN fs : \E l \in 1..Len(fs[b]) : fs[b][l].no = n
      BY <2>1 DEF Chain, UpTo, Holds
    <3>2. PICK l \in 1..Len(fs[b]) : fs[b][l].no = n
      BY <3>1
    <3>3. CASE b = o
      <4>1. b > a
        BY <2>1, <3>3
      <4>2. fs[b][l].no < fs[a][k].no
        BY <2>1, <4>1 DEF Chain, Ordered
      <4>3. fs[b][l].no \in Nat /\ fs[a][k].no \in Nat
        BY <2>1, LineNumber DEF Chain
      <4>4. QED BY <2>1, <3>2, <4>2, <4>3
    <3>4. CASE b # o
      BY <1>1, <3>2, <3>4 DEF Holds
    <3>5. QED BY <3>3, <3>4
  <2>4. QED BY <2>2, <2>3
<1>5. QED BY <1>2, <1>3, <1>4 DEF Chain, UpTo, gs

\* A file may take the next name when that is free.
LEMMA ChainMove ==
  ASSUME NEW fs, NEW c \in Nat, NEW i \in DOMAIN fs, Chain(fs, c), i + 1 \notin DOMAIN fs
  PROVE  Chain(Moved(fs, i, i + 1), c)
<1> DEFINE gs == Moved(fs, i, i + 1)
           old(k) == IF k = i + 1 THEN i ELSE k
<1>1. /\ i \in Nat /\ DOMAIN fs \subseteq Nat
      /\ DOMAIN gs = (DOMAIN fs \ {i}) \cup {i + 1}
      /\ \A a \in DOMAIN gs : old(a) \in DOMAIN fs /\ gs[a] = fs[old(a)]
  BY DEF Moved, Chain, Typed
<1>2. \A a, b \in DOMAIN gs : (a > b => old(a) > old(b)) /\ (a = b => old(a) = old(b))
  BY <1>1
<1>3. \A b \in DOMAIN fs : \E a \in DOMAIN gs : old(a) = b
  <2> SUFFICES ASSUME NEW b \in DOMAIN fs PROVE \E a \in DOMAIN gs : old(a) = b
    OBVIOUS
  <2>1. CASE b = i
    <3>1. i + 1 \in DOMAIN gs /\ old(i + 1) = b
      BY <1>1, <2>1
    <3>2. QED BY <3>1
  <2>2. CASE b # i
    <3>1. b \in DOMAIN gs /\ old(b) = b
      BY <1>1, <2>2
    <3>2. QED BY <3>1
  <2>3. QED BY <2>1, <2>2
<1> HIDE DEF gs, old
<1>4. Typed(gs)
  BY <1>1 DEF Chain, Typed
<1>5. Ordered(gs)
  <2> SUFFICES ASSUME NEW a \in DOMAIN gs, NEW b \in DOMAIN gs,
                      NEW k \in 1..Len(gs[a]), NEW l \in 1..Len(gs[b]),
                      a > b \/ (a = b /\ k < l)
               PROVE  gs[a][k].no < gs[b][l].no
    BY DEF Ordered
  <2>1. /\ old(a) \in DOMAIN fs /\ old(b) \in DOMAIN fs
        /\ k \in 1..Len(fs[old(a)]) /\ l \in 1..Len(fs[old(b)])
        /\ old(a) > old(b) \/ (old(a) = old(b) /\ k < l)
    BY <1>1, <1>2
  <2>2. fs[old(a)][k].no < fs[old(b)][l].no
    BY <2>1 DEF Chain, Ordered
  <2>3. QED BY <1>1, <2>2
<1>6. ASSUME NEW n, Holds(fs, n) PROVE Holds(gs, n)
  <2>1. PICK b \in DOMAIN fs : \E l \in 1..Len(fs[b]) : fs[b][l].no = n
    BY <1>6 DEF Holds
  <2>2. PICK a \in DOMAIN gs : old(a) = b
    BY <1>3
  <2>3. QED BY <1>1, <2>1, <2>2 DEF Holds
<1>7. UpTo(gs, c)
  <2> SUFFICES ASSUME NEW a \in DOMAIN gs, NEW k \in 1..Len(gs[a])
               PROVE  gs[a][k].no <= c /\ \A n \in gs[a][k].no..c : Holds(gs, n)
    BY DEF UpTo
  <2>1. old(a) \in DOMAIN fs /\ gs[a] = fs[old(a)]
    BY <1>1
  <2>2. fs[old(a)][k].no <= c /\ \A n \in fs[old(a)][k].no..c : Holds(fs, n)
    BY <2>1 DEF Chain, UpTo
  <2>3. QED BY <1>6, <2>1, <2>2
<1>8. QED BY <1>4, <1>5, <1>7 DEF Chain, gs

\* Without numbered backups the one there is goes first.
LEMMA ChainReplace ==
  ASSUME NEW fs, NEW c \in Nat, 0 \in DOMAIN fs, Chain(fs, c), \A a \in DOMAIN fs : a <= 1
  PROVE  Chain(Moved(fs, 0, 1), c)
<1> DEFINE gs == Dropped(fs, 1)
<1>1. Chain(gs, c)
  BY ChainDrop
<1>2. DOMAIN gs = DOMAIN fs \ {1} /\ \A a \in DOMAIN gs : gs[a] = fs[a]
  BY DEF Dropped
<1> HIDE DEF gs
<1>3. Chain(Moved(gs, 0, 1), c)
  <2>1. 0 \in DOMAIN gs /\ 1 \notin DOMAIN gs
    BY <1>2
  <2>2. Chain(Moved(gs, 0, 0 + 1), c)
    BY <1>1, <1>2, <2>1, ChainMove
  <2>3. QED BY <2>2
<1>4. Moved(gs, 0, 1) = Moved(fs, 0, 1)
  BY <1>2 DEF Moved
<1>5. QED BY <1>3, <1>4

\* All that counts of the files is their names and what they hold.
LEMMA ChainSame ==
  ASSUME NEW fs, NEW gs, NEW c, Chain(fs, c), DOMAIN gs = DOMAIN fs,
         \A a \in DOMAIN fs : gs[a] = fs[a]
  PROVE  Chain(gs, c)
<1>1. \A n : Holds(fs, n) => Holds(gs, n)
  BY DEF Holds
<1>2. Typed(gs)
  BY DEF Chain, Typed
<1>3. Ordered(gs)
  BY DEF Chain, Ordered
<1>4. UpTo(gs, c)
  BY <1>1 DEF Chain, UpTo
<1>5. QED BY <1>2, <1>3, <1>4 DEF Chain

LEMMA ChainCreate ==
  ASSUME NEW fs, NEW c \in Nat, Chain(fs, c)
  PROVE  Chain([k \in DOMAIN fs \cup {0} |-> IF k \in DOMAIN fs THEN fs[k] ELSE <<>>], c)
<1> DEFINE gs == [k \in DOMAIN fs \cup {0} |-> IF k \in DOMAIN fs THEN fs[k] ELSE <<>>]
<1>1. /\ DOMAIN gs = DOMAIN fs \cup {0}
      /\ \A a \in DOMAIN fs : gs[a] = fs[a]
      /\ 0 \notin DOMAIN fs => gs[0] = <<>>
  OBVIOUS
<1> HIDE DEF gs
<1>2. \A a \in DOMAIN gs : \A k \in 1..Len(gs[a]) : a \in DOMAIN fs
  <2> SUFFICES ASSUME NEW a \in DOMAIN gs, NEW k \in 1..Len(gs[a]), a \notin DOMAIN fs
               PROVE  FALSE
    OBVIOUS
  <2>1. gs[a] = <<>>
    BY <1>1
  <2>2. Len(gs[a]) = 0
    BY <2>1
  <2>3. QED BY <2>2
<1>3. Typed(gs)
  <2>1. <<>> \in Seq(Lines)
    OBVIOUS
  <2>2. \A a \in DOMAIN gs : gs[a] \in Seq(Lines)
    BY <1>1, <2>1 DEF Chain, Typed
  <2>3. QED BY <1>1, <2>2 DEF Chain, Typed
<1>4. Ordered(gs)
  BY <1>1, <1>2 DEF Chain, Ordered
<1>5. \A n : Holds(fs, n) => Holds(gs, n)
  BY <1>1 DEF Holds
<1>6. UpTo(gs, c)
  BY <1>1, <1>2, <1>5 DEF Chain, UpTo
<1>7. QED BY <1>3, <1>4, <1>6 DEF Chain, gs

\* The next line goes to the end of the file.
LEMMA ChainGrow ==
  ASSUME NEW fs, NEW c \in Nat, NEW s \in Nat, 0 \in DOMAIN fs, Chain(fs, c)
  PROVE  Chain([fs EXCEPT ![0] = Append(@, [no |-> c + 1, size |-> s])], c + 1)
<1> DEFINE line == [no |-> c + 1, size |-> s]
           gs == [fs EXCEPT ![0] = Append(@, line)]
<1>0. line \in Lines /\ line.no = c + 1
  BY DEF Lines
<1>1. DOMAIN gs = DOMAIN fs /\ gs[0] = Append(fs[0], line)
      /\ \A a \in DOMAIN fs \ {0} : gs[a] = fs[a]
  OBVIOUS
<1> HIDE DEF gs, line
<1>2. /\ fs[0] \in Seq(Lines) /\ gs[0] \in Seq(Lines) /\ Len(fs[0]) \in Nat
      /\ Len(gs[0]) = Len(fs[0]) + 1
      /\ \A k \in 1..Len(fs[0]) : gs[0][k] = fs[0][k]
      /\ gs[0][Len(fs[0]) + 1] = line
  BY <1>0, <1>1, AppendProperties DEF Chain, Typed
\* A line that is there was there, or is the new one.
<1>3. ASSUME NEW a \in DOMAIN gs, NEW k \in 1..Len(gs[a])
      PROVE  \/ k \in 1..Len(fs[a]) /\ gs[a][k] = fs[a][k] /\ fs[a][k].no \in Nat
                /\ fs[a][k].no <= c
             \/ a = 0 /\ k = Len(fs[0]) + 1 /\ gs[a][k].no = c + 1
  <2>1. CASE k \in 1..Len(fs[a])
    <3>1. gs[a][k] = fs[a][k]
      BY <1>1, <1>2, <2>1
    <3>2. fs[a][k].no \in Nat /\ fs[a][k].no <= c
      BY <1>1, <2>1, LineNumber DEF Chain, UpTo
    <3>3. QED BY <2>1, <3>1, <3>2
  <2>2. CASE k \notin 1..Len(fs[a])
    <3>1. a = 0
      BY <1>1, <2>2
    <3>2. k = Len(fs[0]) + 1
      BY <1>2, <2>2, <3>1
    <3>3. QED BY <1>0, <1>2, <3>1, <3>2
  <2>3. QED BY <2>1, <2>2
<1>4. Typed(gs)
  BY <1>1, <1>2 DEF Chain, Typed
<1>5. Ordered(gs)
  <2> SUFFICES ASSUME NEW a \in DOMAIN gs, NEW b \in DOMAIN gs,
                      NEW k \in 1..Len(gs[a]), NEW l \in 1..Len(gs[b]),
                      a > b \/ (a = b /\ k < l)
               PROVE  gs[a][k].no < gs[b][l].no
    BY DEF Ordered
  <2>1. ~(a = 0 /\ k = Len(fs[0]) + 1)
    BY <1>1, <1>2, <1>4 DEF Typed
  <2>2. k \in 1..Len(fs[a]) /\ gs[a][k] = fs[a][k] /\ fs[a][k].no \in Nat /\ fs[a][k].no <= c
    BY <1>3, <2>1
  <2>3. CASE gs[b][l].no = c + 1
    BY <2>2, <2>3
  <2>4. CASE l \in 1..Len(fs[b]) /\ gs[b][l] = fs[b][l]
    <3>1. fs[a][k].no < fs[b][l].no
      BY <1>1, <2>2, <2>4 DEF Chain, Ordered
    <3>2. QED BY <2>2, <2>4, <3>1
  <2>5. QED BY <1>3, <2>3, <2>4
<1>6. \A n : Holds(fs, n) => Holds(gs, n)
  <2> SUFFICES ASSUME NEW n, NEW a \in DOMAIN fs, NEW k \in 1..Len(fs[a]), fs[a][k].no = n
               PROVE  Holds(gs, n)
    BY DEF Holds
  <2>1. a \in DOMAIN gs /\ gs[a][k] = fs[a][k] /\ k \in 1..Len(gs[a])
    BY <1>1, <1>2
  <2>2. QED BY <2>1 DEF Holds
<1>7. Holds(gs, c + 1)
  <2>1. 0 \in DOMAIN gs /\ Len(fs[0]) + 1 \in 1..Len(gs[0])
    BY <1>1, <1>2
  <2>2. QED BY <1>0, <1>2, <2>1 DEF Holds
<1>8. UpTo(gs, c + 1)
  <2> SUFFICES ASSUME NEW a \in DOMAIN gs, NEW k \in 1..Len(gs[a])
               PROVE  gs[a][k].no <= c + 1 /\ \A n \in gs[a][k].no..(c + 1) : Holds(gs, n)
    BY DEF UpTo
  <2>1. CASE gs[a][k].no = c + 1
    BY <1>7, <2>1
  <2>2. CASE k \in 1..Len(fs[a]) /\ gs[a][k] = fs[a][k] /\ fs[a][k].no \in Nat
             /\ fs[a][k].no <= c
    <3>1. \A n \in fs[a][k].no..c : Holds(fs, n)
      BY <1>1, <2>2 DEF Chain, UpTo
    <3>2. QED BY <1>6, <1>7, <2>2, <3>1
  <2>3. QED BY <1>3, <2>1, <2>2
<1>9. QED BY <1>4, <1>5, <1>8 DEF Chain, gs, line

-----------------------------------------------------------------------------
\* The size of the line in hand is one of a line.
LineTypeOK ==
  /\ count \in Nat
  /\ currentSize \in Nat
  /\ size \in Nat
  /\ holder \notin {Nobody, "init"} => size \in Sizes
  /\ \A i \in DOMAIN files : files[i] \in Seq(Lines)

\* While nothing has failed: the name that the next file is renamed to is free,
\* and whoever writes has the file open.
LostInv ==
  /\ closer = "no"
  /\ \A i \in DOMAIN files : i <= Oldest
  /\ Chain(files, count)
  /\ up /\ at \notin {"open", "reopen"} => 0 \in DOMAIN files
  /\ up /\ at \in {"none", "write"} => handle = "open"
  /\ at = "shift" =>
       /\ backupCount = 0 => shifting < 1
       /\ backupCount > 0 => /\ shifting \in 0..(backupCount - 1)
                             /\ shifting + 1 \notin DOMAIN files
  /\ at \in {"close", "current"} /\ backupCount > 0 => 1 \notin DOMAIN files

Bounded(ls) == Len(ls) > 1 => \E s \in Sizes : TotalSize(ls) < MaxSize + s

\* While no rename has failed: the size counted is at most one line behind.
BoundInv ==
  /\ \A i \in DOMAIN files : Bounded(files[i])
  /\ (up /\ at \in {"none", "open"} /\ 0 \in DOMAIN files) =>
       \E s \in Sizes : TotalSize(files[0]) <= currentSize + s
  /\ (at = "write" /\ 0 \in DOMAIN files) =>
       /\ \E s \in Sizes : TotalSize(files[0]) + size <= currentSize + s
       /\ \/ Len(files[0]) = 0
          \/ \E s \in Sizes : TotalSize(files[0]) + size < MaxSize + s
  /\ at = "reopen" => 0 \notin DOMAIN files

LineInv ==
  /\ LineTypeOK
  /\ mishaps = {} => LostInv
  /\ "rename" \notin mishaps => BoundInv

LEMMA InitLine == FileInit => LineInv
<1> SUFFICES ASSUME FileInit PROVE LineInv
  OBVIOUS
<1>1. DOMAIN files = {} /\ count = 0 /\ ~up /\ at = "none" /\ closer = "no" /\ holder = Nobody
  BY DEF FileInit
<1>2. LineTypeOK
  BY <1>1 DEF FileInit, LineTypeOK
<1>3. LostInv
  BY <1>1 DEF LostInv, Chain, Typed, Ordered, UpTo
<1>4. BoundInv
  BY <1>1 DEF BoundInv
<1>5. QED BY <1>2, <1>3, <1>4 DEF LineInv

\* The files do not change.
LEMMA SameFiles ==
  ASSUME LineInv, UNCHANGED <<files, backupCount>>
  PROVE  /\ \A i \in DOMAIN files' : files'[i] \in Seq(Lines)
         /\ mishaps = {} => Chain(files', count) /\ \A i \in DOMAIN files' : i <= Oldest'
         /\ "rename" \notin mishaps => \A i \in DOMAIN files' : Bounded(files'[i])
BY DEF LineInv, LineTypeOK, LostInv, BoundInv, Oldest

LEMMA BootLine ==
  ASSUME FileInv, LineInv, Boot
  PROVE  LineInv'
<1>1. /\ ~up /\ up' /\ at = "none" /\ at' \in {"remove", "open"} /\ holder' = "init"
      /\ closer' = "no"
      /\ UNCHANGED <<files, backupCount, count, size, mishaps>>
      /\ at' = "remove" => 0 \in DOMAIN files
      /\ 0 \in DOMAIN files => currentSize' = TotalSize(files[0])
      /\ 0 \notin DOMAIN files => currentSize' = 0
  BY DEF Boot, Exists, FileInv, OffInv
<1>2. currentSize' \in Nat
  BY <1>1, TotalNat DEF LineInv, LineTypeOK
<1>3. LineTypeOK'
  BY <1>1, <1>2, SameFiles DEF LineInv, LineTypeOK
<1>4. mishaps' = {} => LostInv'
  BY <1>1, SameFiles DEF LostInv
<1>5. "rename" \notin mishaps' => BoundInv'
  <2> SUFFICES ASSUME "rename" \notin mishaps PROVE BoundInv'
    BY <1>1
  <2>1. PICK s \in Sizes : s \in Nat
    BY FileLoggerAssumption
  <2>2. 0 \in DOMAIN files => TotalSize(files'[0]) <= currentSize' + s
    BY <1>1, <1>2, <2>1
  <2>3. QED
    BY <1>1, <2>2, SameFiles DEF BoundInv
<1>6. QED BY <1>3, <1>4, <1>5 DEF LineInv

LEMMA CrashLine ==
  ASSUME FileInv, LineInv, Crash
  PROVE  LineInv'
<1>1. /\ ~up' /\ at' = "none" /\ holder' = Nobody /\ size' = 0 /\ currentSize' = 0
      /\ closer' = "no" /\ UNCHANGED <<files, backupCount, count, mishaps>>
  BY DEF Crash, history
<1>2. LineTypeOK'
  BY <1>1, SameFiles DEF LineInv, LineTypeOK
<1>3. mishaps' = {} => LostInv'
  BY <1>1, SameFiles DEF LostInv
<1>4. "rename" \notin mishaps' => BoundInv'
  BY <1>1, SameFiles DEF BoundInv
<1>5. QED BY <1>2, <1>3, <1>4 DEF LineInv

\* An open that succeeds or fails.
LEMMA CreateLine ==
  ASSUME LineInv, Create(0)
  PROVE  /\ DOMAIN files' = DOMAIN files \cup {0}
         /\ \A i \in DOMAIN files : files'[i] = files[i]
         /\ 0 \notin DOMAIN files => files'[0] = <<>>
         /\ \A i \in DOMAIN files' : files'[i] \in Seq(Lines)
         /\ mishaps = {} => Chain(files', count)
         /\ "rename" \notin mishaps => \A i \in DOMAIN files' : Bounded(files'[i])
<1>1. files' = [k \in DOMAIN files \cup {0} |-> IF k \in DOMAIN files THEN files[k] ELSE <<>>]
  BY DEF Create, Exists
<1>2. /\ DOMAIN files' = DOMAIN files \cup {0}
      /\ \A i \in DOMAIN files : files'[i] = files[i]
      /\ 0 \notin DOMAIN files => files'[0] = <<>>
  BY <1>1
<1>3. <<>> \in Seq(Lines) /\ Len(<<>>) = 0
  OBVIOUS
<1>4. \A i \in DOMAIN files' : files'[i] \in Seq(Lines)
  BY <1>2, <1>3 DEF LineInv, LineTypeOK
<1>5. mishaps = {} => Chain(files', count)
  BY <1>1, ChainCreate DEF LineInv, LineTypeOK, LostInv
<1>6. "rename" \notin mishaps => \A i \in DOMAIN files' : Bounded(files'[i])
  BY <1>2, <1>3 DEF LineInv, BoundInv, Bounded
<1>7. QED BY <1>2, <1>4, <1>5, <1>6

LEMMA OpenLine ==
  ASSUME FileInv, LineInv, InitOpen
  PROVE  LineInv'
<1>1. /\ at = "open" /\ at' = "none" /\ holder' = Nobody /\ up
      /\ UNCHANGED <<backupCount, up, currentSize, size, closer, count>>
  BY DEF InitOpen, FileInv, OffInv, history, Fails
<1>2. CASE Create(0) /\ handle' = "open" /\ UNCHANGED mishaps
  <2>1. LineTypeOK'
    BY <1>1, <1>2, CreateLine DEF LineInv, LineTypeOK
  <2>2. mishaps' = {} => LostInv'
    <3>1. Oldest' = Oldest /\ 0 <= Oldest
      BY <1>1 DEF Oldest, FileInv, FileTypeOK
    <3>2. QED BY <1>1, <1>2, <3>1, CreateLine DEF LineInv, LostInv
  <2>3. "rename" \notin mishaps' => BoundInv'
    <3> SUFFICES ASSUME "rename" \notin mishaps PROVE BoundInv'
      BY <1>2
    <3>1. PICK s \in Sizes : 0 <= currentSize + s /\
            (0 \in DOMAIN files => TotalSize(files[0]) <= currentSize + s)
      <4>1. \A s \in Sizes : 0 <= currentSize + s
        BY FileLoggerAssumption DEF LineInv, LineTypeOK
      <4>2. \E s \in Sizes : 0 \in DOMAIN files => TotalSize(files[0]) <= currentSize + s
        BY <1>1, FileLoggerAssumption DEF LineInv, BoundInv
      <4>3. QED BY <4>1, <4>2
    <3>2. TotalSize(files'[0]) <= currentSize' + s
      BY <1>1, <1>2, <3>1, CreateLine, TotalEmpty
    <3>3. QED BY <1>1, <1>2, <3>2, CreateLine DEF BoundInv
  <2>4. QED BY <2>1, <2>2, <2>3 DEF LineInv
<1>3. CASE Fails("open") /\ UNCHANGED files
  <2>1. mishaps' # {} /\ ("rename" \notin mishaps' => "rename" \notin mishaps)
    BY <1>3 DEF Fails
  <2>2. LineTypeOK'
    BY <1>1, <1>3, SameFiles DEF LineInv, LineTypeOK
  <2>3. "rename" \notin mishaps' => BoundInv'
    BY <1>1, <1>3, <2>1, SameFiles DEF LineInv, BoundInv
  <2>4. QED BY <2>1, <2>2, <2>3 DEF LineInv
<1>4. QED BY <1>2, <1>3 DEF InitOpen, history

\* A file takes another name.
LEMMA RenameLine ==
  ASSUME LineInv, NEW i \in DOMAIN files, NEW j, Rename(i, j)
  PROVE  /\ files' = Moved(files, i, j)
         /\ DOMAIN files' = (DOMAIN files \ {i}) \cup {j}
         /\ \A k \in DOMAIN files' : files'[k] \in Seq(Lines)
         /\ "rename" \notin mishaps => \A k \in DOMAIN files' : Bounded(files'[k])
<1>1. files' = Moved(files, i, j) /\ DOMAIN files' = (DOMAIN files \ {i}) \cup {j}
  BY DEF Rename, Moved
<1>2. \A k \in DOMAIN files' : files'[k] \in {files[n] : n \in DOMAIN files}
  BY <1>1 DEF Moved
<1>3. QED BY <1>1, <1>2 DEF LineInv, LineTypeOK, BoundInv

LEMMA RemoveLine ==
  ASSUME FileInv, LineInv, RemoveOldest
  PROVE  LineInv'
<1>1. /\ at = "remove" /\ at' = "shift" /\ up /\ shifting' = backupCount - 1
      /\ UNCHANGED <<backupCount, up, enabled, holder, size, closer, count, currentSize,
                     handle, mishaps>>
      /\ backupCount \in Nat
  BY DEF RemoveOldest, Keep, FileInv, OffInv, FileTypeOK, history
<1>2. /\ files' = [i \in DOMAIN files \ ({backupCount} \ {0}) |-> files[i]]
      /\ DOMAIN files' = DOMAIN files \ ({backupCount} \ {0})
      /\ \A i \in DOMAIN files' : files'[i] = files[i] /\ i \in DOMAIN files
  BY DEF RemoveOldest
<1>3. LineTypeOK'
  BY <1>1, <1>2 DEF LineInv, LineTypeOK
<1>4. ASSUME mishaps' = {} PROVE LostInv'
  <2>1. LostInv
    BY <1>1, <1>4 DEF LineInv
  <2>2. Chain(files', count)
    <3>1. CASE backupCount = 0
      <4>1. DOMAIN files' = DOMAIN files
        BY <1>2, <3>1
      <4>2. QED BY <1>2, <2>1, <4>1, ChainSame DEF LostInv
    <3>2. CASE backupCount > 0
      <4>1. files' = Dropped(files, backupCount)
        BY <1>1, <1>2, <3>2 DEF Dropped
      <4>2. \A i \in DOMAIN files : i <= backupCount
        BY <2>1, <1>1, <3>2 DEF LostInv, Oldest
      <4>3. QED
        BY <1>1, <2>1, <4>1, <4>2, ChainDrop DEF LostInv, LineInv, LineTypeOK
    <3>3. QED BY <1>1, <3>1, <3>2
  <2>3. Oldest' = Oldest /\ 0 \in DOMAIN files
    BY <1>1, <2>1 DEF LostInv, Oldest
  <2>4. QED
    BY <1>1, <1>2, <2>1, <2>2, <2>3 DEF LostInv
<1>5. "rename" \notin mishaps' => BoundInv'
  BY <1>1, <1>2 DEF LineInv, BoundInv
<1>6. QED BY <1>3, <1>4, <1>5 DEF LineInv

LEMMA ShiftLine ==
  ASSUME FileInv, LineInv, Shift
  PROVE  LineInv'
<1>1. /\ at = "shift" /\ at' \in {"shift", "close"} /\ up /\ backupCount \in Nat
      /\ shifting \in Int /\ DOMAIN files \subseteq Nat
      /\ UNCHANGED <<backupCount, up, enabled, holder, size, closer, count, currentSize, handle>>
  BY DEF Shift, Keep, FileInv, OffInv, FileTypeOK, history, Fails
<1>2. CASE shifting >= 1 /\ Exists(shifting) /\ Rename(shifting, shifting + 1)
           /\ UNCHANGED mishaps /\ shifting' = shifting - 1 /\ at' = "shift"
  <2>1. LineTypeOK'
    BY <1>1, <1>2, RenameLine DEF LineInv, LineTypeOK, Exists
  <2>2. ASSUME mishaps' = {} PROVE LostInv'
    <3>1. LostInv /\ backupCount > 0 /\ shifting + 1 \notin DOMAIN files
          /\ shifting + 1 <= backupCount
      BY <1>1, <1>2, <2>2 DEF LineInv, LostInv
    <3>2. Chain(files', count)
      <4>1. shifting \in DOMAIN files /\ files' = Moved(files, shifting, shifting + 1)
        BY <1>2, RenameLine DEF Exists
      <4>2. count \in Nat /\ Chain(files, count)
        BY <3>1 DEF LineInv, LineTypeOK, LostInv
      <4>3. Chain(Moved(files, shifting, shifting + 1), count)
        BY <3>1, <4>1, <4>2, ChainMove
      <4>4. QED BY <4>1, <4>3
    <3>3. DOMAIN files' = (DOMAIN files \ {shifting}) \cup {shifting + 1}
      BY <1>2, RenameLine DEF Exists
    <3>4. Oldest' = Oldest /\ shifting + 1 <= Oldest
      BY <1>1, <3>1 DEF Oldest
    <3>5. shifting' \in 0..(backupCount - 1) /\ shifting' + 1 \notin DOMAIN files'
      BY <1>1, <1>2, <3>1, <3>3
    <3>6. 0 \in DOMAIN files'
      BY <1>1, <1>2, <3>1, <3>3 DEF LostInv
    <3>7. \A i \in DOMAIN files' : i <= Oldest'
      BY <3>1, <3>3, <3>4 DEF LostInv
    <3>8. QED
      BY <1>1, <1>2, <3>1, <3>2, <3>5, <3>6, <3>7 DEF LostInv
  <2>3. "rename" \notin mishaps' => BoundInv'
    BY <1>2, RenameLine DEF BoundInv, Exists
  <2>4. QED BY <2>1, <2>2, <2>3 DEF LineInv
<1>3. CASE UNCHANGED <<files, mishaps>> /\ shifting >= 1 /\ ~Exists(shifting)
           /\ shifting' = shifting - 1 /\ at' = "shift"
  <2>1. LineTypeOK'
    BY <1>1, <1>3, SameFiles DEF LineInv, LineTypeOK
  <2>2. ASSUME mishaps' = {} PROVE LostInv'
    <3>1. LostInv /\ backupCount > 0
      BY <1>1, <1>3, <2>2 DEF LineInv, LostInv
    <3>2. shifting' \in 0..(backupCount - 1) /\ shifting' + 1 \notin DOMAIN files
      BY <1>1, <1>3, <3>1 DEF LostInv, Exists
    <3>3. QED
      BY <1>1, <1>3, <2>2, <3>1, <3>2, SameFiles DEF LostInv
  <2>3. "rename" \notin mishaps' => BoundInv'
    BY <1>1, <1>3, SameFiles DEF BoundInv
  <2>4. QED BY <2>1, <2>2, <2>3 DEF LineInv
<1>4. CASE Fails("rename") /\ UNCHANGED files
  <2>1. LineTypeOK'
    BY <1>1, <1>4, SameFiles DEF LineInv, LineTypeOK
  <2>2. "rename" \in mishaps'
    BY <1>4 DEF Fails
  <2>3. QED BY <2>1, <2>2 DEF LineInv
<1>5. CASE UNCHANGED <<files, shifting, mishaps>> /\ shifting < 1 /\ at' = "close"
  <2>1. LineTypeOK'
    BY <1>1, <1>5, SameFiles DEF LineInv, LineTypeOK
  <2>2. ASSUME mishaps' = {} PROVE LostInv'
    <3>1. LostInv
      BY <1>5, <2>2 DEF LineInv
    <3>2. backupCount > 0 => 1 \notin DOMAIN files
      <4>1. backupCount > 0 => shifting = 0 /\ shifting + 1 \notin DOMAIN files
        BY <1>1, <1>5, <3>1 DEF LostInv
      <4>2. QED BY <4>1
    <3>3. QED
      BY <1>1, <1>5, <2>2, <3>1, <3>2, SameFiles DEF LostInv
  <2>3. "rename" \notin mishaps' => BoundInv'
    BY <1>1, <1>5, SameFiles DEF BoundInv
  <2>4. QED BY <2>1, <2>2, <2>3 DEF LineInv
<1>6. QED BY <1>1, <1>2, <1>3, <1>4, <1>5 DEF Shift, history

LEMMA CloseOldLine ==
  ASSUME FileInv, LineInv, CloseOld
  PROVE  LineInv'
<1>1. /\ at = "close" /\ at' = "current" /\ up /\ backupCount \in Nat
      /\ UNCHANGED <<files, backupCount, up, holder, size, closer, count, currentSize, mishaps>>
  BY DEF CloseOld, Keep, FileInv, OffInv, FileTypeOK, history
<1>2. LineTypeOK'
  BY <1>1, SameFiles DEF LineInv, LineTypeOK
<1>3. mishaps' = {} => LostInv'
  BY <1>1, SameFiles DEF LineInv, LostInv
<1>4. "rename" \notin mishaps' => BoundInv'
  BY <1>1, SameFiles DEF BoundInv
<1>5. QED BY <1>2, <1>3, <1>4 DEF LineInv

LEMMA CurrentLine ==
  ASSUME FileInv, LineInv, RenameCurrent
  PROVE  LineInv'
<1>1. /\ at = "current" /\ at' = "reopen" /\ up /\ backupCount \in Nat
      /\ DOMAIN files \subseteq Nat
      /\ UNCHANGED <<backupCount, up, holder, size, closer, count, currentSize, handle>>
  BY DEF RenameCurrent, Keep, FileInv, OffInv, FileTypeOK, history, Fails
<1>2. CASE Exists(0) /\ Rename(0, 1) /\ UNCHANGED mishaps
  <2>1. LineTypeOK' /\ DOMAIN files' = (DOMAIN files \ {0}) \cup {1}
    BY <1>1, <1>2, RenameLine DEF LineInv, LineTypeOK, Exists
  <2>2. ASSUME mishaps' = {} PROVE LostInv'
    <3>1. LostInv /\ 0 \in DOMAIN files /\ files' = Moved(files, 0, 1)
      BY <1>2, <2>2, RenameLine DEF LineInv, Exists
    <3>2. Chain(files', count)
      <4>1. CASE backupCount = 0
        <5>1. \A i \in DOMAIN files : i <= 1
          BY <3>1, <4>1 DEF LostInv, Oldest
        <5>2. QED
          BY <3>1, <5>1, ChainReplace DEF LostInv, LineInv, LineTypeOK
      <4>2. CASE backupCount > 0
        <5>1. 0 + 1 \notin DOMAIN files
          BY <1>1, <3>1, <4>2 DEF LostInv
        <5>2. Chain(Moved(files, 0, 0 + 1), count)
          BY <3>1, <5>1, ChainMove DEF LostInv, LineInv, LineTypeOK
        <5>3. QED BY <3>1, <5>2
      <4>3. QED BY <1>1, <4>1, <4>2
    <3>3. Oldest' = Oldest /\ 1 <= Oldest
      BY <1>1 DEF Oldest
    <3>4. \A i \in DOMAIN files' : i <= Oldest'
      BY <2>1, <3>1, <3>3 DEF LostInv
    <3>5. QED BY <1>1, <3>1, <3>2, <3>4 DEF LostInv
  <2>3. "rename" \notin mishaps' => BoundInv'
    BY <1>1, <1>2, <2>1, RenameLine DEF BoundInv, Exists
  <2>4. QED BY <2>1, <2>2, <2>3 DEF LineInv
<1>3. CASE UNCHANGED <<files, mishaps>> /\ ~Exists(0)
  <2>1. LineTypeOK'
    BY <1>1, <1>3, SameFiles DEF LineInv, LineTypeOK
  <2>2. mishaps' = {} => LostInv'
    BY <1>1, <1>3, SameFiles DEF LineInv, LostInv
  <2>3. "rename" \notin mishaps' => BoundInv'
    BY <1>1, <1>3, SameFiles DEF BoundInv, Exists
  <2>4. QED BY <2>1, <2>2, <2>3 DEF LineInv
<1>4. CASE Fails("rename") /\ UNCHANGED files
  <2>1. LineTypeOK'
    BY <1>1, <1>4, SameFiles DEF LineInv, LineTypeOK
  <2>2. "rename" \in mishaps'
    BY <1>4 DEF Fails
  <2>3. QED BY <2>1, <2>2 DEF LineInv
<1>5. QED BY <1>1, <1>2, <1>3, <1>4 DEF RenameCurrent, history

LEMMA ReopenLine ==
  ASSUME FileInv, LineInv, Reopen
  PROVE  LineInv'
<1>1. /\ at = "reopen" /\ at' = (IF holder = "init" THEN "open" ELSE "write") /\ up
      /\ holder # Nobody /\ backupCount \in Nat
      /\ UNCHANGED <<backupCount, up, holder, size, closer, count>>
  BY DEF Reopen, Keep, FileInv, OffInv, FileTypeOK, history, Fails
<1>2. CASE Create(0) /\ handle' = "open" /\ currentSize' = 0 /\ UNCHANGED mishaps
  <2>1. LineTypeOK'
    BY <1>1, <1>2, CreateLine DEF LineInv, LineTypeOK
  <2>2. mishaps' = {} => LostInv'
    <3>1. Oldest' = Oldest /\ 0 <= Oldest
      BY <1>1 DEF Oldest
    <3>2. QED BY <1>1, <1>2, <3>1, CreateLine DEF LineInv, LostInv
  <2>3. "rename" \notin mishaps' => BoundInv'
    <3> SUFFICES ASSUME "rename" \notin mishaps PROVE BoundInv'
      BY <1>2
    <3>1. files'[0] = <<>> /\ TotalSize(files'[0]) = 0 /\ Len(files'[0]) = 0
      BY <1>1, <1>2, CreateLine, TotalEmpty DEF LineInv, BoundInv
    <3>2. \E s \in Sizes : 0 <= 0 + s
      <4>1. PICK s \in Sizes : s \in Nat
        BY FileLoggerAssumption
      <4>2. QED BY <4>1
    <3>3. at' = "write" => size \in Sizes /\ 0 + size <= 0 + size
      BY <1>1, FileLoggerAssumption DEF LineInv, LineTypeOK
    <3>4. QED
      BY <1>1, <1>2, <3>1, <3>2, <3>3, CreateLine DEF BoundInv
  <2>4. QED BY <2>1, <2>2, <2>3 DEF LineInv
<1>3. CASE Fails("open") /\ UNCHANGED <<files, handle, currentSize>>
  <2>1. mishaps' # {} /\ ("rename" \notin mishaps' => "rename" \notin mishaps)
    BY <1>3 DEF Fails
  <2>2. LineTypeOK'
    BY <1>1, <1>3, SameFiles DEF LineInv, LineTypeOK
  <2>3. "rename" \notin mishaps' => BoundInv'
    BY <1>1, <1>3, <2>1, SameFiles DEF LineInv, BoundInv
  <2>4. QED BY <2>1, <2>2, <2>3 DEF LineInv
<1>4. QED BY <1>2, <1>3 DEF Reopen, history

LEMMA CheckLine ==
  ASSUME LineInv, NEW w \in Writers, WriteCheck(w)
  PROVE  LineInv'
BY DEF WriteCheck, LineInv, LineTypeOK, LostInv, BoundInv, Oldest, logFields, history

LEMMA LockLine ==
  ASSUME FileInv, LineInv, NEW w \in Writers, WriteLock(w)
  PROVE  LineInv'
<1>1. /\ at = "none" /\ holder = Nobody /\ holder' = w /\ up /\ w \notin {Nobody, "init"}
      /\ UNCHANGED <<files, backupCount, up, handle, closer, count, mishaps>>
  BY FileLoggerAssumption DEF WriteLock, FileInv, FileTypeOK, OffInv, history
<1>2. PICK s \in Sizes : /\ size' = s /\ currentSize' = currentSize + s
                         /\ at' = IF currentSize + s >= MaxSize THEN "remove" ELSE "write"
  BY DEF WriteLock
<1>3. s \in Nat /\ currentSize \in Nat /\ MaxSize \in Nat
  BY FileLoggerAssumption DEF LineInv, LineTypeOK
<1>4. LineTypeOK'
  BY <1>1, <1>2, <1>3, SameFiles DEF LineInv, LineTypeOK
<1>5. mishaps' = {} => LostInv'
  BY <1>1, <1>2, SameFiles DEF LineInv, LostInv
<1>6. "rename" \notin mishaps' => BoundInv'
  <2> SUFFICES ASSUME "rename" \notin mishaps PROVE BoundInv'
    BY <1>1
  <2>1. ASSUME at' = "write", 0 \in DOMAIN files
        PROVE  \E t \in Sizes : TotalSize(files[0]) + s <= currentSize + s + t
                                /\ TotalSize(files[0]) + s < MaxSize + t
    <3>1. PICK t \in Sizes : TotalSize(files[0]) <= currentSize + t
      BY <1>1, <2>1 DEF LineInv, BoundInv
    <3>2. TotalSize(files[0]) \in Nat /\ t \in Nat
      BY <2>1, TotalNat, FileLoggerAssumption DEF LineInv, LineTypeOK
    <3>3. currentSize + s < MaxSize
      BY <1>2, <1>3, <2>1
    <3>4. QED BY <1>3, <3>1, <3>2, <3>3
  <2>2. at' \in {"remove", "write"}
    BY <1>2
  <2>3. \A i \in DOMAIN files' : Bounded(files'[i])
    BY <1>1, SameFiles
  <2>4. QED
    BY <1>1, <1>2, <2>1, <2>2, <2>3 DEF BoundInv
<1>7. QED BY <1>4, <1>5, <1>6 DEF LineInv

LEMMA WriteLineLine ==
  ASSUME FileInv, LineInv, WriteLine
  PROVE  LineInv'
<1>1. /\ at = "write" /\ at' = "none" /\ holder' = Nobody /\ size' = 0 /\ up
      /\ count' = count + 1
      /\ UNCHANGED <<backupCount, up, handle, currentSize, closer, mishaps>>
      /\ count \in Nat /\ size \in Nat /\ currentSize \in Nat
  BY DEF WriteLine, FileInv, OffInv, logFields, LineInv, LineTypeOK
<1> DEFINE line == [no |-> count + 1, size |-> size]
<1>2. line \in Lines /\ line.size = size
  BY <1>1 DEF Lines
<1>3. /\ DOMAIN files' = DOMAIN files
      /\ \A i \in DOMAIN files : i # 0 => files'[i] = files[i]
      /\ 0 \in DOMAIN files => files'[0] \in {files[0], Append(files[0], line)}
  BY DEF WriteLine
<1>4. LineTypeOK'
  <2>1. 0 \in DOMAIN files => files'[0] \in Seq(Lines)
    BY <1>2, <1>3, TotalAppend DEF LineInv, LineTypeOK
  <2>2. QED BY <1>1, <1>3, <2>1 DEF LineInv, LineTypeOK
<1>5. ASSUME mishaps' = {} PROVE LostInv'
  <2>1. LostInv /\ 0 \in DOMAIN files /\ handle = "open"
    BY <1>1, <1>5 DEF LineInv, LostInv
  <2>2. files' = [files EXCEPT ![0] = Append(@, [no |-> count + 1, size |-> size])]
    BY <2>1 DEF WriteLine
  <2>3. Chain(files', count')
    BY <1>1, <2>1, <2>2, ChainGrow DEF LostInv
  <2>4. QED
    BY <1>1, <1>3, <2>1, <2>3 DEF LostInv, Oldest
<1>6. ASSUME "rename" \notin mishaps' PROVE BoundInv'
  <2>1. BoundInv
    BY <1>1, <1>6 DEF LineInv
  <2>2. ASSUME 0 \in DOMAIN files
        PROVE  /\ Bounded(files'[0])
               /\ \E s \in Sizes : TotalSize(files'[0]) <= currentSize + s
    <3>1. /\ files[0] \in Seq(Lines) /\ TotalSize(files[0]) \in Nat /\ Len(files[0]) \in Nat
          /\ TotalSize(Append(files[0], line)) = TotalSize(files[0]) + size
          /\ Len(Append(files[0], line)) = Len(files[0]) + 1
      BY <1>2, <2>2, TotalNat, TotalAppend, AppendProperties DEF LineInv, LineTypeOK
    <3>2. /\ \E s \in Sizes : TotalSize(files[0]) + size <= currentSize + s
          /\ \/ Len(files[0]) = 0
             \/ \E s \in Sizes : TotalSize(files[0]) + size < MaxSize + s
      BY <1>1, <2>1, <2>2 DEF BoundInv
    <3> HIDE DEF line
    <3>3. CASE files'[0] = files[0]
      <4>1. PICK s \in Sizes : TotalSize(files[0]) + size <= currentSize + s
        BY <3>2
      <4>2. s \in Nat
        BY FileLoggerAssumption
      <4>3. TotalSize(files[0]) <= currentSize + s
        BY <1>1, <3>1, <4>1, <4>2
      <4>4. Bounded(files[0])
        BY <2>1, <2>2 DEF BoundInv
      <4>5. QED BY <3>3, <4>3, <4>4
    <3>4. CASE files'[0] = Append(files[0], line)
      <4>1. \E s \in Sizes : TotalSize(files'[0]) <= currentSize + s
        BY <3>1, <3>2, <3>4
      <4>2. Len(files'[0]) > 1 => \E s \in Sizes : TotalSize(files'[0]) < MaxSize + s
        BY <3>1, <3>2, <3>4
      <4>3. QED BY <4>1, <4>2 DEF Bounded
    <3>5. QED BY <1>3, <2>2, <3>3, <3>4
  <2>3. QED
    BY <1>1, <1>3, <2>1, <2>2 DEF BoundInv
<1>7. QED BY <1>4, <1>5, <1>6 DEF LineInv

LEMMA CloseLine ==
  ASSUME LineInv, Close
  PROVE  LineInv'
<1>1. /\ UNCHANGED <<files, backupCount, up, holder, at, shifting, size, count, currentSize>>
      /\ mishaps \subseteq mishaps'
  BY DEF Close, locked
<1>2. LineTypeOK'
  BY <1>1, SameFiles DEF LineInv, LineTypeOK
<1>3. mishaps' # {}
  BY DEF Close, LineInv, LostInv
<1>4. "rename" \notin mishaps' => BoundInv'
  BY <1>1 DEF LineInv, BoundInv
<1>5. QED BY <1>2, <1>3, <1>4 DEF LineInv

LEMMA LineStep == FileInv /\ LineInv /\ [Next]_vars => LineInv'
<1> SUFFICES ASSUME FileInv, LineInv, [Next]_vars PROVE LineInv'
  OBVIOUS
<1>1. CASE UNCHANGED fileVars
  BY <1>1 DEF fileVars, logFields, locked, history, LineInv, LineTypeOK, LostInv, BoundInv, Oldest
<1>2. CASE FileNext
  BY <1>2, BootLine, OpenLine, CrashLine, RemoveLine, ShiftLine, CloseOldLine, CurrentLine,
     ReopenLine, WriteLineLine, CloseLine, CheckLine, LockLine DEF FileNext, Rotate
<1>3. QED BY <1>1, <1>2 DEF Next, vars

LEMMA LineInvariance == Spec => []LineInv
<1>1. Init => LineInv
  BY InitLine DEF Init
<1>2. FileInv /\ LineInv /\ [Next]_vars => LineInv'
  BY LineStep
<1>3. QED BY <1>1, <1>2, FileInvariance, PTL DEF Spec

\* Rotation loses the oldest lines only, however it is interrupted, unless a
\* rename or an open failed or Close was called (rotate, init, Write).
THEOREM OldestLinesGoFirst == Spec => []NoLineLost
<1>1. LineInv => NoLineLost
  <2> SUFFICES ASSUME LineInv, mishaps = {}
               PROVE  /\ \A p, q \in Retained : ReadBefore(p, q) => LineNo(p) < LineNo(q)
                      /\ \A p \in Retained : \A n \in LineNo(p)..count :
                           \E q \in Retained : LineNo(q) = n
                      /\ \A p \in Retained : LineNo(p) <= count
    BY DEF NoLineLost
  <2>1. Chain(files, count)
    BY DEF LineInv, LostInv
  <2>2. \A p \in Retained : \E a \in DOMAIN files : \E k \in 1..Len(files[a]) : p = <<a, k>>
    BY DEF Retained
  <2>3. \A a \in DOMAIN files : \A k \in 1..Len(files[a]) : <<a, k>> \in Retained
    BY DEF Retained
  <2>4. ASSUME NEW p \in Retained, NEW q \in Retained, ReadBefore(p, q)
        PROVE  LineNo(p) < LineNo(q)
    <3>1. PICK a \in DOMAIN files : \E k \in 1..Len(files[a]) : p = <<a, k>>
      BY <2>2
    <3>2. PICK k \in 1..Len(files[a]) : p = <<a, k>>
      BY <3>1
    <3>3. PICK b \in DOMAIN files : \E l \in 1..Len(files[b]) : q = <<b, l>>
      BY <2>2
    <3>4. PICK l \in 1..Len(files[b]) : q = <<b, l>>
      BY <3>3
    <3>5. a > b \/ (a = b /\ k < l)
      BY <2>4, <3>2, <3>4 DEF ReadBefore
    <3>6. files[a][k].no < files[b][l].no
      BY <2>1, <3>5 DEF Chain, Ordered
    <3>7. QED BY <3>2, <3>4, <3>6 DEF LineNo
  <2>5. ASSUME NEW p \in Retained
        PROVE  LineNo(p) <= count /\ \A n \in LineNo(p)..count : \E q \in Retained : LineNo(q) = n
    <3>1. PICK a \in DOMAIN files : \E k \in 1..Len(files[a]) : p = <<a, k>>
      BY <2>2
    <3>2. PICK k \in 1..Len(files[a]) : p = <<a, k>>
      BY <3>1
    <3>3. LineNo(p) = files[a][k].no
      BY <3>2 DEF LineNo
    <3>4. files[a][k].no <= count /\ \A n \in files[a][k].no..count : Holds(files, n)
      BY <2>1 DEF Chain, UpTo
    <3>5. ASSUME NEW n, Holds(files, n) PROVE \E q \in Retained : LineNo(q) = n
      <4>1. PICK b \in DOMAIN files : \E l \in 1..Len(files[b]) : files[b][l].no = n
        BY <3>5 DEF Holds
      <4>2. PICK l \in 1..Len(files[b]) : files[b][l].no = n
        BY <4>1
      <4>3. <<b, l>> \in Retained /\ LineNo(<<b, l>>) = n
        BY <2>3, <4>2 DEF LineNo
      <4>4. QED BY <4>3
    <3>6. QED BY <3>3, <3>4, <3>5
  <2>6. QED BY <2>4, <2>5
<1>2. QED BY <1>1, LineInvariance, PTL

\* A file of several lines is over the limit by less than one line, also after a
\* restart and a failed open, unless a rename failed (Write, init, rotate).
THEOREM FilesStayBounded == Spec => []FilesBounded
<1>1. LineInv => FilesBounded
  BY DEF LineInv, BoundInv, Bounded, FilesBounded
<1>2. QED BY <1>1, LineInvariance, PTL
-----------------------------------------------------------------------------
(* The runtime log *)

RingTypeOK ==
  /\ lines \in Seq(Lines)
  /\ session \in Seq(Lines)
  /\ bytes = TotalSize(lines)

\* The lines kept begin at f, and one more would not fit.
KeptFrom(f) ==
  /\ lines = SubSeq(session, f, Len(session))
  /\ Fits(lines)
  /\ \A k \in 1..(f - 1) : ~Fits(SubSeq(session, k, Len(session)))

RingInv == RingTypeOK /\ \E f \in 1..(Len(session) + 1) : KeptFrom(f)

LEMMA FitsNothing == Fits(<<>>)
BY RuntimeLogAssumption, TotalEmpty DEF Fits

LEMMA InitRing ==
  ASSUME RingInit
  PROVE  RingInv
<1>1. RingTypeOK
  BY TotalEmpty DEF RingInit, RingTypeOK
<1>2. Len(session) = 0 /\ SubSeq(session, 1, Len(session)) = <<>>
  BY SubSeqEmpty DEF RingInit
<1>3. KeptFrom(1)
  BY <1>2, FitsNothing DEF RingInit, KeptFrom
<1>4. QED BY <1>1, <1>2, <1>3 DEF RingInv

\* A store that fits has room when all its lines are dropped.
LEMMA RoomAtLast ==
  ASSUME RingTypeOK, NEW n \in 1..RingBytes
  PROVE  Room(Len(lines), n)
<1>1. SubSeq(lines, 1, Len(lines)) = lines /\ Len(lines) \in Nat
  BY SubSeqFull DEF RingTypeOK
<1>2. TotalSize(lines) \in Nat
  BY TotalNat DEF RingTypeOK
<1>3. bytes - TotalSize(SubSeq(lines, 1, Len(lines))) + n = n
  <2>1. bytes = TotalSize(lines) /\ TotalSize(SubSeq(lines, 1, Len(lines))) = TotalSize(lines)
    BY <1>1 DEF RingTypeOK
  <2>2. QED BY <1>2, <2>1, RuntimeLogAssumption
<1>4. Len(lines) - Len(lines) < RingLines /\ n <= RingBytes
  BY <1>1, RuntimeLogAssumption
<1>5. QED BY <1>3, <1>4 DEF Room

LEMMA EvictedIsLeast ==
  ASSUME RingTypeOK, NEW n \in 1..RingBytes
  PROVE  /\ Evicted(n) \in 0..Len(lines)
         /\ Room(Evicted(n), n)
         /\ \A j \in 0..(Evicted(n) - 1) : ~Room(j, n)
<1> DEFINE T == {k \in 0..Len(lines) : Room(k, n)}
<1>0. Len(lines) \in Nat
  BY DEF RingTypeOK
<1>1. Len(lines) \in T
  BY <1>0, RoomAtLast
<1>2. PICK k \in T : \A j \in T : k <= j
  <2> HIDE DEF T
  <2>1. T \in SUBSET Nat
    BY <1>0 DEF T
  <2>2. QED BY <1>1, <2>1, Least
<1>3. /\ k \in 0..Len(lines) /\ Room(k, n)
      /\ \A j \in 0..(k - 1) : ~Room(j, n)
  <2>1. ASSUME NEW j \in 0..(k - 1), Room(j, n) PROVE FALSE
    <3>1. j \in T
      BY <1>0, <2>1
    <3>2. QED BY <1>0, <1>2, <3>1
  <2>2. QED BY <2>1
<1>4. /\ Evicted(n) \in 0..Len(lines)
      /\ Evicted(n) = Len(lines) \/ Room(Evicted(n), n)
      /\ \A j \in 0..(Evicted(n) - 1) : ~Room(j, n)
  BY <1>3 DEF Evicted
<1>5. QED BY <1>4, RoomAtLast

LEMMA AppendRing ==
  ASSUME RingInv, RingAppend
  PROVE  RingInv'
<1>1. PICK s \in LineSizes : \E n \in Cut(s) :
        LET l == [no |-> Len(session) + 1, size |-> n]
            e == Evicted(n)
        IN  /\ lines' = Append(SubSeq(lines, e + 1, Len(lines)), l)
            /\ bytes' = bytes - TotalSize(SubSeq(lines, 1, e)) + n
            /\ session' = Append(session, l)
  BY DEF RingAppend
<1>2. PICK n \in Cut(s) :
        LET l == [no |-> Len(session) + 1, size |-> n]
            e == Evicted(n)
        IN  /\ lines' = Append(SubSeq(lines, e + 1, Len(lines)), l)
            /\ bytes' = bytes - TotalSize(SubSeq(lines, 1, e)) + n
            /\ session' = Append(session, l)
  BY <1>1
<1> DEFINE line == [no |-> Len(session) + 1, size |-> n]
           k == Evicted(n)
           rest == SubSeq(lines, k + 1, Len(lines))
           last == Len(session)
<1>3. n \in 1..RingBytes
  BY RuntimeLogAssumption DEF Cut
<1>4. /\ lines \in Seq(Lines) /\ session \in Seq(Lines) /\ bytes = TotalSize(lines)
      /\ Len(lines) \in Nat /\ last \in Nat
  BY DEF RingInv, RingTypeOK
<1>5. line \in Lines /\ line.size = n
  BY <1>3, <1>4 DEF Lines
<1>6. k \in 0..Len(lines) /\ Room(k, n) /\ \A j \in 0..(k - 1) : ~Room(j, n)
  BY <1>3, EvictedIsLeast DEF RingInv
<1>7. PICK f \in 1..(last + 1) : KeptFrom(f)
  BY DEF RingInv
<1>8. PICK u : SumsOf(u, session)
  BY <1>4, SumsExist
<1>9. \A j \in 0..last : u[j] \in Nat
  BY <1>4, <1>8 DEF SumsOf
<1>10. Len(lines) = last - f + 1 /\ TotalSize(lines) = u[last] - u[f - 1]
  BY <1>4, <1>7, <1>8, SubSeqProperties, TotalPart DEF KeptFrom
<1>11. /\ lines' = Append(rest, line) /\ session' = Append(session, line)
       /\ bytes' = bytes - TotalSize(SubSeq(lines, 1, k)) + n
  BY <1>2
<1> HIDE DEF line, k
<1>12. ASSUME NEW j \in 0..Len(lines)
       PROVE  /\ SubSeq(lines, j + 1, Len(lines)) = SubSeq(session, f + j, last)
              /\ TotalSize(SubSeq(lines, 1, j)) = u[f + j - 1] - u[f - 1]
  <2> DEFINE a == SubSeq(lines, j + 1, Len(lines))
             b == SubSeq(session, f + j, last)
             c == SubSeq(lines, 1, j)
             d == SubSeq(session, f, f + j - 1)
  <2>1. \A i \in 1..Len(lines) : lines[i] = session[f + i - 1]
    BY <1>4, <1>7, <1>10, SubSeqProperties DEF KeptFrom
  <2>2. a = b
    <3>1. /\ a \in Seq(Lines) /\ Len(a) = Len(lines) - j
          /\ \A i \in 1..(Len(lines) - j) : a[i] = lines[j + i]
      BY <1>4, SubSeqProperties
    <3>2. /\ b \in Seq(Lines) /\ Len(b) = Len(lines) - j
          /\ \A i \in 1..(Len(lines) - j) : b[i] = session[f + j + i - 1]
      BY <1>4, <1>10, SubSeqProperties
    <3>3. \A i \in 1..(Len(lines) - j) : lines[j + i] = session[f + j + i - 1]
      BY <1>4, <2>1
    <3> HIDE DEF a, b
    <3>4. QED BY <3>1, <3>2, <3>3, SeqEqual
  <2>3. c = d
    <3>1. c \in Seq(Lines) /\ Len(c) = j /\ \A i \in 1..j : c[i] = lines[i]
      BY <1>4, SubSeqProperties
    <3>2. d \in Seq(Lines) /\ Len(d) = j /\ \A i \in 1..j : d[i] = session[f + i - 1]
      BY <1>4, <1>10, SubSeqProperties
    <3>3. \A i \in 1..j : lines[i] = session[f + i - 1]
      BY <1>4, <2>1
    <3> HIDE DEF c, d
    <3>4. QED BY <3>1, <3>2, <3>3, SeqEqual
  <2>4. TotalSize(d) = u[f + j - 1] - u[f - 1]
    <3>1. f \in 1..(Len(session) + 1) /\ f + j - 1 \in (f - 1)..Len(session)
      BY <1>4, <1>10
    <3>2. QED BY <1>4, <1>8, <3>1, TotalPart
  <2>5. QED BY <2>2, <2>3, <2>4
<1>13. ASSUME NEW j \in 1..(last + 1)
       PROVE  /\ SubSeq(session', j, last + 1) = Append(SubSeq(session, j, last), line)
              /\ Fits(SubSeq(session', j, last + 1)) <=>
                   (last - j + 1 < RingLines /\ u[last] - u[j - 1] + n <= RingBytes)
  <2> DEFINE a == SubSeq(session', j, last + 1)
             b == SubSeq(session, j, last)
  <2>1. /\ session' \in Seq(Lines) /\ Len(session') = last + 1
        /\ \A i \in 1..last : session'[i] = session[i]
        /\ session'[last + 1] = line
    BY <1>4, <1>5, <1>11, AppendProperties
  <2>2. /\ a \in Seq(Lines) /\ Len(a) = last - j + 2
        /\ \A i \in 1..(last - j + 2) : a[i] = session'[j + i - 1]
    BY <1>4, <2>1, SubSeqProperties
  <2>3. /\ b \in Seq(Lines) /\ Len(b) = last - j + 1
        /\ \A i \in 1..(last - j + 1) : b[i] = session[j + i - 1]
    BY <1>4, SubSeqProperties
  <2>4. TotalSize(b) = u[last] - u[j - 1]
    BY <1>4, <1>8, TotalPart
  <2> HIDE DEF a, b
  <2>5. /\ Append(b, line) \in Seq(Lines) /\ Len(Append(b, line)) = last - j + 2
        /\ \A i \in 1..(last - j + 1) : Append(b, line)[i] = b[i]
        /\ Append(b, line)[last - j + 2] = line
    <3>1. Len(b) + 1 = last - j + 2
      BY <1>4, <2>3
    <3>2. /\ Append(b, line) \in Seq(Lines) /\ Len(Append(b, line)) = Len(b) + 1
          /\ \A i \in 1..Len(b) : Append(b, line)[i] = b[i]
          /\ Append(b, line)[Len(b) + 1] = line
      BY <1>5, <2>3, AppendProperties
    <3>3. QED BY <2>3, <3>1, <3>2
  <2>6. ASSUME NEW i \in 1..(last - j + 2) PROVE a[i] = Append(b, line)[i]
    <3>1. CASE i \in 1..(last - j + 1)
      <4>1. j + i - 1 \in 1..last /\ i \in 1..(last - j + 2)
        BY <1>4, <3>1
      <4>2. a[i] = session'[j + i - 1] /\ b[i] = session[j + i - 1]
        BY <2>2, <2>3, <3>1, <4>1
      <4>3. QED BY <2>1, <2>5, <3>1, <4>1, <4>2
    <3>2. CASE i = last - j + 2
      <4>1. j + i - 1 = last + 1
        BY <1>4, <3>2
      <4>2. QED BY <2>1, <2>2, <2>5, <3>2, <4>1
    <3>3. i \in 1..(last - j + 1) \/ i = last - j + 2
      BY <1>4
    <3>4. QED BY <3>1, <3>2, <3>3
  <2>7. a = Append(b, line)
    BY <2>2, <2>5, <2>6, SeqEqual
  <2>8. TotalSize(a) = u[last] - u[j - 1] + n
    BY <1>5, <2>3, <2>4, <2>7, TotalAppend
  <2>9. Fits(a) <=> (last - j + 1 < RingLines /\ u[last] - u[j - 1] + n <= RingBytes)
    BY <1>4, <2>2, <2>8, RuntimeLogAssumption DEF Fits
  <2>10. QED BY <2>7, <2>9 DEF a, b
<1>14. rest = SubSeq(session, f + k, last) /\ rest \in Seq(Lines)
       /\ f + k \in 1..(last + 1) /\ f + k - 1 \in 0..last /\ f - 1 \in 0..last
  <2>1. f + k \in 1..(last + 1) /\ f + k - 1 \in 0..last /\ f - 1 \in 0..last
    BY <1>4, <1>6, <1>7, <1>10
  <2>2. rest = SubSeq(session, f + k, last)
    BY <1>6, <1>12
  <2>3. rest \in Seq(Lines)
    BY <1>4, <1>6, SubSeqProperties
  <2>4. QED BY <2>1, <2>2, <2>3
<1>15. RingTypeOK'
  <2>1. TotalSize(rest) = u[last] - u[f + k - 1]
    <3>1. PICK g \in 1..(last + 1) : g = f + k
      BY <1>14
    <3>2. last \in (g - 1)..last
      BY <1>4, <3>1
    <3>3. TotalSize(SubSeq(session, g, last)) = u[last] - u[g - 1]
      BY <1>4, <1>8, <3>2, TotalPart
    <3>4. g - 1 = f + k - 1
      BY <1>4, <1>6, <1>7, <3>1
    <3>5. QED BY <1>14, <3>1, <3>3, <3>4
  <2>2. TotalSize(SubSeq(lines, 1, k)) = u[f + k - 1] - u[f - 1]
    BY <1>6, <1>12
  <2>3. lines' \in Seq(Lines) /\ TotalSize(lines') = u[last] - u[f + k - 1] + n
    BY <1>5, <1>11, <1>14, <2>1, TotalAppend
  <2>4. u[last] \in Nat /\ u[f + k - 1] \in Nat /\ u[f - 1] \in Nat
    BY <1>4, <1>9, <1>14
  <2>5. bytes' = TotalSize(lines')
    BY <1>3, <1>4, <1>10, <1>11, <2>2, <2>3, <2>4
  <2>6. session' \in Seq(Lines)
    BY <1>4, <1>5, <1>11, TotalAppend
  <2>7. QED BY <2>3, <2>5, <2>6 DEF RingTypeOK
<1>16. Len(session') = last + 1
  BY <1>4, <1>5, <1>11, AppendProperties
<1>17. \A j \in 0..Len(lines) :
         Room(j, n) <=> (last - (f + j) + 1 < RingLines /\ u[last] - u[f + j - 1] + n <= RingBytes)
  <2> SUFFICES ASSUME NEW j \in 0..Len(lines)
      PROVE Room(j, n) <=> (last - (f + j) + 1 < RingLines
                              /\ u[last] - u[f + j - 1] + n <= RingBytes)
    OBVIOUS
  <2>1. TotalSize(SubSeq(lines, 1, j)) = u[f + j - 1] - u[f - 1]
    BY <1>12
  <2>2. f + j - 1 \in 0..last /\ f - 1 \in 0..last
    BY <1>4, <1>7, <1>10
  <2>3. u[last] \in Nat /\ u[f + j - 1] \in Nat /\ u[f - 1] \in Nat
    BY <1>4, <1>9, <2>2
  <2>4. bytes - TotalSize(SubSeq(lines, 1, j)) + n = u[last] - u[f + j - 1] + n
    BY <1>3, <1>4, <1>10, <2>1, <2>3
  <2>5. Len(lines) - j = last - (f + j) + 1
    BY <1>4, <1>7, <1>10
  <2>6. QED BY <2>4, <2>5 DEF Room
<1>18. PICK g : g = f + k
  OBVIOUS
<1>19. KeptFrom(g)'
  <2>1. lines' = SubSeq(session', g, last + 1)
    BY <1>11, <1>13, <1>14, <1>18
  <2>2. Fits(lines)'
    BY <1>6, <1>13, <1>14, <1>17, <1>18, <2>1 DEF Fits
  <2>3. ASSUME NEW j \in 1..(g - 1), Fits(SubSeq(session', j, last + 1)) PROVE FALSE
    <3>0. j \in 1..(last + 1) /\ j - 1 \in 0..last
      BY <1>4, <1>14, <1>18
    <3>1. last - j + 1 < RingLines /\ u[last] - u[j - 1] + n <= RingBytes
      BY <1>13, <2>3, <3>0
    <3>2. CASE j < f
      <4>1. j \in 1..(f - 1) /\ ~Fits(SubSeq(session, j, last))
        BY <1>4, <1>7, <3>2 DEF KeptFrom
      <4>2. TotalSize(SubSeq(session, j, last)) = u[last] - u[j - 1]
        BY <1>4, <1>8, <3>0, TotalPart
      <4>3. Len(SubSeq(session, j, last)) = last - j + 1
        BY <1>4, <3>0, SubSeqProperties
      <4>4. u[last] \in Nat /\ u[j - 1] \in Nat
        BY <1>4, <1>9, <3>0
      <4>5. QED
        BY <1>3, <1>4, <3>0, <3>1, <4>1, <4>2, <4>3, <4>4, RuntimeLogAssumption DEF Fits
    <3>3. CASE j >= f
      <4>1. j - f \in 0..(k - 1) /\ j - f \in 0..Len(lines) /\ f + (j - f) = j
        BY <1>4, <1>6, <1>7, <1>18, <3>3
      <4>2. ~Room(j - f, n)
        BY <1>6, <4>1
      <4>3. QED BY <1>17, <3>1, <4>1, <4>2
    <3>4. QED BY <1>4, <1>7, <3>2, <3>3
  <2>4. QED BY <1>16, <2>1, <2>2, <2>3 DEF KeptFrom, Fits
<1>20. g \in 1..(Len(session') + 1)
  BY <1>4, <1>14, <1>16, <1>18
<1>21. QED
  <2>1. (\E e \in 1..(Len(session) + 1) : KeptFrom(e))'
    BY <1>19, <1>20
  <2>2. QED BY <1>15, <2>1 DEF RingInv

LEMMA RingStep == RingInv /\ [RingNext]_ringVars => RingInv'
<1> SUFFICES ASSUME RingInv, [RingNext]_ringVars PROVE RingInv'
  OBVIOUS
<1>1. CASE RingAppend
  BY <1>1, AppendRing
<1>2. CASE RingClear
  <2>1. lines' = <<>> /\ bytes' = 0 /\ session' = <<>>
    BY <1>2 DEF RingClear
  <2>2. RingTypeOK'
    BY <2>1, TotalEmpty DEF RingTypeOK
  <2>3. Len(session') = 0 /\ SubSeq(session', 1, Len(session')) = <<>>
    BY <2>1, SubSeqEmpty
  <2>4. KeptFrom(1)'
    BY <2>1, <2>3, FitsNothing DEF KeptFrom, Fits
  <2>5. QED BY <2>2, <2>3, <2>4 DEF RingInv
<1>3. CASE UNCHANGED ringVars
  BY <1>3 DEF ringVars, RingInv, RingTypeOK, KeptFrom, Fits
<1>4. QED BY <1>1, <1>2, <1>3 DEF RingNext

LEMMA RingIsLongest == RingInv => RingIsLongestEnd
<1> SUFFICES ASSUME RingInv PROVE RingIsLongestEnd
  OBVIOUS
<1> DEFINE end == {k \in 1..(Len(session) + 1) : Fits(SubSeq(session, k, Len(session)))}
           first == CHOOSE k \in end : \A j \in end : k <= j
<1>1. PICK f \in 1..(Len(session) + 1) : KeptFrom(f)
  BY DEF RingInv
<1>2. f \in end /\ \A j \in end : f <= j
  <2>1. Len(session) \in Nat
    BY DEF RingInv, RingTypeOK
  <2>2. f \in end
    BY <1>1 DEF KeptFrom
  <2>3. ASSUME NEW j \in end PROVE f <= j
    <3>1. j \notin 1..(f - 1)
      BY <1>1 DEF KeptFrom
    <3>2. QED BY <2>1, <3>1
  <2>4. QED BY <2>2, <2>3
<1>3. first \in end /\ \A j \in end : first <= j
  BY <1>2
<1>4. first = f
  <2>1. f \in Int /\ first \in Int
    BY <1>3
  <2>2. f <= first /\ first <= f
    BY <1>2, <1>3
  <2> HIDE DEF first, end
  <2>3. QED BY <2>1, <2>2
<1>5. lines = SubSeq(session, first, Len(session)) /\ bytes = TotalSize(lines)
  BY <1>1, <1>4 DEF KeptFrom, RingInv, RingTypeOK
<1>6. QED BY <1>5 DEF RingIsLongestEnd

LEMMA RingInvariance == Spec => []RingInv
<1>1. Init => RingInv
  BY InitRing DEF Init
<1>2. RingInv /\ [Next]_vars => RingInv'
  BY RingStep DEF Next, vars
<1>3. QED BY <1>1, <1>2, PTL DEF Spec

\* The runtime log drops the oldest lines and no more of them than it has to, and
\* its byte count is that of the lines it holds, whatever their sizes and the two
\* limits (append, clear).
THEOREM RingKeepsTheEnd == Spec => []RingIsLongestEnd
BY RingIsLongest, RingInvariance, PTL
=============================================================================
