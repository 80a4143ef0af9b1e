--------------------------- MODULE LoggerRegistry ---------------------------
(***************************************************************************)
(* The loggers of package logger: GetLogger creates one per scope on first *)
(* use, InitGlobalLogger and SetGlobalLevel change the level of all, those *)
(* made before included, and SetLevel that of one.  A logger is its number *)
(* in the order of creation.  The file a logger writes to is fixed when it *)
(* is made and not modelled, nor is the filter by level and the wording of *)
(* a line.                                                                 *)
(***************************************************************************)
EXTENDS Integers, Sequences, FiniteSets

CONSTANTS
  Callers,    \* goroutines that call GetLogger
  Scopes,
  Levels,     \* config.LogLevel, the first the default
  MaxChanges  \* bound: changes of levels

ASSUME RegistryAssumption ==
  /\ IsFiniteSet(Scopes) /\ Scopes # {}
  /\ Levels \subseteq Nat /\ 0 \in Levels
  /\ MaxChanges \in Nat

VARIABLES
  globalLevel,  \* globalLevel
  setter,       \* where SetGlobalLevel is, which holds loggerMapMu meanwhile
  left,         \* the loggers its loop has not reached
  loggerMap,    \* scope -> logger, 0 for none
  loggers,      \* the level of each logger
  call,         \* call[g]: the scope g asks for and where its GetLogger is
  got,          \* got[g]: the logger g was given last, 0 for none
  own,          \* history: loggers whose level was set by SetLevel since
  changes       \* history: changes of levels

regVars == <<globalLevel, setter, left, loggerMap, loggers, call, got, own, changes>>

RegInit ==
  /\ globalLevel = 0
  /\ setter = "out"
  /\ left = {}
  /\ loggerMap = [s \in Scopes |-> 0]
  /\ loggers = <<>>
  /\ call = [g \in Callers |-> [scope |-> CHOOSE s \in Scopes : TRUE, at |-> "out"]]
  /\ got = [g \in Callers |-> 0]
  /\ own = {}
  /\ changes = 0

Place(g, s, l) == call' = [call EXCEPT ![g] = [scope |-> s, at |-> l]]
Give(g, l) == got' = [got EXCEPT ![g] = l]
-----------------------------------------------------------------------------
\* The look under the read lock.
GetLook(g) ==
  /\ call[g].at = "out"
  /\ setter = "out"
  /\ \E s \in Scopes :
       \/ /\ loggerMap[s] # 0
          /\ Give(g, loggerMap[s])
          /\ UNCHANGED call
       \/ /\ loggerMap[s] = 0
          /\ Place(g, s, "create")
          /\ UNCHANGED got
  /\ UNCHANGED <<globalLevel, setter, left, loggerMap, loggers, own, changes>>

\* A creation that trusts what it saw under the read lock.
GetCreateBlindly(g) ==
  /\ call[g].at = "create"
  /\ setter = "out"
  /\ loggers' = Append(loggers, globalLevel)
  /\ loggerMap' = [loggerMap EXCEPT ![call[g].scope] = Len(loggers')]
  /\ Give(g, Len(loggers'))
  /\ Place(g, call[g].scope, "out")
  /\ UNCHANGED <<globalLevel, setter, left, own, changes>>

\* The second look and the creation under the write lock.
GetCreate(g) ==
  /\ call[g].at = "create"
  /\ setter = "out"
  /\ LET s == call[g].scope IN
       /\ \/ /\ loggerMap[s] # 0
             /\ Give(g, loggerMap[s])
             /\ UNCHANGED <<loggerMap, loggers>>
          \/ /\ loggerMap[s] = 0
             /\ loggers' = Append(loggers, globalLevel)
             /\ loggerMap' = [loggerMap EXCEPT ![s] = Len(loggers')]
             /\ Give(g, Len(loggers'))
       /\ Place(g, s, "out")
  /\ UNCHANGED <<globalLevel, setter, left, own, changes>>

\* A change that reaches the loggers made from now on.
SetGlobalFuture ==
  /\ setter = "out" /\ changes < MaxChanges
  /\ \E l \in Levels : globalLevel' = l
  /\ setter' = "loop"
  /\ left' = {}
  /\ own' = {}
  /\ changes' = changes + 1
  /\ UNCHANGED <<loggerMap, loggers, call, got>>

\* SetGlobalLevel takes the lock, sets the level and walks over the map; it is
\* also the end of InitGlobalLogger.
SetGlobal ==
  /\ setter = "out" /\ changes < MaxChanges
  /\ \E l \in Levels : globalLevel' = l
  /\ setter' = "loop"
  /\ left' = {loggerMap[s] : s \in Scopes} \ {0}
  /\ own' = {}
  /\ changes' = changes + 1
  /\ UNCHANGED <<loggerMap, loggers, call, got>>

SetGlobalStep ==
  /\ setter = "loop"
  /\ \/ /\ \E l \in left :
             /\ loggers' = [loggers EXCEPT ![l] = globalLevel]
             /\ left' = left \ {l}
             /\ own' = own \ {l}
        /\ UNCHANGED setter
     \/ /\ left = {}
        /\ setter' = "out"
        /\ UNCHANGED <<left, loggers, own>>
  /\ UNCHANGED <<globalLevel, loggerMap, call, got, changes>>

\* SetLevel takes the logger's own lock only.
SetLevel(g) ==
  /\ got[g] # 0 /\ changes < MaxChanges
  /\ \E l \in Levels : loggers' = [loggers EXCEPT ![got[g]] = l]
  /\ own' = own \cup {got[g]}
  /\ changes' = changes + 1
  /\ UNCHANGED <<globalLevel, setter, left, loggerMap, call, got>>

RegNext ==
  \/ SetGlobal \/ SetGlobalStep
  \/ \E g \in Callers : GetLook(g) \/ GetCreate(g) \/ SetLevel(g)
-----------------------------------------------------------------------------
\* All who ask for a scope are given the same logger, however their calls
\* overlap (GetLogger).
OneLoggerPerScope ==
  /\ \A g \in Callers : got[g] # 0 => \E s \in Scopes : loggerMap[s] = got[g]
  /\ Len(loggers) <= Cardinality(Scopes)

\* After a change of the global level every logger has it, whether it was made
\* before, during or after, unless its own level was set since
\* (InitGlobalLogger, SetGlobalLevel, GetLogger).
LevelsAgree ==
  setter = "out" =>
    \A l \in 1..Len(loggers) : l \in own \/ loggers[l] = globalLevel
=============================================================================
