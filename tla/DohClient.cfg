SPECIFICATION FairSpec
CONSTANTS
  r1 = r1
  r2 = r2
  Callers <- MCCallers
  N = 3
INVARIANTS AllServersTried IndexHasAnswered
PROPERTY ResolveReturns
