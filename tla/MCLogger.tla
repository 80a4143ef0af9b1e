------------------------------ MODULE MCLogger ------------------------------
(* Two goroutines and two scopes; see Logger.cfg for the sizes. *)
EXTENDS Logger

CONSTANTS w1, w2, scope1, scope2

MCWriters == {w1, w2}
MCScopes == {scope1, scope2}
=============================================================================
