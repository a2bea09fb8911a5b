----------------------------- MODULE MCHubStore -----------------------------
(* Two handlers and a sweeper; the sweeper's replica runs one tick ahead.  *)
EXTENDS HubStore

CONSTANTS h1, h2, g1

OneAhead == [c \in Callers |-> IF c = g1 THEN 1 ELSE 0]
=============================================================================
