------------------------------- MODULE MCClient -------------------------------
(***************************************************************************)
(* Two attempts in one market, which race or follow one another; accounts  *)
(* in the other market are the owner's doing.                              *)
(***************************************************************************)
EXTENDS Client

CONSTANTS a1, a2, ma, mb

TheMarkets == [a \in Attempts |-> ma]
================================================================================
