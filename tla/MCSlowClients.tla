--------------------------- MODULE MCSlowClients ---------------------------
(***************************************************************************)
(* Three rounds, the first two of which pick one subscriber each, and the  *)
(* last two.                                                               *)
(***************************************************************************)
EXTENDS SlowClients

MCSizes == <<2, 3, 4>>
=============================================================================
