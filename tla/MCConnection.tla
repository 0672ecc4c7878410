---------------------------- MODULE MCConnection ----------------------------
(***************************************************************************)
(* An instance of Connection for TLC: the threads of its generations.      *)
(***************************************************************************)
EXTENDS Connection, TLC

WorkerOf  == <<"g1", "g2", "g3">>
AllSavers == {"h1", "g1", "g2", "g3"}
=============================================================================
