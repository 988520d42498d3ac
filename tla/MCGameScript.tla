---------------------------- MODULE MCGameScript ----------------------------
(* Instance of GameScript for TLC: the constants are in the cfg file.        *)
EXTENDS GameScript
=============================================================================
