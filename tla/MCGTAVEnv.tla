----------------------------- MODULE MCGTAVEnv -----------------------------
(* Instance of GTAVEnv for TLC: the constants are in the cfg files.         *)
EXTENDS GTAVEnv
=============================================================================
