---------------------------- MODULE MCRoadNodes ----------------------------
(* Instance of RoadNodes for TLC: the constants are in the cfg file.         *)
EXTENDS RoadNodes
=============================================================================
