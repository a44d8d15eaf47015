---------------------------- MODULE MCStateMixer ----------------------------
(***************************************************************************)
(* Three thresholds: the directory of the first one could not be opened,   *)
(* the second one lacks a segment.  The volumes: silence, above it and in  *)
(* no threshold, inside the second, on the bound between the second and    *)
(* the third, and inside the third.                                        *)
(***************************************************************************)
EXTENDS StateMixer

MCBounds == <<<<0, 0>>, <<2, 4>>, <<4, 6>>>>
MCLens == <<<<>>, <<8, 0>>, <<6, 8>>>>
MCLoaded == <<{}, {1}, {1, 2}>>
=============================================================================
