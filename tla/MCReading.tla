----------------------------- MODULE MCReading -----------------------------
(***************************************************************************)
(* Two devices and two requests at a time.                                 *)
(***************************************************************************)
EXTENDS ReadingProperties, TLC

CONSTANTS r1, r2, d1, d2, b1

Symmetric == Permutations(Requests) \cup Permutations(Devices)
=============================================================================
