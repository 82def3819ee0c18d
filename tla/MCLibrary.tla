----------------------------- MODULE MCLibrary -----------------------------
(***************************************************************************)
(* Small instances of the library.  Two requests at a time are enough for  *)
(* every race of the code: each of its critical windows lies between two   *)
(* steps of one request.                                                   *)
(***************************************************************************)
EXTENDS LibraryProperties, TLC

CONSTANTS r1, r2

Slots == Permutations(Requests)

=============================================================================
