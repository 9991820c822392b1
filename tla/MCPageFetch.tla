---------------------------- MODULE MCPageFetch -----------------------------
(***************************************************************************)
(* Values for the constants of PageFetch: the fetches in Elsewhere go to   *)
(* d2, the others to d1.                                                   *)
(***************************************************************************)
EXTENDS PageFetch

CONSTANTS d1, d2, Elsewhere

MCDestOf == [f \in Fetch |-> IF f \in Elsewhere THEN d2 ELSE d1]

=============================================================================
