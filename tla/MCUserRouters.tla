--------------------------- MODULE MCUserRouters ----------------------------
(* UserRouters with interchangeable request threads.                       *)
EXTENDS UserRouters, TLC

Threads == Permutations(Thread)
=============================================================================
