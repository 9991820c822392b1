---------------------------- MODULE MCMessaging -----------------------------
(***************************************************************************)
(* Values for the constants of Messaging: every message is of one          *)
(* conversation with one peer, except those the cfg names Others.          *)
(***************************************************************************)
EXTENDS Messaging, TLC

CONSTANTS p1, u1, u2, Others

MCPeerOf  == [m \in Message |-> p1]
MCOwnerOf == [m \in Message |-> IF m \in Others THEN u2 ELSE u1]
Symmetry  == Permutations(Thread)

=============================================================================
