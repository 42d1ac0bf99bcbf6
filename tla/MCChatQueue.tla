----------------------------- MODULE MCChatQueue -----------------------------
(***************************************************************************)
(* Small instances of ChatQueue.  Messages and sockets are interchangeable *)
(* in every safety property, so runs without liveness use the symmetry.    *)
(***************************************************************************)
EXTENDS ChatQueue, TLC

Symmetry == Permutations(Msgs) \cup Permutations(Sockets)
=============================================================================
