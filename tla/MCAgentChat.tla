------------------------------- MODULE MCAgentChat -------------------------------
(* AgentChat for TLC.  Turns are interchangeable, and no run is of liveness. *)
EXTENDS AgentChat, TLC

MCSymmetry == Permutations(Requests)
=============================================================================
