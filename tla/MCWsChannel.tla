------------------------------ MODULE MCWsChannel ------------------------------
(* WsChannel for TLC.  Windows are interchangeable, and no run is of liveness. *)
EXTENDS WsChannel, TLC

MCSymmetry == Permutations(Windows)
=============================================================================
