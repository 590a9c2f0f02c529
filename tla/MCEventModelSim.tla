---------------------------- MODULE MCEventModelSim ----------------------------
(***************************************************************************)
(* A small instance of EventModelSim for TLC.                              *)
(***************************************************************************)
EXTENDS EventModelSim, TLC

MCSymmetry == Permutations(Requests)

MCNodeOrder == <<"n1", "n2", "n3">>
=============================================================================
