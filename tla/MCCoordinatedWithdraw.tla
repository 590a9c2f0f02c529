----------------------- MODULE MCCoordinatedWithdraw -----------------------
(***************************************************************************)
(* A small instance of CoordinatedWithdraw for TLC: three nodes, two       *)
(* concurrent withdrawals on different coordinators, which fit into the    *)
(* balance each but not both, and a deposit that may cover them.           *)
(***************************************************************************)
EXTENDS CoordinatedWithdraw, TLC

CONSTANTS n1, n2, n3, first, second

MCNodes == {n1, n2, n3}

TwoCalls == {first, second}
MCCoordinator == [c \in Calls |-> IF c = first THEN n1 ELSE n2]
MCAmount      == [c \in Calls |-> IF c = second THEN 2 ELSE 1]
MCRequest     == [c \in Calls |-> IF c = second THEN "r2" ELSE "r1"]

MCDeposits == {[rid |-> "d1", amount |-> 2]}
=============================================================================
