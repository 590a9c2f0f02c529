--------------------------- MODULE MCQuorumWithdraw ---------------------------
(***************************************************************************)
(* A small instance of QuorumWithdraw for TLC: two nodes, a quorum         *)
(* withdrawal on each, a retry of the first as a plain withdrawal on the   *)
(* other node, and deposits, within two milliseconds.                      *)
(***************************************************************************)
EXTENDS QuorumWithdraw, TLC

CONSTANTS n1, n2, first, second, retry

MCNodes == {n1, n2}

MCCalls   == {first, second, retry}
MCKind    == [c \in Calls |-> IF c = retry THEN "plain" ELSE "quorum"]
MCHome    == [c \in Calls |-> IF c = first THEN n1 ELSE n2]
MCAmount  == [c \in Calls |-> IF c = second THEN 2 ELSE 1]
MCRequest == [c \in Calls |-> IF c = second THEN "r2" ELSE "r1"]

MCDeposits == {[node |-> n, rid |-> "d1", amount |-> 1] : n \in Nodes}
MCNodeHash == [n \in Nodes |-> IF n = n1 THEN 1 ELSE 0]
=============================================================================
