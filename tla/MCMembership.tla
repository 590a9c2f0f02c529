---------------------------- MODULE MCMembership ----------------------------
(***************************************************************************)
(* Small instances of Membership for TLC.                                  *)
(***************************************************************************)
EXTENDS Membership

MCBootstrapPeers == <<{3}, {1}, {}>>

\* Two virtual nodes per server at positions that alternate, none shared.
MCVirtualHash ==
  [v \in (1..3) \X (0..1) \X (0..0) |-> IF v[2] = 0 THEN v[1] ELSE 6 + ((2 * v[1]) % 3)]
MCKeyHash == [k \in {"between", "at"} |-> IF k = "between" THEN 2 ELSE 7]
=============================================================================
