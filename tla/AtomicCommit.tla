---------------------------- MODULE AtomicCommit ----------------------------
(***************************************************************************)
(* What a two-phase commit promises: the replicas of a withdrawal that     *)
(* apply it and those that drop it never belong to the same withdrawal, a  *)
(* replica applies it only after every replica has agreed, and a replica's *)
(* decision is final.                                                      *)
(***************************************************************************)
CONSTANTS
  Calls,  \* the withdrawals
  Nodes   \* the replicas

VARIABLE
  state   \* of each withdrawal at each replica: "working", "prepared",
          \* "applied" or "dropped"

CommitInit == state = [c \in Calls |-> [n \in Nodes |-> "working"]]

Become(c, n, s) == state' = [state EXCEPT ![c][n] = s]

Agree(c, n) == state[c][n] = "working" /\ Become(c, n, "prepared")

Refuse(c, n) == state[c][n] = "working" /\ Become(c, n, "dropped")

\* Every replica has agreed, and none has dropped the withdrawal since.
ApplyIt(c, n) ==
  /\ state[c][n] = "prepared"
  /\ \A m \in Nodes : state[c][m] \in {"prepared", "applied"}
  /\ Become(c, n, "applied")

DropIt(c, n) ==
  /\ state[c][n] = "prepared"
  /\ \A m \in Nodes : state[c][m] # "applied"
  /\ Become(c, n, "dropped")

CommitNext == \E c \in Calls, n \in Nodes :
                Agree(c, n) \/ Refuse(c, n) \/ ApplyIt(c, n) \/ DropIt(c, n)

CommitSpec == CommitInit /\ [][CommitNext]_state
=============================================================================
