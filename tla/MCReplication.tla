---------------------------- MODULE MCReplication ----------------------------
(***************************************************************************)
(* Small instances of Replication for TLC.  The servers do not start with  *)
(* the same accounts, as the creation of one never reaches the others (see *)
(* Serialisable): server 1 has two, server 2 the first of them, and server *)
(* 3 gave the first number to the customer of server 1's second.           *)
(***************************************************************************)
EXTENDS Replication

MCServers == 1..3
TwoServers == 1..2
MCAccounts == 1..2
OneAccount == {1}
MCAmounts == {1}
MCOps == <<2, 1, 0>>
TwoOps == <<2, 2>>

MCSeeded == <<(1 :> 0) @@ (2 :> 1), (1 :> 0), (1 :> 0)>>
MCSeededPhone == <<(1 :> "ann") @@ (2 :> "bob"), (1 :> "ann"), (1 :> "bob")>>
MCPhones == {"ann", "bob"}

SameSeeded == [s \in TwoServers |-> [a \in OneAccount |-> 2]]
SameSeededPhone == [s \in TwoServers |-> [a \in OneAccount |-> "ann"]]
=============================================================================
