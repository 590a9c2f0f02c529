-------------------------- MODULE MCRequestPipeline --------------------------
(***************************************************************************)
(* Small instances of RequestPipeline for TLC: two accounts, one of them   *)
(* with funds, and submissions that compete for those funds, retry, move   *)
(* them back, share a client reference, or collide on a transaction id.    *)
(***************************************************************************)
EXTENDS RequestPipeline, TLC

CONSTANTS alice, bob

MCAccounts == {alice, bob}

MCInitialBalance == (alice :> 2) @@ (bob :> 0)

\* The client references "x" and "x_to" of one phone: the second is the id of
\* the credit row of a transfer under the first.
MCRequestIds == {"x", "x_to", "y", "z"}
MCTxIds == {r \o s : r \in MCRequestIds, s \in {"", "_to"}}
MCInLeg == [r \in MCRequestIds |-> r \o "_to"]

Sub(rid, kind, acct, to, amount) ==
  [rid |-> rid, kind |-> kind, acct |-> acct, to |-> to, amount |-> amount]

TransferX  == Sub("x", "transfer", alice, bob, 1)
DepositXto == Sub("x_to", "deposit", bob, NoAccount, 1)
WithdrawY  == Sub("y", "withdraw", alice, NoAccount, 2)
SelfZ      == Sub("z", "transfer", alice, alice, 1)
NowhereZ   == Sub("z", "transfer", alice, NoAccount, 1)

MCSubmissions == {TransferX, DepositXto, WithdrawY, SelfZ, NowhereZ}

\* A withdrawal and a deposit of one phone under one client reference.
WithdrawX == Sub("x", "withdraw", alice, NoAccount, 1)
DepositX  == Sub("x", "deposit", alice, NoAccount, 1)

SharedSubmissions == {WithdrawX, DepositX, WithdrawY}

MCPeerBalances == {-1, 1}
=============================================================================
