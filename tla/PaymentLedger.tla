---------------------------- MODULE PaymentLedger ----------------------------
(***************************************************************************)
(* What a server of the mobile money simulator promises its clients, with  *)
(* no queue, no worker and no crash: the money of a request moves at most  *)
(* once and in one step, a request is confirmed only after its money has   *)
(* moved, and a request is rejected only if its money never moves.         *)
(*                                                                         *)
(* RequestPipeline is shown to implement this specification.               *)
(***************************************************************************)
EXTENDS Integers

CONSTANTS
  Accounts,        \* the accounts of this server
  InitialBalance,  \* the balance each account starts with
  Submissions,     \* the operations clients may submit (see RequestPipeline)
  RequestIds,      \* the request ids the submissions carry
  InLeg            \* id of the credit row of a transfer, by request id

VARIABLES
  balance,  \* balance of each account
  posted,   \* the ledger postings: a set of records [id, leg]
  outcome   \* what a client polling the request is told

ledgerVars == <<balance, posted, outcome>>

Own(rid)    == [id |-> rid, leg |-> "own"]
Credit(rid) == [id |-> InLeg[rid], leg |-> "credit"]

\* The postings of an operation: one, or two for a transfer.
Postings(s) ==
  IF s.kind = "transfer" THEN {Own(s.rid), Credit(s.rid)} ELSE {Own(s.rid)}

\* What an operation adds to the balance of an account.
Effect(s, a) ==
  CASE s.kind = "deposit"  -> IF a = s.acct THEN s.amount ELSE 0
    [] s.kind = "withdraw" -> IF a = s.acct THEN -s.amount ELSE 0
    [] OTHER -> (IF a = s.to THEN s.amount ELSE 0)
                  - (IF a = s.acct THEN s.amount ELSE 0)

-----------------------------------------------------------------------------

LedgerInit ==
  /\ balance = InitialBalance
  /\ posted  = {}
  /\ outcome = [r \in RequestIds |-> "open"]

\* Money moves: all postings of one operation together, under fresh ids, and
\* only out of an account that holds the amount.
Post(s) ==
  /\ outcome[s.rid] = "open"
  /\ s.amount > 0
  /\ \A p \in Postings(s), q \in posted : p.id # q.id
  /\ s.kind # "deposit" => balance[s.acct] >= s.amount
  /\ balance' = [a \in Accounts |-> balance[a] + Effect(s, a)]
  /\ posted'  = posted \cup Postings(s)
  /\ UNCHANGED outcome

Confirm(r) ==
  /\ outcome[r] = "open"
  /\ Own(r) \in posted
  /\ outcome' = [outcome EXCEPT ![r] = "confirmed"]
  /\ UNCHANGED <<balance, posted>>

Reject(r) ==
  /\ outcome[r] = "open"
  /\ Own(r) \notin posted
  /\ outcome' = [outcome EXCEPT ![r] = "rejected"]
  /\ UNCHANGED <<balance, posted>>

\* A peer's event replaces one balance, never with a negative one.
Overwrite(a) ==
  /\ balance'[a] >= 0
  /\ balance' = [balance EXCEPT ![a] = balance'[a]]
  /\ UNCHANGED <<posted, outcome>>

LedgerNext ==
  \/ \E s \in Submissions : Post(s)
  \/ \E r \in RequestIds : Confirm(r) \/ Reject(r)
  \/ \E a \in Accounts : Overwrite(a)

LedgerSpec == LedgerInit /\ [][LedgerNext]_ledgerVars
=============================================================================
