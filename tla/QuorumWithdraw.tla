--------------------------- MODULE QuorumWithdraw ---------------------------
(***************************************************************************)
(* The other two withdrawals of the in-process nodes, withdraw and         *)
(* p2p_withdraw: src/src/core/distributed_node.py, quorum_replication.py   *)
(* and checkpoint.py.                                                      *)
(*                                                                         *)
(* Every client call runs in a thread of its own and holds its own node's  *)
(* lock from beginning to end.  A quorum call asks one node after another  *)
(* for a vote, itself last; both kinds send the event to one node after    *)
(* another at the end.  A lock of another node is waited for with a        *)
(* timeout that may pass whenever another thread holds it.  Logs of other  *)
(* nodes are read without their locks.                                     *)
(*                                                                         *)
(* Event ids are as the generators make them, from the clock that the      *)
(* nodes share, a hash of the node's name and a counter.  The clock does   *)
(* not go back, and the hashes of the nodes differ (see IdsAssumption).    *)
(***************************************************************************)
EXTENDS EventLog

CONSTANTS
  Nodes,
  Calls,           \* the calls of withdraw and p2p_withdraw, one thread each;
                   \* the transaction id (a uuid) of a call is the call
  Kind,            \* "plain" for withdraw, "quorum" for p2p_withdraw
  Home,            \* the node each call is made on
  Amount, Request, \* its arguments
  InitialBalance,  \* initial checkpoint balance, the same on every node
  Deposits,        \* what clients deposit: records [node, rid, amount]
  NodeHash,        \* hash(node_id) & 0xFF
  Slots,           \* 256: values of the hash, and of the counter in an id
  MaxTime,         \* bound on the clock
  MaxPerMs,        \* bound: a node's counter where deposits stop
  NoCall

ASSUME CallsAssumption ==
  /\ Kind \in [Calls -> {"plain", "quorum"}]
  /\ Home \in [Calls -> Nodes]
  /\ Amount \in [Calls -> Nat \ {0}]
  /\ NoCall \notin Calls
  /\ InitialBalance \in Nat
  /\ MaxTime \in Nat /\ MaxPerMs \in Nat
  /\ \A d \in Deposits : d.node \in Nodes /\ d.amount \in Nat \ {0}

ASSUME HashAssumption ==
  /\ Slots \in Nat \ {0}
  /\ NodeHash \in [Nodes -> 0..(Slots - 1)]

\* What the code hopes for and does not ensure: the names of the nodes hash
\* differently, and the counter of a node does not wrap within one millisecond.
\* Otherwise ids repeat (IdsRepeatTheorem in QuorumWithdrawProofs).
ASSUME IdsAssumption ==
  /\ IsFiniteSet(Calls)
  /\ Slots > MaxPerMs + Cardinality(Calls)
  /\ \A n, m \in Nodes : NodeHash[n] = NodeHash[m] => n = m

VARIABLES
  now,          \* the clock, in milliseconds
  generator,    \* last_timestamp_ms and counter of each node's EventIDGenerator
  lock,         \* the thread that holds each node's lock
  log,          \* event_log of each node
  checkpoint,   \* checkpoint of each node
  accountLock,  \* account_locks of each node's QuorumReplicationManager
  votes,        \* votes of each quorum transaction, by node
  phase,        \* where each call is
  todo,         \* nodes the call has yet to contact in this phase
  sync          \* what the call is fetching: for which node, peers still to
                \* read and events fetched

vars == <<now, generator, lock, log, checkpoint, accountLock, votes, phase,
          todo, sync>>

nodeVars == <<generator, log, checkpoint>>

-----------------------------------------------------------------------------

Peers(n) == Nodes \ {n}

\* The loop over remote_nodes may contact these now; the own node comes last.
Contacts(c) == IF todo[c] = {Home[c]} THEN todo[c] ELSE todo[c] \ {Home[c]}

\* The node's lock is reentrant.
MayEnter(c, n) == lock[n] \in {NoCall, c}

Unlock(n) == lock' = [lock EXCEPT ![n] = NoCall]

Accepted(c) == {n \in Nodes : votes[c][n] = "accept"}

\* Every manager is made with total_nodes = 1, and wiring the nodes does not
\* change it.
TotalNodes == 1
QuorumSize == (TotalNodes \div 2) + 1

HasQuorum(c) == Cardinality(Accepted(c)) >= QuorumSize

\* A bug variant of the definition that follows.
NextStampUncounted(n) == [ms |-> now, counter |-> 0]

\* The counter tells the ids of one millisecond apart.
NextStamp(n) ==
  IF now = generator[n].ms
    THEN [generator[n] EXCEPT !.counter = @ + 1]
    ELSE [ms |-> now, counter |-> 0]

\* The id in which a node packs a stamp.
IdOf(n, stamp) == (stamp.ms * Slots + NodeHash[n]) * Slots + (stamp.counter % Slots)

EventId(n) == IdOf(n, NextStamp(n))

NewEvent(n, type, amount, rid) ==
  [id |-> EventId(n), type |-> type, node |-> n, rid |-> rid, amount |-> amount]

Withdrawal(c) == NewEvent(Home[c], "withdraw", Amount[c], Request[c])

\* A checkpoint as of an own deposit and of an own withdrawal.
Deposited(point, event) ==
  [balance |-> point.balance + event.amount, last |-> event.id,
   deposits |-> point.deposits + event.amount, withdrawals |-> point.withdrawals,
   lastWithdraw |-> point.lastWithdraw]

Withdrawn(point, event, balance) ==
  [balance |-> balance - event.amount, last |-> event.id,
   deposits |-> point.deposits, withdrawals |-> point.withdrawals + event.amount,
   lastWithdraw |-> event.amount]

-----------------------------------------------------------------------------
(* The start of a call.                                                    *)

Init ==
  /\ now = 1
  /\ generator = [n \in Nodes |-> [ms |-> 0, counter |-> 0]]
  /\ lock = [n \in Nodes |-> NoCall]
  /\ log = [n \in Nodes |-> {}]
  /\ checkpoint = [n \in Nodes |-> [balance |-> InitialBalance, last |-> 0,
                                    deposits |-> 0, withdrawals |-> 0,
                                    lastWithdraw |-> 0]]
  /\ accountLock = [n \in Nodes |-> NoCall]
  /\ votes = [c \in Calls |-> [n \in Nodes |-> "none"]]
  /\ phase = [c \in Calls |-> "new"]
  /\ todo = [c \in Calls |-> {}]
  /\ sync = [c \in Calls |-> [at |-> Home[c], toRead |-> {}, fetched |-> {}]]

StartSync(c, n) ==
  /\ phase' = [phase EXCEPT ![c] = "sync"]
  /\ sync' = [sync EXCEPT ![c] = [at |-> n, toRead |-> Peers(n), fetched |-> {}]]

\* withdraw: take the lock and fetch events.
BeginPlain(c) ==
  /\ phase[c] = "new" /\ Kind[c] = "plain"
  /\ lock[Home[c]] = NoCall
  /\ lock' = [lock EXCEPT ![Home[c]] = c]
  /\ StartSync(c, Home[c])
  /\ UNCHANGED <<now, nodeVars, accountLock, votes, todo>>

\* p2p_withdraw: take the lock and start a transaction, unless one of this
\* node has the account.
BeginQuorum(c) ==
  /\ phase[c] = "new" /\ Kind[c] = "quorum"
  /\ lock[Home[c]] = NoCall
  /\ IF accountLock[Home[c]] = NoCall
       THEN /\ lock' = [lock EXCEPT ![Home[c]] = c]
            /\ accountLock' = [accountLock EXCEPT ![Home[c]] = c]
            /\ phase' = [phase EXCEPT ![c] = "ask"]
            /\ todo' = [todo EXCEPT ![c] = Nodes]
       ELSE /\ phase' = [phase EXCEPT ![c] = "refused"]
            /\ UNCHANGED <<lock, accountLock, todo>>
  /\ UNCHANGED <<now, nodeVars, votes, sync>>

BeginTimeout(c) ==
  /\ phase[c] = "new"
  /\ lock[Home[c]] # NoCall
  /\ phase' = [phase EXCEPT ![c] = "refused"]
  /\ UNCHANGED <<now, nodeVars, lock, accountLock, votes, todo, sync>>

\* Reading a log that its owner is changing may fail; the node is skipped.
SyncEvents(c, m) ==
  /\ phase[c] = "sync"
  /\ m \in sync[c].toRead
  /\ LET news == GetEventsAfter(log[m], checkpoint[sync[c].at].last)
     IN  \E got \in {news} \cup (IF MayEnter(c, m) THEN {} ELSE {{}}) :
           sync' = [sync EXCEPT ![c] = [at |-> @.at, toRead |-> @.toRead \ {m},
                                        fetched |-> @.fetched \cup got]]
  /\ UNCHANGED <<now, nodeVars, lock, accountLock, votes, phase, todo>>

Synced(c) == MergeEvents(log[sync[c].at], sync[c].fetched)

CanAfford(c) ==
  ComputeBalanceOptimized(checkpoint[sync[c].at], Synced(c)) >= Amount[c]

-----------------------------------------------------------------------------
(* Applying a withdrawal at home.                                          *)

\* A bug variant of the definition that follows.
RecordCheckpointFirst(c, known, balance) ==
  LET n == Home[c]
      event == Withdrawal(c)
  IN  /\ generator' = [generator EXCEPT ![n] = NextStamp(n)]
      /\ log' = [log EXCEPT ![n] = AddEvent(known, event)]
      /\ checkpoint' = [checkpoint EXCEPT ![n] = Withdrawn(@, event, balance)]
      /\ IF Accepts(known, event)
           THEN /\ phase' = [phase EXCEPT ![c] = "tell"]
                /\ todo' = [todo EXCEPT ![c] = Peers(n)]
                /\ UNCHANGED lock
           ELSE /\ phase' = [phase EXCEPT ![c] = "duplicate"]
                /\ Unlock(n)
                /\ UNCHANGED todo

\* Create the event, log it, move the checkpoint.  When the log refuses the
\* event the call fails; a quorum call leaves the account locked.
Record(c, known, balance) ==
  LET n == Home[c]
      event == Withdrawal(c)
  IN  /\ generator' = [generator EXCEPT ![n] = NextStamp(n)]
      /\ log' = [log EXCEPT ![n] = AddEvent(known, event)]
      /\ IF Accepts(known, event)
           THEN /\ checkpoint' = [checkpoint EXCEPT ![n] = Withdrawn(@, event, balance)]
                /\ phase' = [phase EXCEPT ![c] = "tell"]
                /\ todo' = [todo EXCEPT ![c] = Peers(n)]
                /\ UNCHANGED lock
           ELSE /\ phase' = [phase EXCEPT ![c] = "duplicate"]
                /\ Unlock(n)
                /\ UNCHANGED <<checkpoint, todo>>

\* withdraw, once the events are fetched.
Withdraw(c) ==
  /\ phase[c] = "sync" /\ Kind[c] = "plain"
  /\ sync[c].toRead = {}
  /\ IF CanAfford(c)
       THEN Record(c, Synced(c),
                   ComputeBalanceOptimized(checkpoint[Home[c]], Synced(c)))
       ELSE /\ log' = [log EXCEPT ![Home[c]] = Synced(c)]
            /\ phase' = [phase EXCEPT ![c] = "rejected"]
            /\ Unlock(Home[c])
            /\ UNCHANGED <<generator, checkpoint, todo>>
  /\ UNCHANGED <<now, accountLock, votes, sync>>

-----------------------------------------------------------------------------
(* The quorum.                                                             *)

\* p2p_receive_withdrawal_request: take the voter's lock, fetch events, vote.
VoteEnter(c, n) ==
  /\ phase[c] = "ask"
  /\ n \in Contacts(c)
  /\ MayEnter(c, n)
  /\ lock' = [lock EXCEPT ![n] = c]
  /\ StartSync(c, n)
  /\ UNCHANGED <<now, nodeVars, accountLock, votes, todo>>

\* A bug variant of the definition that follows.
VoteTimeoutNever(c, n) == n \notin Nodes /\ UNCHANGED vars

VoteTimeout(c, n) ==
  /\ phase[c] = "ask"
  /\ n \in Contacts(c)
  /\ ~MayEnter(c, n)
  /\ votes' = [votes EXCEPT ![c][n] = "reject"]
  /\ todo' = [todo EXCEPT ![c] = @ \ {n}]
  /\ UNCHANGED <<now, nodeVars, lock, accountLock, phase, sync>>

Vote(c) ==
  /\ phase[c] = "sync" /\ Kind[c] = "quorum"
  /\ sync[c].toRead = {}
  /\ LET n == sync[c].at
     IN  /\ log' = [log EXCEPT ![n] = Synced(c)]
         /\ votes' = [votes EXCEPT ![c][n] = IF CanAfford(c) THEN "accept" ELSE "reject"]
         /\ todo' = [todo EXCEPT ![c] = @ \ {n}]
         /\ IF n = Home[c] THEN UNCHANGED lock ELSE Unlock(n)
  /\ phase' = [phase EXCEPT ![c] = "ask"]
  /\ UNCHANGED <<now, generator, checkpoint, accountLock, sync>>

\* A bug variant of the definition that follows.
RejectKeepingAccount(c) ==
  /\ phase[c] = "ask" /\ todo[c] = {}
  /\ ~HasQuorum(c)
  /\ phase' = [phase EXCEPT ![c] = "rejected"]
  /\ Unlock(Home[c])
  /\ UNCHANGED <<now, nodeVars, accountLock, votes, todo, sync>>

\* The rollback notification only writes to the peers' program logs.
Reject(c) ==
  /\ phase[c] = "ask" /\ todo[c] = {}
  /\ ~HasQuorum(c)
  /\ phase' = [phase EXCEPT ![c] = "rejected"]
  /\ accountLock' = [accountLock EXCEPT ![Home[c]] = NoCall]
  /\ Unlock(Home[c])
  /\ UNCHANGED <<now, nodeVars, votes, todo, sync>>

\* The balance is computed with the event in the log; the amount is subtracted
\* from it again.
Apply(c) ==
  /\ phase[c] = "ask" /\ todo[c] = {}
  /\ HasQuorum(c)
  /\ LET n == Home[c]
     IN  Record(c, log[n],
                ComputeBalance(checkpoint[n], AddEvent(log[n], Withdrawal(c))))
  /\ UNCHANGED <<now, accountLock, votes, sync>>

-----------------------------------------------------------------------------
(* Telling the other nodes, and the end of a call.                         *)

\* The withdrawal's event, which its node logged last.
Told(c) == CHOOSE e \in log[Home[c]] : e.id = checkpoint[Home[c]].last

Propagate(c, n) ==
  /\ phase[c] = "tell"
  /\ n \in todo[c]
  /\ MayEnter(c, n)
  /\ log' = [log EXCEPT ![n] = AddEvent(@, Told(c))]
  /\ todo' = [todo EXCEPT ![c] = @ \ {n}]
  /\ UNCHANGED <<now, generator, lock, checkpoint, accountLock, votes, phase, sync>>

\* Nobody sends the event again.
PropagateTimeout(c, n) ==
  /\ phase[c] = "tell"
  /\ n \in todo[c]
  /\ ~MayEnter(c, n)
  /\ todo' = [todo EXCEPT ![c] = @ \ {n}]
  /\ UNCHANGED <<now, nodeVars, lock, accountLock, votes, phase, sync>>

End(c) ==
  /\ phase[c] = "tell" /\ todo[c] = {}
  /\ phase' = [phase EXCEPT ![c] = "applied"]
  /\ accountLock' = IF Kind[c] = "quorum" THEN [accountLock EXCEPT ![Home[c]] = NoCall]
                                          ELSE accountLock
  /\ Unlock(Home[c])
  /\ UNCHANGED <<now, nodeVars, votes, todo, sync>>

Step(c) ==
  \/ BeginPlain(c) \/ BeginQuorum(c) \/ BeginTimeout(c)
  \/ Withdraw(c) \/ Vote(c) \/ Reject(c) \/ Apply(c) \/ End(c)
  \/ \E n \in Nodes : \/ SyncEvents(c, n) \/ VoteEnter(c, n) \/ VoteTimeout(c, n)
                      \/ Propagate(c, n) \/ PropagateTimeout(c, n)

-----------------------------------------------------------------------------
(* Other clients of the nodes, and the clock.                              *)

\* A deposit is applied locally; others fetch it when they synchronize.
Deposit(d) ==
  LET n == d.node
      event == NewEvent(n, "deposit", d.amount, d.rid)
  IN  /\ lock[n] = NoCall
      /\ NextStamp(n).counter <= MaxPerMs
      /\ log' = [log EXCEPT ![n] = AddEvent(@, event)]
      /\ checkpoint' = IF Accepts(log[n], event)
                         THEN [checkpoint EXCEPT ![n] = Deposited(@, event)]
                         ELSE checkpoint
      /\ generator' = [generator EXCEPT ![n] = NextStamp(n)]
      /\ UNCHANGED <<now, lock, accountLock, votes, phase, todo, sync>>

GetBalance(n) ==
  /\ lock[n] = NoCall
  /\ log' = [log EXCEPT ![n] =
               MergeEvents(@, UNION {GetEventsAfter(log[m], checkpoint[n].last) :
                                       m \in Peers(n)})]
  /\ UNCHANGED <<now, generator, lock, checkpoint, accountLock, votes, phase, todo, sync>>

Tick ==
  /\ now < MaxTime
  /\ now' = now + 1
  /\ UNCHANGED <<nodeVars, lock, accountLock, votes, phase, todo, sync>>

Next ==
  \/ \E c \in Calls : Step(c)
  \/ \E d \in Deposits : Deposit(d)
  \/ \E n \in Nodes : GetBalance(n)
  \/ Tick

Spec == Init /\ [][Next]_vars

\* Threads run, and a lock that stays taken times out.
FairSpec == Spec /\ \A c \in Calls : WF_vars(Step(c))

-----------------------------------------------------------------------------
(* Properties.                                                             *)

Over(c) == phase[c] \in {"applied", "rejected", "duplicate", "refused"}

Own(n) == {e \in log[n] : e.node = n}

\* A withdrawal is refused by its own log only when its request is there already:
\* as long as ids do not repeat for the reasons IdsAssumption rules out, those a
\* node generates, at whatever moments of the clock and between the events that
\* arrive from others, are not taken (EventIDGenerator 20-41, event_log 112-126).
RefusedOnlyAsDuplicate ==
  \A c \in Calls : phase[c] = "duplicate" =>
    \E e \in log[Home[c]] : e.rid = Request[c] /\ e.rid # NoRequest

\* The checkpoint of a node is as of its newest own event, and its totals are
\* those of its own events, whatever came from other nodes meanwhile, was
\* refused as a duplicate or was decided by a quorum (deposit 107-115,
\* withdraw 177-195, p2p_withdraw 756-776).
CheckpointCoversOwnEvents ==
  \A n \in Nodes :
    /\ checkpoint[n].deposits = Total(Own(n), "deposit")
    /\ checkpoint[n].withdrawals = Total(Own(n), "withdraw")
    /\ \A e \in Own(n) : e.id <= checkpoint[n].last
    /\ Own(n) # {} => \E e \in Own(n) : e.id = checkpoint[n].last

\* A request retried on other nodes, by another kind of call, is in a log once
\* (event_log 112-126).
OneEventPerRequest ==
  \A n \in Nodes : \A e, f \in log[n] : e.rid = f.rid /\ e.rid # NoRequest => e = f

\* The account of a node is locked by the quorum call that runs there, or was
\* left so by one whose request was a duplicate; and no quorum call runs
\* without it (quorum_replication 133-149, 286-288, 313-315).
AccountLockTellsTheCall ==
  /\ \A n \in Nodes : accountLock[n] # NoCall =>
       lock[n] = accountLock[n] \/ phase[accountLock[n]] = "duplicate"
  /\ \A c \in Calls : Kind[c] = "quorum" /\ phase[c] \in {"ask", "sync", "tell"} =>
       accountLock[Home[c]] = c

\* Every call returns, though each holds a lock while it waits for others.
CallsReturn == \A c \in Calls : <>Over(c)
=============================================================================
