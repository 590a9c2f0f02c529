------------------------ MODULE CoordinatedWithdraw ------------------------
(***************************************************************************)
(* The coordinated (two-phase-commit) withdrawal of the in-process nodes:  *)
(* src/src/core/distributed_node.py and coordinated_commit.py.             *)
(*                                                                         *)
(* Every client call runs in a thread of its own.  It holds the lock of    *)
(* its coordinator from beginning to end, and takes the lock of one more   *)
(* node at a time, with a timeout that may pass whenever another thread    *)
(* holds that lock.  A call reads the logs of other nodes without their    *)
(* locks, one node after another.  What a node does under its lock without *)
(* looking at other nodes is one step.                                     *)
(*                                                                         *)
(* The nodes share one clock: event ids are unique and grow.  remote_nodes *)
(* is visited in any order, the coordinator itself comes last.             *)
(***************************************************************************)
EXTENDS EventLog

CONSTANTS
  Nodes,
  Calls,           \* the calls of coordinated_withdraw, one thread each; the
                   \* transaction id (a uuid) of a call is the call
  Coordinator,     \* the node each call is made on
  Amount, Request, \* its arguments
  InitialBalance,  \* initial checkpoint balance, the same on every node
  Deposits,        \* what clients deposit: records [rid, amount]
  MaxEvents,       \* bound: no deposit once so many event ids are used
  NoCall

ASSUME CallsAssumption ==
  /\ Coordinator \in [Calls -> Nodes]
  /\ Amount \in [Calls -> Nat \ {0}]
  /\ NoCall \notin Calls
  /\ InitialBalance \in Nat
  /\ MaxEvents \in Nat
  /\ \A d \in Deposits : d.amount \in Nat \ {0}

VARIABLES
  lock,         \* the thread that holds each node's lock
  log,          \* event_log of each node
  checkpoint,   \* checkpoint of each node
  locked,       \* keys of locked_funds; the amount is the call's
  prepared,     \* prepared_transactions: their events
  accountLock,  \* account_locks of each node's CoordinatedCommitManager
  votes,        \* votes of each transaction, by replica
  phase,        \* where each call is
  todo,         \* nodes the call has yet to contact in this phase
  sync,         \* the prepare that is fetching events: node, peers still to read
                \* and events fetched
  lastId        \* the last event id generated

vars == <<lock, log, checkpoint, locked, prepared, accountLock, votes, phase,
          todo, sync, lastId>>

nodeVars == <<log, checkpoint, locked, prepared, lastId>>

-----------------------------------------------------------------------------

Home(c) == Coordinator[c]

\* The nodes the loops over remote_nodes may contact now.
Contacts(c) == IF todo[c] = {Home(c)} THEN {Home(c)} ELSE todo[c] \ {Home(c)}

\* The node's lock is reentrant.
MayEnter(c, n) == lock[n] \in {NoCall, c}

\* What lock the node has when the call leaves it.
LeftLock(c, n) == IF n = Home(c) THEN lock ELSE [lock EXCEPT ![n] = NoCall]

\* A bug variant of the definition that follows.
ReservedAtHome(n) ==
  MapThenSumSet(LAMBDA c : Amount[c], {c \in locked[n] : Home(c) = n})

Reserved(n) == MapThenSumSet(LAMBDA c : Amount[c], locked[n])

Ids(events) == {e.id : e \in events}

PreparedFor(c, n) == {e \in prepared[n] : e.call = c}

Acks(c) == {n \in Nodes : votes[c][n] = "ack"}

\* max(1, int(total_replicas * 0.66))
RequiredAcks ==
  LET acks == (Cardinality(Nodes) * 66) \div 100 IN IF acks < 1 THEN 1 ELSE acks

-----------------------------------------------------------------------------
(* Variants of the definitions below, each as a plausible bug would make   *)
(* it.                                                                     *)

\* Refusals are not looked at, only the number of acknowledgements.
CanCommitByQuorum(c) == Cardinality(Acks(c)) >= RequiredAcks

\* A prepare blocks until it has the lock.
PrepareTimeoutNever(c, n) == n \notin Nodes /\ UNCHANGED vars

\* A commit cleans up the reservations of every call.
ReleaseAll(c, n) ==
  /\ locked' = [locked EXCEPT ![n] = {}]
  /\ prepared' = [prepared EXCEPT ![n] = {}]

\* The account lock of an aborted call stays.
EndKeepingAccountLock(c) ==
  /\ phase[c] \in {"commit", "rollback"}
  /\ todo[c] = {}
  /\ accountLock' = IF phase[c] = "commit" THEN [accountLock EXCEPT ![Home(c)] = NoCall]
                                            ELSE accountLock
  /\ lock' = [lock EXCEPT ![Home(c)] = NoCall]
  /\ phase' = [phase EXCEPT ![c] = IF @ = "commit" THEN "committed" ELSE "aborted"]
  /\ UNCHANGED <<log, checkpoint, locked, prepared, votes, todo, sync, lastId>>

\* A new event has the next id.
NewEvent(type, amount, rid, call) ==
  [id |-> lastId + 1, type |-> type, amount |-> amount, rid |-> rid, call |-> call]

\* A prepare applies the event at once.
GrantApplying(c, n, merged) ==
  LET event == NewEvent("withdraw", Amount[c], Request[c], c)
  IN  /\ log' = [log EXCEPT ![n] = AddEvent(merged, event)]
      /\ locked' = [locked EXCEPT ![n] = @ \cup {c}]
      /\ prepared' = [prepared EXCEPT ![n] = @ \cup {event}]
      /\ lastId' = lastId + 1
      /\ votes' = [votes EXCEPT ![c][n] = "ack"]

-----------------------------------------------------------------------------
(* The phases of a call.                                                   *)

Init ==
  /\ lock = [n \in Nodes |-> NoCall]
  /\ log = [n \in Nodes |-> {}]
  /\ checkpoint = [n \in Nodes |-> [balance |-> InitialBalance, last |-> 0,
                                    lastWithdraw |-> 0]]
  /\ locked = [n \in Nodes |-> {}]
  /\ prepared = [n \in Nodes |-> {}]
  /\ accountLock = [n \in Nodes |-> NoCall]
  /\ votes = [c \in Calls |-> [n \in Nodes |-> "none"]]
  /\ phase = [c \in Calls |-> "new"]
  /\ todo = [c \in Calls |-> {}]
  /\ sync = [c \in Calls |-> [at |-> Home(c), toRead |-> {}, fetched |-> {}]]
  /\ lastId = 0

\* The call gets its coordinator's lock and creates the transaction, unless
\* the account is locked by another one.
Begin(c) ==
  /\ phase[c] = "new"
  /\ lock[Home(c)] = NoCall
  /\ IF accountLock[Home(c)] = NoCall
       THEN /\ lock' = [lock EXCEPT ![Home(c)] = c]
            /\ accountLock' = [accountLock EXCEPT ![Home(c)] = c]
            /\ phase' = [phase EXCEPT ![c] = "prepare"]
            /\ todo' = [todo EXCEPT ![c] = Nodes]
       ELSE /\ phase' = [phase EXCEPT ![c] = "refused"]
            /\ UNCHANGED <<lock, accountLock, todo>>
  /\ UNCHANGED <<nodeVars, votes, sync>>

BeginTimeout(c) ==
  /\ phase[c] = "new"
  /\ lock[Home(c)] # NoCall
  /\ phase' = [phase EXCEPT ![c] = "refused"]
  /\ UNCHANGED <<nodeVars, lock, accountLock, votes, todo, sync>>

\* prepare_for_coordinated_withdraw: take the lock, fetch events, vote.
PrepareEnter(c, n) ==
  /\ phase[c] = "prepare"
  /\ n \in Contacts(c)
  /\ MayEnter(c, n)
  /\ lock' = [lock EXCEPT ![n] = c]
  /\ phase' = [phase EXCEPT ![c] = "sync"]
  /\ sync' = [sync EXCEPT ![c] = [at |-> n, toRead |-> Nodes \ {n}, fetched |-> {}]]
  /\ UNCHANGED <<nodeVars, accountLock, votes, todo>>

PrepareTimeout(c, n) ==
  /\ phase[c] = "prepare"
  /\ n \in Contacts(c)
  /\ ~MayEnter(c, n)
  /\ votes' = [votes EXCEPT ![c][n] = "nack"]
  /\ todo' = [todo EXCEPT ![c] = @ \ {n}]
  /\ UNCHANGED <<nodeVars, lock, accountLock, phase, sync>>

\* Reading a log that its owner is changing may fail; the node is skipped.
SyncEvents(c, m) ==
  /\ phase[c] = "sync"
  /\ m \in sync[c].toRead
  /\ \E got \in {GetEventsAfter(log[m], checkpoint[sync[c].at].last),
                 IF MayEnter(c, m) THEN GetEventsAfter(log[m], checkpoint[sync[c].at].last)
                                   ELSE {}} :
       sync' = [sync EXCEPT ![c] = [at |-> @.at, toRead |-> @.toRead \ {m},
                                    fetched |-> @.fetched \cup got]]
  /\ UNCHANGED <<nodeVars, lock, accountLock, votes, phase, todo>>

\* Reserve the funds and keep the event for the commit.
Grant(c, n, merged) ==
  /\ log' = [log EXCEPT ![n] = merged]
  /\ locked' = [locked EXCEPT ![n] = @ \cup {c}]
  /\ prepared' = [prepared EXCEPT ![n] =
                    @ \cup {NewEvent("withdraw", Amount[c], Request[c], c)}]
  /\ lastId' = lastId + 1
  /\ votes' = [votes EXCEPT ![c][n] = "ack"]

Vote(c) ==
  /\ phase[c] = "sync"
  /\ sync[c].toRead = {}
  /\ LET n == sync[c].at
         merged == MergeEvents(log[n], sync[c].fetched)
         available == ComputeBalanceOptimized(checkpoint[n], merged) - Reserved(n)
     IN  /\ IF available >= Amount[c]
              THEN Grant(c, n, merged)
              ELSE /\ log' = [log EXCEPT ![n] = merged]
                   /\ votes' = [votes EXCEPT ![c][n] = "nack"]
                   /\ UNCHANGED <<locked, prepared, lastId>>
         /\ todo' = [todo EXCEPT ![c] = @ \ {n}]
         /\ lock' = LeftLock(c, n)
         /\ sync' = [sync EXCEPT ![c] = [at |-> n, toRead |-> {}, fetched |-> {}]]
  /\ phase' = [phase EXCEPT ![c] = "prepare"]
  /\ UNCHANGED <<checkpoint, accountLock>>

CanCommit(c) ==
  /\ \A n \in Nodes : votes[c][n] # "nack"
  /\ Cardinality(Acks(c)) >= RequiredAcks

Decide(c) ==
  /\ phase[c] = "prepare"
  /\ todo[c] = {}
  /\ phase' = [phase EXCEPT ![c] = IF CanCommit(c) THEN "commit" ELSE "rollback"]
  /\ todo' = [todo EXCEPT ![c] = Nodes]
  /\ UNCHANGED <<nodeVars, lock, accountLock, votes, sync>>

\* Forget the reservation and the prepared event.
Release(c, n) ==
  /\ locked' = [locked EXCEPT ![n] = @ \ {c}]
  /\ prepared' = [prepared EXCEPT ![n] = @ \ PreparedFor(c, n)]

\* commit_coordinated_withdraw.  The event is in the log when the balance is
\* computed, and the amount is subtracted again.  When the log refuses the
\* event, nothing is cleaned up.
CommitEvent(c, n, event) ==
  IF Accepts(log[n], event)
    THEN LET added == AddEvent(log[n], event)
             balance == ComputeBalance(checkpoint[n], added) - event.amount
         IN  /\ log' = [log EXCEPT ![n] = added]
             /\ checkpoint' = [checkpoint EXCEPT
                                 ![n] = [balance |-> balance, last |-> event.id,
                                         lastWithdraw |-> event.amount]]
             /\ Release(c, n)
    ELSE UNCHANGED <<log, checkpoint, locked, prepared>>

CommitAt(c, n) ==
  /\ phase[c] = "commit"
  /\ n \in Contacts(c)
  /\ MayEnter(c, n)
  /\ IF PreparedFor(c, n) = {}
       THEN UNCHANGED <<log, checkpoint, locked, prepared>>
       ELSE \E event \in PreparedFor(c, n) : CommitEvent(c, n, event)
  /\ todo' = [todo EXCEPT ![c] = @ \ {n}]
  /\ UNCHANGED <<lock, accountLock, votes, phase, sync, lastId>>

\* rollback_coordinated_withdraw
RollbackAt(c, n) ==
  /\ phase[c] = "rollback"
  /\ n \in Contacts(c)
  /\ MayEnter(c, n)
  /\ Release(c, n)
  /\ todo' = [todo EXCEPT ![c] = @ \ {n}]
  /\ UNCHANGED <<lock, log, checkpoint, accountLock, votes, phase, sync, lastId>>

\* The commit or rollback of a node is given up, and nobody repeats it.
TellTimeout(c, n) ==
  /\ phase[c] \in {"commit", "rollback"}
  /\ n \in Contacts(c)
  /\ ~MayEnter(c, n)
  /\ todo' = [todo EXCEPT ![c] = @ \ {n}]
  /\ UNCHANGED <<nodeVars, lock, accountLock, votes, phase, sync>>

\* The account lock and the coordinator's lock are released, the call returns.
End(c) ==
  /\ phase[c] \in {"commit", "rollback"}
  /\ todo[c] = {}
  /\ accountLock' = [accountLock EXCEPT ![Home(c)] = NoCall]
  /\ lock' = [lock EXCEPT ![Home(c)] = NoCall]
  /\ phase' = [phase EXCEPT ![c] = IF @ = "commit" THEN "committed" ELSE "aborted"]
  /\ UNCHANGED <<nodeVars, votes, todo, sync>>

Step(c) ==
  \/ Begin(c) \/ BeginTimeout(c) \/ Vote(c) \/ Decide(c) \/ End(c)
  \/ \E n \in Nodes : \/ PrepareEnter(c, n) \/ PrepareTimeout(c, n)
                      \/ SyncEvents(c, n)
                      \/ CommitAt(c, n) \/ RollbackAt(c, n) \/ TellTimeout(c, n)

-----------------------------------------------------------------------------
(* Other clients of the nodes: deposits, applied locally and propagated    *)
(* when others synchronize, and balance queries, which synchronize.        *)

Deposit(n, d) ==
  /\ lock[n] = NoCall
  /\ lastId < MaxEvents
  /\ LET event == NewEvent("deposit", d.amount, d.rid, NoCall)
     IN  IF Accepts(log[n], event)
           THEN /\ log' = [log EXCEPT ![n] = AddEvent(@, event)]
                /\ checkpoint' = [checkpoint EXCEPT ![n].balance = @ + d.amount,
                                                    ![n].last = event.id]
           ELSE UNCHANGED <<log, checkpoint>>
  /\ lastId' = lastId + 1
  /\ UNCHANGED <<lock, locked, prepared, accountLock, votes, phase, todo, sync>>

GetBalance(n) ==
  /\ lock[n] = NoCall
  /\ log' = [log EXCEPT ![n] =
               MergeEvents(@, UNION {GetEventsAfter(log[m], checkpoint[n].last) :
                                       m \in Nodes \ {n}})]
  /\ UNCHANGED <<lock, checkpoint, locked, prepared, accountLock, votes, phase,
                 todo, sync, lastId>>

Next ==
  \/ \E c \in Calls : Step(c)
  \/ \E n \in Nodes : GetBalance(n) \/ \E d \in Deposits : Deposit(n, d)

Spec == Init /\ [][Next]_vars

\* Threads run, and a lock that stays taken times out.
FairSpec == Spec /\ \A c \in Calls : WF_vars(Step(c))

-----------------------------------------------------------------------------
(* Properties.                                                             *)

Over(c) == phase[c] \in {"committed", "aborted", "refused"}

\* The reservation a node has agreed to stays until the call settles it there,
\* whatever other calls commit or roll back meanwhile, and a reservation always
\* has the one event that the commit will apply (509-516, 590-592, 637-645).
ReservationsHold ==
  \A n \in Nodes :
    /\ \A c \in locked[n] : Cardinality(PreparedFor(c, n)) = 1
    /\ \A e \in prepared[n] : e.call \in locked[n]
    /\ \A c \in Calls :
         votes[c][n] = "ack" /\ (phase[c] \in {"prepare", "sync"} \/ n \in todo[c])
           => c \in locked[n]

\* Money leaves a log only for a call whose commit was decided: no reservation
\* is spent early, none after a rollback, though replicas copy each other's
\* events without locks (234-259, 528-548).
AppliedOnlyWhenDecided ==
  \A n \in Nodes : \A e \in log[n] :
    e.call # NoCall => phase[e.call] \in {"commit", "committed"}

\* One request is in a log once, though every replica makes an event of its own
\* for it and retries may run on other coordinators (event_log 112-126).
OneEventPerRequest ==
  \A n \in Nodes : \A e, f \in log[n] : e.rid = f.rid /\ e.rid # NoRequest => e = f

\* The account lock of a coordinator is held only by the call that holds the
\* node's lock, so that no call is refused by a leftover (144-146, 271-273).
AccountLockIsGuarded ==
  \A n \in Nodes : accountLock[n] # NoCall =>
                     accountLock[n] = lock[n] /\ ~Over(lock[n])

\* Every call returns, though each holds a lock while it waits for others.
CallsReturn == \A c \in Calls : <>Over(c)

\* distributed_node.py 371: either all replicas apply the withdrawal or none
\* do, when the call is over.
AllOrNothing ==
  \A c \in Calls : phase[c] = "committed" =>
    \A n \in Nodes : \E e \in log[n] : e.type = "withdraw" /\ e.rid = Request[c]

\* Calls that have reserved funds on a node and are not in its log yet.
Promised(n) == {c \in locked[n] : \A e \in log[n] : e.rid # Request[c]}

\* tests/test_2pc_coordinated_withdrawal.py 104: locked funds prevent double
\* spending: what a node has spent or promised is covered by what it received.
\* It is so only while no deposit in the log is younger than a withdrawal: one
\* between the prepare and the commit is counted twice afterwards (498-506, 579).
PromisesAreCovered ==
  \A n \in Nodes :
    (\A d, w \in log[n] :
       d.type = "deposit" /\ w.type = "withdraw" => d.id < w.id)
    => Total(log[n], "withdraw") + MapThenSumSet(LAMBDA c : Amount[c], Promised(n))
         <= InitialBalance + Total(log[n], "deposit")

-----------------------------------------------------------------------------
(* Refinement: the replicas decide as AtomicCommit says.                   *)

ReplicaState(c, n) ==
  IF PreparedFor(c, n) # {} THEN "prepared"
  ELSE IF votes[c][n] = "none" THEN "working"
  ELSE IF \E e \in log[n] : e.call = c THEN "applied" ELSE "dropped"

Decisions == INSTANCE AtomicCommit
               WITH state <- [c \in Calls |-> [n \in Nodes |-> ReplicaState(c, n)]]

\* No withdrawal is applied by one replica and dropped by another, and none is
\* applied before all have agreed: see AtomicCommit.
ImplementsAtomicCommit == Decisions!CommitSpec
=============================================================================
