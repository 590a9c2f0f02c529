---------------------- MODULE CoordinatedWithdrawProofs ----------------------
(***************************************************************************)
(* Theorems about CoordinatedWithdraw, for every set of nodes and calls.   *)
(*                                                                         *)
(* The inductive invariant is built in layers, each proved from those      *)
(* before it: types, who holds which lock, what the votes say of a call's  *)
(* progress, what a node keeps for the calls it has agreed to, and where   *)
(* the events of the logs come from.                                       *)
(***************************************************************************)
EXTENDS CoordinatedWithdraw, SumTheorems

Rids == {Request[c] : c \in Calls} \cup {d.rid : d \in Deposits}

\* A withdrawal is an event of a call, a deposit of none.
Event ==
  {e \in [id : Nat, type : EventTypes, amount : Nat, rid : Rids, call : Calls \cup {NoCall}] :
     /\ e.type = "withdraw" <=> e.call # NoCall
     /\ e.call # NoCall => e.amount = Amount[e.call] /\ e.rid = Request[e.call]}

Syncs == [at : Nodes, toRead : SUBSET Nodes, fetched : SUBSET Event]

Phases == {"new", "prepare", "sync", "commit", "rollback",
           "committed", "aborted", "refused"}

\* The types; of a checkpoint only that every node has one matters.
Types ==
  /\ lock \in [Nodes -> Calls \cup {NoCall}]
  /\ log \in [Nodes -> SUBSET Event]
  /\ DOMAIN checkpoint = Nodes
  /\ locked \in [Nodes -> SUBSET Calls]
  /\ prepared \in [Nodes -> SUBSET Event]
  /\ accountLock \in [Nodes -> Calls \cup {NoCall}]
  /\ votes \in [Calls -> [Nodes -> {"none", "ack", "nack"}]]
  /\ phase \in [Calls -> Phases]
  /\ todo \in [Calls -> SUBSET Nodes]
  /\ sync \in [Calls -> Syncs]
  /\ lastId \in Nat

Running(c) == phase[c] \in {"prepare", "sync", "commit", "rollback"}

\* A running call has its coordinator's lock and the account there, and a node's
\* lock is held by nobody but a call that runs there or that asks it for a vote.
Locks ==
  /\ \A c \in Calls : Running(c) => lock[Home(c)] = c /\ accountLock[Home(c)] = c
  /\ \A c \in Calls : phase[c] = "sync" => sync[c].at \in todo[c] /\ lock[sync[c].at] = c
  /\ \A n \in Nodes : lock[n] # NoCall =>
       /\ Running(lock[n])
       /\ n = Home(lock[n]) \/ (phase[lock[n]] = "sync" /\ sync[lock[n]].at = n)
  /\ \A n \in Nodes : accountLock[n] # NoCall =>
       Running(accountLock[n]) /\ n = Home(accountLock[n])

\* A node has voted when the call has asked it, and a call that commits has been
\* refused by none.
VotesTell ==
  \A c \in Calls, n \in Nodes :
    /\ phase[c] \in {"new", "refused"} => votes[c][n] = "none"
    /\ phase[c] \in {"prepare", "sync"} => (votes[c][n] = "none" <=> n \in todo[c])
    /\ phase[c] \in {"rollback", "aborted"} => votes[c][n] # "none"
    /\ phase[c] \in {"commit", "committed"} => votes[c][n] = "ack"

\* A node keeps one event for each call that it has reserved funds for, from its
\* vote until it applies or drops the withdrawal.
Reservation(c, n) ==
  /\ c \in locked[n] => votes[c][n] = "ack"
  /\ c \in locked[n] => \E e \in Event : PreparedFor(c, n) = {e}
  /\ PreparedFor(c, n) # {} => c \in locked[n]
  /\ votes[c][n] = "ack" /\ phase[c] \in {"prepare", "sync"} => c \in locked[n]
  /\ votes[c][n] = "ack" /\ n \in todo[c] => c \in locked[n]

Reservations == \A c \in Calls, n \in Nodes : Reservation(c, n)

PreparedByCalls == \A n \in Nodes : \A e \in prepared[n] : e.call # NoCall

\* Events of a call are in logs, and on their way between logs, only when its
\* commit was decided; a node that has settled its part of a commit has one.
Decided(c) == phase[c] \in {"commit", "committed"}

LogsFollowDecisions ==
  /\ \A n \in Nodes : \A e \in log[n] : e.call # NoCall => Decided(e.call)
  /\ \A c \in Calls : \A e \in sync[c].fetched : e.call # NoCall => Decided(e.call)
  /\ \A c \in Calls, n \in Nodes :
       Decided(c) /\ PreparedFor(c, n) = {} => \E e \in log[n] : e.call = c

\* An event is in a log, under way or kept for a commit.
Present(e) ==
  \/ \E n \in Nodes : e \in log[n] \/ e \in prepared[n]
  \/ \E c \in Calls : e \in sync[c].fetched

\* Only finitely many events were made, and each has an id of its own.
IdsAreUnique ==
  /\ IsFiniteSet({e \in Event : Present(e)})
  /\ \A e \in Event : Present(e) => e.id <= lastId
  /\ \A e, f \in Event : Present(e) /\ Present(f) /\ e.id = f.id => e = f

CommitInv ==
  /\ Types /\ Locks /\ VotesTell /\ Reservations /\ PreparedByCalls
  /\ LogsFollowDecisions /\ IdsAreUnique /\ OneEventPerRequest
-----------------------------------------------------------------------------
(* What the log's operators and the pieces of actions do.                  *)

\* A merge adds nothing but remote events.
LEMMA MergeBounds ==
  ASSUME NEW known, NEW remote
  PROVE  /\ known \subseteq MergeEvents(known, remote)
         /\ MergeEvents(known, remote) \subseteq known \cup remote
BY DEF MergeEvents

\* The event of a withdrawal and of a deposit.
LEMMA NewEventType ==
  ASSUME Types
  PROVE  /\ \A c \in Calls : NewEvent("withdraw", Amount[c], Request[c], c) \in Event
         /\ \A d \in Deposits : NewEvent("deposit", d.amount, d.rid, NoCall) \in Event
BY CallsAssumption DEF Types, NewEvent, Event, EventTypes, Rids

\* The constants that every proof uses.
LEMMA HomeIsNode == \A c \in Calls : Home(c) \in Nodes /\ c # NoCall
BY CallsAssumption DEF Home

\* The events fetched in all from other nodes.
LEMMA FetchedType ==
  ASSUME Types, NEW n \in Nodes
  PROVE  UNION {GetEventsAfter(log[m], checkpoint[n].last) : m \in Nodes \ {n}} \subseteq Event
BY DEF Types, GetEventsAfter

\* A call that begins takes its coordinator and the account, or is refused.
LEMMA BeginEffect ==
  ASSUME NEW c \in Calls, Begin(c)
  PROVE  /\ phase[c] = "new" /\ lock[Home(c)] = NoCall
         /\ \/ /\ accountLock[Home(c)] = NoCall
               /\ lock' = [lock EXCEPT ![Home(c)] = c]
               /\ accountLock' = [accountLock EXCEPT ![Home(c)] = c]
               /\ phase' = [phase EXCEPT ![c] = "prepare"]
               /\ todo' = [todo EXCEPT ![c] = Nodes]
            \/ /\ accountLock[Home(c)] # NoCall
               /\ phase' = [phase EXCEPT ![c] = "refused"]
               /\ UNCHANGED <<lock, accountLock, todo>>
         /\ UNCHANGED <<log, checkpoint, locked, prepared, lastId, votes, sync>>
<1>1. CASE accountLock[Home(c)] = NoCall
  BY <1>1 DEF Begin, nodeVars
<1>2. CASE accountLock[Home(c)] # NoCall
  BY <1>2 DEF Begin, nodeVars
<1> QED BY <1>1, <1>2

\* The nodes a call contacts are among those it has yet to contact.
LEMMA ContactsBound == ASSUME NEW c \in Calls PROVE Contacts(c) \subseteq todo[c]
BY DEF Contacts

\* A vote merges what was fetched and grants the reservation or refuses it.
Refusal(c, n, merged) ==
  /\ log' = [log EXCEPT ![n] = merged]
  /\ votes' = [votes EXCEPT ![c][n] = "nack"]
  /\ UNCHANGED <<locked, prepared, lastId>>

\* What a voter does: it is asked once, merges, and grants or refuses.
LEMMA VoteEffect ==
  ASSUME NEW c \in Calls, Types, Vote(c)
  PROVE  LET n == sync[c].at
             merged == MergeEvents(log[n], sync[c].fetched)
         IN  /\ phase[c] = "sync"
             /\ n \in Nodes /\ sync[c].fetched \in SUBSET Event
             /\ merged \in SUBSET Event
             /\ log[n] \subseteq merged /\ merged \subseteq log[n] \cup sync[c].fetched
             /\ Grant(c, n, merged) \/ Refusal(c, n, merged)
             /\ todo' = [todo EXCEPT ![c] = @ \ {n}]
             /\ lock' = LeftLock(c, n)
             /\ sync' = [sync EXCEPT ![c] = [at |-> n, toRead |-> {}, fetched |-> {}]]
             /\ phase' = [phase EXCEPT ![c] = "prepare"]
             /\ UNCHANGED <<checkpoint, accountLock>>
<1> DEFINE n == sync[c].at
           merged == MergeEvents(log[n], sync[c].fetched)
<1>1. n \in Nodes /\ sync[c].fetched \in SUBSET Event
  BY DEF Types, Syncs
<1>2. log[n] \subseteq merged /\ merged \subseteq log[n] \cup sync[c].fetched
  BY MergeBounds
<1>3. merged \in SUBSET Event
  BY <1>1, <1>2 DEF Types
<1>4. Grant(c, n, merged) \/ Refusal(c, n, merged)
  BY DEF Vote, Refusal
<1>5. /\ phase[c] = "sync"
      /\ todo' = [todo EXCEPT ![c] = @ \ {n}]
      /\ lock' = LeftLock(c, n)
      /\ sync' = [sync EXCEPT ![c] = [at |-> n, toRead |-> {}, fetched |-> {}]]
      /\ phase' = [phase EXCEPT ![c] = "prepare"]
      /\ UNCHANGED <<checkpoint, accountLock>>
  BY DEF Vote
<1> QED BY <1>1, <1>2, <1>3, <1>4, <1>5

\* What a call reads of another log are events of that log.
LEMMA SyncEffect ==
  ASSUME NEW c \in Calls, NEW m \in Nodes, Types, SyncEvents(c, m)
  PROVE  /\ phase[c] = "sync"
         /\ \E s \in Syncs : /\ s.at = sync[c].at
                            /\ s.fetched \subseteq sync[c].fetched \cup log[m]
                            /\ sync' = [sync EXCEPT ![c] = s]
         /\ UNCHANGED <<nodeVars, lock, accountLock, votes, phase, todo>>
<1> DEFINE G == GetEventsAfter(log[m], checkpoint[sync[c].at].last)
           S(got) == [at |-> sync[c].at, toRead |-> sync[c].toRead \ {m},
                     fetched |-> sync[c].fetched \cup got]
<1>1. G \subseteq log[m] /\ {} \subseteq log[m]
  BY DEF GetEventsAfter
<1>2. /\ phase[c] = "sync"
      /\ UNCHANGED <<nodeVars, lock, accountLock, votes, phase, todo>>
      /\ \E got \in {G, IF MayEnter(c, m) THEN G ELSE {}} :
           sync' = [sync EXCEPT ![c] = S(got)]
  BY DEF SyncEvents
<1> HIDE DEF G
<1>3. PICK got \in SUBSET log[m] : sync' = [sync EXCEPT ![c] = S(got)]
  <2> HIDE DEF S
  <2> QED BY <1>1, <1>2
<1>4. /\ S(got) \in Syncs
      /\ S(got).at = sync[c].at
      /\ S(got).fetched \subseteq sync[c].fetched \cup log[m]
  BY DEF Types, Syncs
<1> HIDE DEF S
<1> QED BY <1>2, <1>3, <1>4

\* A commit applies the event that the node keeps and settles the reservation, or
\* leaves the node as it is.
Application(c, n, e) ==
  /\ Accepts(log[n], e)
  /\ log' = [log EXCEPT ![n] = @ \cup {e}]
  /\ checkpoint' = [checkpoint EXCEPT ![n] =
       [balance |-> ComputeBalance(checkpoint[n], log[n] \cup {e}) - e.amount,
        last |-> e.id, lastWithdraw |-> e.amount]]
  /\ Release(c, n)

\* A commit at a node applies the one event kept for the call, or nothing.
LEMMA CommitEffect ==
  ASSUME NEW c \in Calls, NEW n \in Nodes, CommitAt(c, n)
  PROVE  /\ phase[c] = "commit" /\ n \in todo[c]
         /\ \/ \E e \in PreparedFor(c, n) : Application(c, n, e)
            \/ UNCHANGED <<log, checkpoint, locked, prepared>>
         /\ todo' = [todo EXCEPT ![c] = @ \ {n}]
         /\ UNCHANGED <<lock, accountLock, votes, phase, sync, lastId>>
<1>1. ASSUME NEW e \in PreparedFor(c, n), Accepts(log[n], e), CommitEvent(c, n, e)
      PROVE  Application(c, n, e)
  <2>1. /\ log' = [log EXCEPT ![n] = AddEvent(log[n], e)]
        /\ checkpoint' = [checkpoint EXCEPT ![n] =
             [balance |-> ComputeBalance(checkpoint[n], AddEvent(log[n], e)) - e.amount,
              last |-> e.id, lastWithdraw |-> e.amount]]
        /\ Release(c, n)
    BY <1>1 DEF CommitEvent
  <2>2. AddEvent(log[n], e) = log[n] \cup {e}
    BY <1>1 DEF AddEvent
  <2> QED BY <1>1, <2>1, <2>2 DEF Application
<1>2. ASSUME NEW e \in PreparedFor(c, n), ~Accepts(log[n], e), CommitEvent(c, n, e)
      PROVE  UNCHANGED <<log, checkpoint, locked, prepared>>
  BY <1>2 DEF CommitEvent
<1>3. \/ UNCHANGED <<log, checkpoint, locked, prepared>>
      \/ \E e \in PreparedFor(c, n) : CommitEvent(c, n, e)
  BY DEF CommitAt
<1>4. n \in todo[c]
  BY ContactsBound DEF CommitAt
<1> QED BY <1>1, <1>2, <1>3, <1>4 DEF CommitAt

\* Every step keeps the types.
LEMMA TypesStep == Types /\ [Next]_vars => Types'
<1> SUFFICES ASSUME Types, [Next]_vars PROVE Types'
  OBVIOUS
<1> USE HomeIsNode
<1>1. ASSUME NEW c \in Calls, Begin(c) PROVE Types'
  <2>1. UNCHANGED <<log, checkpoint, locked, prepared, lastId, votes, sync>>
    BY <1>1, BeginEffect
  <2>2. CASE accountLock[Home(c)] = NoCall
    <3>1. /\ lock' = [lock EXCEPT ![Home(c)] = c]
          /\ accountLock' = [accountLock EXCEPT ![Home(c)] = c]
          /\ phase' = [phase EXCEPT ![c] = "prepare"]
          /\ todo' = [todo EXCEPT ![c] = Nodes]
      BY <1>1, <2>2, BeginEffect
    <3> QED BY <2>1, <3>1 DEF Types, Phases
  <2>3. CASE accountLock[Home(c)] # NoCall
    <3>1. phase' = [phase EXCEPT ![c] = "refused"] /\ UNCHANGED <<lock, accountLock, todo>>
      BY <1>1, <2>3, BeginEffect
    <3> QED BY <2>1, <3>1 DEF Types, Phases
  <2> QED BY <2>2, <2>3
<1>2. ASSUME NEW c \in Calls, BeginTimeout(c) PROVE Types'
  BY <1>2 DEF BeginTimeout, Types, nodeVars, Phases
<1>3. ASSUME NEW c \in Calls, Vote(c) PROVE Types'
  <2> DEFINE n == sync[c].at
             merged == MergeEvents(log[n], sync[c].fetched)
  <2>1. /\ n \in Nodes /\ merged \in SUBSET Event
        /\ Grant(c, n, merged) \/ Refusal(c, n, merged)
        /\ todo' = [todo EXCEPT ![c] = @ \ {n}]
        /\ lock' = LeftLock(c, n)
        /\ sync' = [sync EXCEPT ![c] = [at |-> n, toRead |-> {}, fetched |-> {}]]
        /\ phase' = [phase EXCEPT ![c] = "prepare"]
        /\ UNCHANGED <<checkpoint, accountLock>>
    BY <1>3, VoteEffect
  <2> HIDE DEF n, merged
  <2>3. /\ todo' \in [Calls -> SUBSET Nodes]
        /\ lock' \in [Nodes -> Calls \cup {NoCall}]
        /\ sync' \in [Calls -> Syncs] /\ phase' \in [Calls -> Phases]
    BY <2>1 DEF LeftLock, Types, Syncs, Phases
  <2>4. CASE Grant(c, n, merged)
    <3>1. NewEvent("withdraw", Amount[c], Request[c], c) \in Event
      BY NewEventType
    <3>2. /\ log' \in [Nodes -> SUBSET Event] /\ prepared' \in [Nodes -> SUBSET Event]
          /\ locked' \in [Nodes -> SUBSET Calls] /\ lastId' \in Nat
          /\ votes' \in [Calls -> [Nodes -> {"none", "ack", "nack"}]]
      BY <2>1, <2>4, <3>1 DEF Grant, Types
    <3> QED BY <2>1, <2>3, <3>2 DEF Types
  <2>5. CASE Refusal(c, n, merged)
    BY <2>1, <2>3, <2>5 DEF Refusal, Types
  <2> QED BY <2>1, <2>4, <2>5
<1>4. ASSUME NEW c \in Calls, Decide(c) PROVE Types'
  BY <1>4 DEF Decide, Types, nodeVars, Phases
<1>5. ASSUME NEW c \in Calls, End(c) PROVE Types'
  BY <1>5 DEF End, Types, nodeVars, Phases
<1>6. ASSUME NEW c \in Calls, NEW n \in Nodes, PrepareEnter(c, n) PROVE Types'
  BY <1>6 DEF PrepareEnter, Types, nodeVars, Phases, Syncs
<1>7. ASSUME NEW c \in Calls, NEW n \in Nodes, PrepareTimeout(c, n) PROVE Types'
  BY <1>7 DEF PrepareTimeout, Types, nodeVars
<1>8. ASSUME NEW c \in Calls, NEW n \in Nodes, SyncEvents(c, n) PROVE Types'
  <2>1. /\ UNCHANGED <<nodeVars, lock, accountLock, votes, phase, todo>>
        /\ \E s \in Syncs : sync' = [sync EXCEPT ![c] = s]
    BY <1>8, SyncEffect
  <2>2. sync' \in [Calls -> Syncs]
    BY <2>1 DEF Types
  <2> QED BY <2>1, <2>2 DEF Types, nodeVars
<1>9. ASSUME NEW c \in Calls, NEW n \in Nodes, CommitAt(c, n) PROVE Types'
  <2>0. /\ todo' = [todo EXCEPT ![c] = @ \ {n}]
        /\ UNCHANGED <<lock, accountLock, votes, phase, sync, lastId>>
    BY <1>9, CommitEffect
  <2>1. CASE UNCHANGED <<log, checkpoint, locked, prepared>>
    BY <2>0, <2>1 DEF Types
  <2>2. ASSUME NEW e \in PreparedFor(c, n), Application(c, n, e)
        PROVE  Types'
    <3>1. e \in Event
      BY DEF PreparedFor, Types
    <3>2. /\ log' \in [Nodes -> SUBSET Event]
          /\ locked' \in [Nodes -> SUBSET Calls] /\ prepared' \in [Nodes -> SUBSET Event]
          /\ DOMAIN checkpoint' = Nodes
      BY <2>2, <3>1 DEF Application, Release, Types
    <3> QED BY <2>0, <3>2 DEF Types
  <2> QED BY <1>9, <2>1, <2>2, CommitEffect
<1>10. ASSUME NEW c \in Calls, NEW n \in Nodes, RollbackAt(c, n) PROVE Types'
  BY <1>10 DEF RollbackAt, Release, Types
<1>11. ASSUME NEW c \in Calls, NEW n \in Nodes, TellTimeout(c, n) PROVE Types'
  BY <1>11 DEF TellTimeout, Types, nodeVars
<1>12. ASSUME NEW n \in Nodes, NEW d \in Deposits, Deposit(n, d) PROVE Types'
  <2>1. log' \in [Nodes -> SUBSET Event]
    BY <1>12, NewEventType DEF Deposit, AddEvent, Types
  <2>2. DOMAIN checkpoint' = Nodes /\ lastId' \in Nat
    BY <1>12 DEF Deposit, Types
  <2> QED BY <1>12, <2>1, <2>2 DEF Deposit, Types
<1>13. ASSUME NEW n \in Nodes, GetBalance(n) PROVE Types'
  <2>1. log' \in [Nodes -> SUBSET Event]
    BY <1>13, FetchedType, MergeBounds DEF GetBalance, Types
  <2> QED BY <1>13, <2>1 DEF GetBalance, Types
<1>14. CASE UNCHANGED vars
  BY <1>14 DEF vars, Types
<1> QED
  BY <1>1, <1>2, <1>3, <1>4, <1>5, <1>6, <1>7, <1>8, <1>9, <1>10, <1>11, <1>12, <1>13,
     <1>14 DEF Next, Step

-----------------------------------------------------------------------------
(* Who holds which lock.                                                   *)

\* An account is never found locked by a call that gets its node's lock.
LEMMA BeginSucceeds ==
  ASSUME NEW c \in Calls, Types, Locks, Begin(c)
  PROVE  /\ phase[c] = "new" /\ lock[Home(c)] = NoCall /\ accountLock[Home(c)] = NoCall
         /\ lock' = [lock EXCEPT ![Home(c)] = c]
         /\ accountLock' = [accountLock EXCEPT ![Home(c)] = c]
         /\ phase' = [phase EXCEPT ![c] = "prepare"]
         /\ todo' = [todo EXCEPT ![c] = Nodes]
         /\ UNCHANGED <<log, checkpoint, locked, prepared, lastId, votes, sync>>
<1>1. phase[c] = "new" /\ lock[Home(c)] = NoCall
  BY BeginEffect
<1>2. accountLock[Home(c)] = NoCall
  <2> SUFFICES ASSUME accountLock[Home(c)] # NoCall PROVE FALSE
    OBVIOUS
  <2> DEFINE b == accountLock[Home(c)]
  <2>1. b \in Calls /\ Running(b) /\ Home(c) = Home(b)
    BY HomeIsNode DEF Locks, Types
  <2>2. lock[Home(b)] = b
    BY <2>1 DEF Locks
  <2> QED BY <1>1, <2>1, <2>2, HomeIsNode
<1> QED BY <1>1, <1>2, BeginEffect

\* Every step keeps the locks with the calls that run.
LEMMA LocksStep == Types /\ Locks /\ [Next]_vars => Locks'
<1> SUFFICES ASSUME Types, Locks, [Next]_vars PROVE Locks'
  OBVIOUS
<1> USE HomeIsNode
<1>1. ASSUME NEW c \in Calls, Begin(c) PROVE Locks'
  <2>1. /\ phase[c] = "new" /\ lock[Home(c)] = NoCall /\ accountLock[Home(c)] = NoCall
        /\ lock' = [lock EXCEPT ![Home(c)] = c]
        /\ accountLock' = [accountLock EXCEPT ![Home(c)] = c]
        /\ phase' = [phase EXCEPT ![c] = "prepare"]
        /\ todo' = [todo EXCEPT ![c] = Nodes]
        /\ UNCHANGED sync
    BY <1>1, BeginSucceeds
  <2> QED BY <2>1 DEF Locks, Types, Running, Home
<1>2. ASSUME NEW c \in Calls, BeginTimeout(c) PROVE Locks'
  BY <1>2 DEF BeginTimeout, Locks, Types, Running, Home
<1>3. ASSUME NEW c \in Calls, Vote(c) PROVE Locks'
  <2> DEFINE n == sync[c].at
  <2>1. /\ phase[c] = "sync"
        /\ n \in Nodes
        /\ todo' = [todo EXCEPT ![c] = @ \ {n}]
        /\ lock' = IF n = Home(c) THEN lock ELSE [lock EXCEPT ![n] = NoCall]
        /\ phase' = [phase EXCEPT ![c] = "prepare"]
        /\ sync' = [sync EXCEPT ![c] = [at |-> n, toRead |-> {}, fetched |-> {}]]
        /\ UNCHANGED accountLock
    BY <1>3, VoteEffect DEF LeftLock
  <2>2. \A b \in Calls : phase'[b] = "sync" => b # c /\ phase[b] = "sync"
    BY <2>1 DEF Types
  <2>3. \A b \in Calls : Running(b)' <=> Running(b)
    BY <2>1 DEF Types, Running
  <2>4. \A b \in Calls : Running(b)' => lock'[Home(b)] = b /\ accountLock'[Home(b)] = b
    BY <2>1, <2>3 DEF Locks, Types
  <2>5. \A b \in Calls : phase'[b] = "sync" => sync'[b].at \in todo'[b] /\ lock'[sync'[b].at] = b
    BY <2>1, <2>2 DEF Locks, Types
  <2>6. ASSUME NEW m \in Nodes, lock'[m] # NoCall
        PROVE  /\ Running(lock[m])'
               /\ m = Home(lock'[m]) \/ (phase'[lock'[m]] = "sync" /\ sync'[lock'[m]].at = m)
    BY <2>1, <2>3, <2>6 DEF Locks, Types
  <2>7. \A m \in Nodes : accountLock'[m] # NoCall =>
          Running(accountLock[m])' /\ m = Home(accountLock'[m])
    BY <2>1, <2>3 DEF Locks, Types
  <2> QED BY <2>4, <2>5, <2>6, <2>7 DEF Locks, Home
<1>4. ASSUME NEW c \in Calls, Decide(c) PROVE Locks'
  BY <1>4 DEF Decide, Locks, Types, Running, Home
<1>5. ASSUME NEW c \in Calls, End(c) PROVE Locks'
  BY <1>5 DEF End, Locks, Types, Running, Home
<1>6. ASSUME NEW c \in Calls, NEW n \in Nodes, PrepareEnter(c, n) PROVE Locks'
  BY <1>6, ContactsBound DEF PrepareEnter, MayEnter, Locks, Types, Running, Home
<1>7. ASSUME NEW c \in Calls, NEW n \in Nodes, PrepareTimeout(c, n) PROVE Locks'
  BY <1>7 DEF PrepareTimeout, Locks, Types, Running, Home
<1>8. ASSUME NEW c \in Calls, NEW n \in Nodes, SyncEvents(c, n) PROVE Locks'
  <2>1. /\ UNCHANGED <<lock, accountLock, phase, todo>>
        /\ \E s \in Syncs : s.at = sync[c].at /\ sync' = [sync EXCEPT ![c] = s]
    BY <1>8, SyncEffect
  <2>2. \A b \in Calls : sync'[b].at = sync[b].at
    BY <2>1 DEF Types
  <2>3. \A m \in Nodes : lock[m] # NoCall => lock[m] \in Calls
    BY DEF Types
  <2> QED BY <2>1, <2>2, <2>3 DEF Locks, Running, Home
<1>9. ASSUME NEW c \in Calls, NEW n \in Nodes, CommitAt(c, n) PROVE Locks'
  BY <1>9 DEF CommitAt, Locks, Types, Running, Home
<1>10. ASSUME NEW c \in Calls, NEW n \in Nodes, RollbackAt(c, n) PROVE Locks'
  BY <1>10 DEF RollbackAt, Locks, Types, Running, Home
<1>11. ASSUME NEW c \in Calls, NEW n \in Nodes, TellTimeout(c, n) PROVE Locks'
  BY <1>11 DEF TellTimeout, Locks, Types, Running, Home
<1>12. ASSUME NEW n \in Nodes, NEW d \in Deposits, Deposit(n, d) PROVE Locks'
  BY <1>12 DEF Deposit, Locks, Running, Home
<1>13. ASSUME NEW n \in Nodes, GetBalance(n) PROVE Locks'
  BY <1>13 DEF GetBalance, Locks, Running, Home
<1>14. CASE UNCHANGED vars
  BY <1>14 DEF vars, Locks, Running, Home
<1> QED
  BY <1>1, <1>2, <1>3, <1>4, <1>5, <1>6, <1>7, <1>8, <1>9, <1>10, <1>11, <1>12, <1>13,
     <1>14 DEF Next, Step

-----------------------------------------------------------------------------
(* What the votes tell and what the nodes keep.                            *)

\* A step changes a vote only of a node that its call has yet to ask.
LEMMA VotesStep == Types /\ Locks /\ VotesTell /\ [Next]_vars => VotesTell'
<1> SUFFICES ASSUME Types, Locks, VotesTell, [Next]_vars PROVE VotesTell'
  OBVIOUS
<1> USE HomeIsNode
<1>1. ASSUME NEW c \in Calls, Begin(c) PROVE VotesTell'
  <2>1. /\ phase[c] = "new"
        /\ phase' = [phase EXCEPT ![c] = "prepare"]
        /\ todo' = [todo EXCEPT ![c] = Nodes]
        /\ UNCHANGED votes
    BY <1>1, BeginSucceeds
  <2> QED BY <2>1 DEF VotesTell, Types
<1>2. ASSUME NEW c \in Calls, BeginTimeout(c) PROVE VotesTell'
  BY <1>2 DEF BeginTimeout, VotesTell, Types
<1>3. ASSUME NEW c \in Calls, Vote(c) PROVE VotesTell'
  <2> DEFINE n == sync[c].at
  <2>1. /\ phase[c] = "sync" /\ n \in Nodes
        /\ todo' = [todo EXCEPT ![c] = @ \ {n}]
        /\ phase' = [phase EXCEPT ![c] = "prepare"]
    BY <1>3, VoteEffect
  <2>2. PICK v \in {"ack", "nack"} : votes' = [votes EXCEPT ![c][n] = v]
    BY <1>3, VoteEffect DEF Grant, Refusal
  <2> QED BY <2>1, <2>2 DEF VotesTell, Types
<1>4. ASSUME NEW c \in Calls, Decide(c) PROVE VotesTell'
  BY <1>4 DEF Decide, CanCommit, VotesTell, Types
<1>5. ASSUME NEW c \in Calls, End(c) PROVE VotesTell'
  BY <1>5 DEF End, VotesTell, Types
<1>6. ASSUME NEW c \in Calls, NEW n \in Nodes, PrepareEnter(c, n) PROVE VotesTell'
  BY <1>6 DEF PrepareEnter, VotesTell, Types
<1>7. ASSUME NEW c \in Calls, NEW n \in Nodes, PrepareTimeout(c, n) PROVE VotesTell'
  BY <1>7 DEF PrepareTimeout, VotesTell, Types
<1>8. ASSUME NEW c \in Calls, NEW n \in Nodes, SyncEvents(c, n) PROVE VotesTell'
  BY <1>8 DEF SyncEvents, VotesTell
<1>9. ASSUME NEW c \in Calls, NEW n \in Nodes, CommitAt(c, n) PROVE VotesTell'
  BY <1>9 DEF CommitAt, VotesTell, Types
<1>10. ASSUME NEW c \in Calls, NEW n \in Nodes, RollbackAt(c, n) PROVE VotesTell'
  BY <1>10 DEF RollbackAt, VotesTell, Types
<1>11. ASSUME NEW c \in Calls, NEW n \in Nodes, TellTimeout(c, n) PROVE VotesTell'
  BY <1>11 DEF TellTimeout, VotesTell, Types
<1>12. ASSUME NEW n \in Nodes, NEW d \in Deposits, Deposit(n, d) PROVE VotesTell'
  BY <1>12 DEF Deposit, VotesTell
<1>13. ASSUME NEW n \in Nodes, GetBalance(n) PROVE VotesTell'
  BY <1>13 DEF GetBalance, VotesTell
<1>14. CASE UNCHANGED vars
  BY <1>14 DEF vars, VotesTell
<1> QED
  BY <1>1, <1>2, <1>3, <1>4, <1>5, <1>6, <1>7, <1>8, <1>9, <1>10, <1>11, <1>12, <1>13,
     <1>14 DEF Next, Step

\* A grant adds one event of the call to what its node keeps, and nothing else.
LEMMA GrantEffect ==
  ASSUME Types, NEW c \in Calls, NEW n \in Nodes, NEW merged, Grant(c, n, merged)
  PROVE  /\ locked' = [locked EXCEPT ![n] = @ \cup {c}]
         /\ votes' = [votes EXCEPT ![c][n] = "ack"]
         /\ PreparedFor(c, n)' =
              PreparedFor(c, n) \cup {NewEvent("withdraw", Amount[c], Request[c], c)}
         /\ \A b \in Calls, m \in Nodes :
              b # c \/ m # n => PreparedFor(b, m)' = PreparedFor(b, m)
<1> DEFINE new == NewEvent("withdraw", Amount[c], Request[c], c)
<1>1. new.call = c
  BY DEF NewEvent
<1>2. prepared' = [prepared EXCEPT ![n] = @ \cup {new}]
  BY DEF Grant
<1> HIDE DEF new
<1>3. PreparedFor(c, n)' = PreparedFor(c, n) \cup {new}
  BY <1>1, <1>2 DEF PreparedFor, Types
<1>4. \A b \in Calls, m \in Nodes :
        b # c \/ m # n => PreparedFor(b, m)' = PreparedFor(b, m)
  BY <1>1, <1>2 DEF PreparedFor, Types
<1> QED BY <1>3, <1>4 DEF Grant, new

\* A release forgets what the node keeps for the call, and nothing else.
LEMMA ReleaseEffect ==
  ASSUME Types, NEW c \in Calls, NEW n \in Nodes, Release(c, n)
  PROVE  /\ locked' = [locked EXCEPT ![n] = @ \ {c}]
         /\ PreparedFor(c, n)' = {}
         /\ \A b \in Calls, m \in Nodes :
              b # c \/ m # n => PreparedFor(b, m)' = PreparedFor(b, m)
         /\ \A m \in Nodes : prepared'[m] \subseteq prepared[m]
<1>1. prepared' = [prepared EXCEPT ![n] = @ \ PreparedFor(c, n)]
  BY DEF Release
<1>2. \A b \in Calls, m \in Nodes :
        b # c \/ m # n => PreparedFor(b, m)' = PreparedFor(b, m)
  BY <1>1 DEF PreparedFor, Types
<1> QED BY <1>1, <1>2 DEF Release, PreparedFor, Types

\* A step that leaves what nodes keep and what they voted, and asks no node
\* again that has voted, keeps the reservations.
LEMMA ReservationsFrame ==
  ASSUME Reservations, UNCHANGED <<locked, prepared, votes>>,
         \A c \in Calls, n \in Nodes :
           votes[c][n] = "ack" /\ (phase'[c] \in {"prepare", "sync"} \/ n \in todo'[c])
             => \/ phase[c] \in {"prepare", "sync"}
                \/ n \in todo[c]
  PROVE  Reservations'
BY DEF Reservations, Reservation, PreparedFor

\* Every step keeps the reservations.
LEMMA ReservationsStep ==
  Types /\ Locks /\ VotesTell /\ Reservations /\ [Next]_vars => Reservations'
<1> SUFFICES ASSUME Types, Locks, VotesTell, Reservations, [Next]_vars
             PROVE  Reservations'
  OBVIOUS
<1> USE HomeIsNode
<1>1. ASSUME NEW c \in Calls, Begin(c) PROVE Reservations'
  <2>1. /\ phase[c] = "new"
        /\ phase' = [phase EXCEPT ![c] = "prepare"]
        /\ todo' = [todo EXCEPT ![c] = Nodes]
        /\ UNCHANGED <<locked, prepared, votes>>
    BY <1>1, BeginSucceeds
  <2> QED BY <2>1, ReservationsFrame DEF VotesTell, Types
<1>2. ASSUME NEW c \in Calls, BeginTimeout(c) PROVE Reservations'
  BY <1>2, ReservationsFrame DEF BeginTimeout, nodeVars, Types
<1>3. ASSUME NEW c \in Calls, Vote(c) PROVE Reservations'
  <2>1. PICK n \in Nodes, merged \in SUBSET Event :
        /\ phase[c] = "sync" /\ n = sync[c].at
        /\ todo' = [todo EXCEPT ![c] = @ \ {n}]
        /\ phase' = [phase EXCEPT ![c] = "prepare"]
        /\ Grant(c, n, merged) \/ Refusal(c, n, merged)
    BY <1>3, VoteEffect
  <2>2. votes[c][n] = "none"
    BY <2>1 DEF VotesTell, Locks
  <2>3. PreparedFor(c, n) = {} /\ c \notin locked[n]
    BY <2>1, <2>2 DEF Reservations, Reservation
  <2>4. CASE Grant(c, n, merged)
    <3> DEFINE new == NewEvent("withdraw", Amount[c], Request[c], c)
    <3>1. new \in Event
      BY NewEventType
    <3> HIDE DEF new
    <3>2. /\ locked' = [locked EXCEPT ![n] = @ \cup {c}]
          /\ votes' = [votes EXCEPT ![c][n] = "ack"]
          /\ PreparedFor(c, n)' = {new}
          /\ \A b \in Calls, m \in Nodes :
               b # c \/ m # n => PreparedFor(b, m)' = PreparedFor(b, m)
      <4>1. /\ locked' = [locked EXCEPT ![n] = @ \cup {c}]
            /\ votes' = [votes EXCEPT ![c][n] = "ack"]
            /\ PreparedFor(c, n)' = PreparedFor(c, n) \cup {new}
        BY <2>1, <2>4, GrantEffect DEF new
      <4>2. \A b \in Calls, m \in Nodes :
              b # c \/ m # n => PreparedFor(b, m)' = PreparedFor(b, m)
        BY <2>1, <2>4, GrantEffect
      <4> QED BY <2>3, <4>1, <4>2
    <3>3. ASSUME NEW b \in Calls, NEW m \in Nodes, b # c \/ m # n
          PROVE  /\ b \in locked'[m] <=> b \in locked[m]
                 /\ votes'[b][m] = votes[b][m]
                 /\ m \in todo'[b] <=> m \in todo[b]
                 /\ phase'[b] \in {"prepare", "sync"} <=> phase[b] \in {"prepare", "sync"}
      <4>1. b \in locked'[m] <=> b \in locked[m]
        BY <2>1, <3>2, <3>3 DEF Types
      <4>2. votes'[b][m] = votes[b][m]
        BY <2>1, <3>2, <3>3 DEF Types
      <4>3. /\ m \in todo'[b] <=> m \in todo[b]
            /\ phase'[b] \in {"prepare", "sync"} <=> phase[b] \in {"prepare", "sync"}
        BY <2>1, <3>3 DEF Types
      <4> QED BY <4>1, <4>2, <4>3
    <3>4. c \in locked'[n] /\ votes'[c][n] = "ack"
      BY <2>1, <3>2 DEF Types
    <3>5. ASSUME NEW b \in Calls, NEW m \in Nodes, b # c \/ m # n
          PROVE  PreparedFor(b, m)' = PreparedFor(b, m)
      BY <3>2, <3>5
    <3>6. Reservation(c, n)'
      BY <3>1, <3>2, <3>4 DEF Reservation
    <3>7. ASSUME NEW b \in Calls, NEW m \in Nodes, b # c \/ m # n
          PROVE  Reservation(b, m)'
      BY <3>3, <3>5, <3>7 DEF Reservations, Reservation
    <3>8. \A b \in Calls, m \in Nodes : Reservation(b, m)'
      BY <3>6, <3>7
    <3> QED BY <3>8 DEF Reservations
  <2>5. CASE Refusal(c, n, merged)
    <3>1. /\ votes' = [votes EXCEPT ![c][n] = "nack"]
          /\ UNCHANGED <<locked, prepared>>
      BY <2>5 DEF Refusal
    <3>2. \A b \in Calls, m \in Nodes : PreparedFor(b, m)' = PreparedFor(b, m)
      BY <3>1 DEF PreparedFor
    <3>3. ASSUME NEW b \in Calls, NEW m \in Nodes PROVE Reservation(b, m)'
      BY <2>1, <2>3, <3>1, <3>2 DEF Reservations, Reservation, Types
    <3> QED BY <3>3 DEF Reservations
  <2> QED BY <2>1, <2>4, <2>5
<1>4. ASSUME NEW c \in Calls, Decide(c) PROVE Reservations'
  BY <1>4, ReservationsFrame DEF Decide, nodeVars, Types
<1>5. ASSUME NEW c \in Calls, End(c) PROVE Reservations'
  BY <1>5, ReservationsFrame DEF End, nodeVars, Types
<1>6. ASSUME NEW c \in Calls, NEW n \in Nodes, PrepareEnter(c, n) PROVE Reservations'
  BY <1>6, ReservationsFrame DEF PrepareEnter, nodeVars, Types
<1>7. ASSUME NEW c \in Calls, NEW n \in Nodes, PrepareTimeout(c, n) PROVE Reservations'
  <2>1. phase[c] = "prepare" /\ n \in todo[c] /\ votes[c][n] = "none"
    BY <1>7, ContactsBound DEF PrepareTimeout, VotesTell
  <2>2. /\ votes' = [votes EXCEPT ![c][n] = "nack"]
        /\ todo' = [todo EXCEPT ![c] = @ \ {n}]
        /\ UNCHANGED <<locked, prepared, phase>>
    BY <1>7 DEF PrepareTimeout, nodeVars
  <2> QED BY <2>1, <2>2 DEF Reservations, Reservation, PreparedFor, Types
<1>8. ASSUME NEW c \in Calls, NEW n \in Nodes, SyncEvents(c, n) PROVE Reservations'
  BY <1>8, ReservationsFrame DEF SyncEvents, nodeVars
<1>9. ASSUME NEW c \in Calls, NEW n \in Nodes, Release(c, n),
             todo' = [todo EXCEPT ![c] = @ \ {n}], phase[c] \in {"commit", "rollback"},
             UNCHANGED <<votes, phase>>
      PROVE  Reservations'
  <2>1. /\ locked' = [locked EXCEPT ![n] = @ \ {c}]
        /\ PreparedFor(c, n)' = {}
        /\ \A b \in Calls, m \in Nodes :
             b # c \/ m # n => PreparedFor(b, m)' = PreparedFor(b, m)
    BY <1>9, ReleaseEffect
  <2>2. c \notin locked'[n] /\ n \notin todo'[c]
    BY <1>9, <2>1 DEF Types
  <2>3. ASSUME NEW b \in Calls, NEW m \in Nodes, b # c \/ m # n
        PROVE  /\ b \in locked'[m] <=> b \in locked[m]
               /\ m \in todo'[b] <=> m \in todo[b]
    BY <1>9, <2>1, <2>3 DEF Types
  <2> QED BY <1>9, <2>1, <2>2, <2>3 DEF Reservations, Reservation
<1>10. ASSUME NEW c \in Calls, NEW n \in Nodes, CommitAt(c, n) PROVE Reservations'
  <2>1. /\ phase[c] = "commit"
        /\ todo' = [todo EXCEPT ![c] = @ \ {n}]
        /\ UNCHANGED <<votes, phase>>
        /\ Release(c, n) \/ UNCHANGED <<locked, prepared>>
    BY <1>10, CommitEffect DEF Application
  <2>2. CASE UNCHANGED <<locked, prepared>>
    BY <2>1, <2>2, ReservationsFrame DEF Types
  <2> QED BY <1>9, <2>1, <2>2
<1>11. ASSUME NEW c \in Calls, NEW n \in Nodes, RollbackAt(c, n) PROVE Reservations'
  BY <1>9, <1>11 DEF RollbackAt
<1>12. ASSUME NEW c \in Calls, NEW n \in Nodes, TellTimeout(c, n) PROVE Reservations'
  BY <1>12, ReservationsFrame DEF TellTimeout, nodeVars, Types
<1>13. ASSUME NEW n \in Nodes, NEW d \in Deposits, Deposit(n, d) PROVE Reservations'
  BY <1>13, ReservationsFrame DEF Deposit
<1>14. ASSUME NEW n \in Nodes, GetBalance(n) PROVE Reservations'
  BY <1>14, ReservationsFrame DEF GetBalance
<1>15. CASE UNCHANGED vars
  BY <1>15, ReservationsFrame DEF vars
<1> QED
  BY <1>1, <1>2, <1>3, <1>4, <1>5, <1>6, <1>7, <1>8, <1>10, <1>11, <1>12, <1>13, <1>14,
     <1>15 DEF Next, Step

-----------------------------------------------------------------------------
(* Where the events of the logs come from.                                 *)

\* Only the events of calls are kept for a commit.
LEMMA PreparedByCallsStep == Types /\ PreparedByCalls /\ [Next]_vars => PreparedByCalls'
<1> SUFFICES ASSUME Types, PreparedByCalls, [Next]_vars PROVE PreparedByCalls'
  OBVIOUS
<1>1. CASE UNCHANGED prepared
  BY <1>1 DEF PreparedByCalls
<1>2. ASSUME NEW c \in Calls, NEW n \in Nodes, Release(c, n) PROVE PreparedByCalls'
  BY <1>2, ReleaseEffect DEF PreparedByCalls
<1>3. ASSUME NEW c \in Calls, Vote(c) PROVE PreparedByCalls'
  <2>1. PICK n \in Nodes, merged \in SUBSET Event : Grant(c, n, merged) \/ Refusal(c, n, merged)
    BY <1>3, VoteEffect
  <2>2. CASE Grant(c, n, merged)
    BY <2>2, HomeIsNode DEF Grant, NewEvent, PreparedByCalls, Types
  <2>3. CASE Refusal(c, n, merged)
    BY <1>1, <2>3 DEF Refusal
  <2> QED BY <2>1, <2>2, <2>3
<1>4. ASSUME NEW c \in Calls, NEW n \in Nodes, CommitAt(c, n) PROVE PreparedByCalls'
  BY <1>1, <1>2, <1>4, CommitEffect DEF Application
<1>5. ASSUME NEW c \in Calls, NEW n \in Nodes, RollbackAt(c, n) PROVE PreparedByCalls'
  BY <1>2, <1>5 DEF RollbackAt
<1>6. ASSUME NEW c \in Calls, Begin(c) \/ BeginTimeout(c) \/ Decide(c) \/ End(c)
      PROVE  UNCHANGED prepared
  BY <1>6 DEF Begin, BeginTimeout, Decide, End, nodeVars
<1>7. ASSUME NEW c \in Calls, NEW n \in Nodes,
             \/ PrepareEnter(c, n) \/ PrepareTimeout(c, n) \/ SyncEvents(c, n)
             \/ TellTimeout(c, n)
      PROVE  UNCHANGED prepared
  BY <1>7 DEF PrepareEnter, PrepareTimeout, SyncEvents, TellTimeout, nodeVars
<1>8. ASSUME NEW n \in Nodes, GetBalance(n) \/ \E d \in Deposits : Deposit(n, d)
      PROVE  UNCHANGED prepared
  BY <1>8 DEF GetBalance, Deposit
<1>9. CASE UNCHANGED vars
  BY <1>1, <1>9 DEF vars
<1> QED BY <1>1, <1>3, <1>4, <1>5, <1>6, <1>7, <1>8, <1>9 DEF Next, Step

\* A decision is final.
LEMMA DecisionStays == Types /\ [Next]_vars => \A c \in Calls : Decided(c) => Decided(c)'
<1> SUFFICES ASSUME Types, [Next]_vars, NEW b \in Calls, Decided(b) PROVE Decided(b)'
  OBVIOUS
<1>1. CASE UNCHANGED phase
  BY <1>1 DEF Decided
<1>2. ASSUME NEW c \in Calls, Begin(c) PROVE Decided(b)'
  BY <1>2, BeginEffect DEF Decided, Types
<1>3. ASSUME NEW c \in Calls, BeginTimeout(c) PROVE Decided(b)'
  BY <1>3 DEF BeginTimeout, Decided, Types
<1>4. ASSUME NEW c \in Calls, Vote(c) PROVE Decided(b)'
  BY <1>4 DEF Vote, Decided, Types
<1>5. ASSUME NEW c \in Calls, Decide(c) PROVE Decided(b)'
  BY <1>5 DEF Decide, Decided, Types
<1>6. ASSUME NEW c \in Calls, End(c) PROVE Decided(b)'
  BY <1>6 DEF End, Decided, Types
<1>7. ASSUME NEW c \in Calls, NEW n \in Nodes, PrepareEnter(c, n) PROVE Decided(b)'
  BY <1>7 DEF PrepareEnter, Decided, Types
<1>8. ASSUME NEW c \in Calls, NEW n \in Nodes,
             \/ PrepareTimeout(c, n) \/ SyncEvents(c, n) \/ CommitAt(c, n)
             \/ RollbackAt(c, n) \/ TellTimeout(c, n)
      PROVE  UNCHANGED phase
  BY <1>8 DEF PrepareTimeout, SyncEvents, CommitAt, RollbackAt, TellTimeout
<1>9. ASSUME NEW n \in Nodes, GetBalance(n) \/ \E d \in Deposits : Deposit(n, d)
      PROVE  UNCHANGED phase
  BY <1>9 DEF GetBalance, Deposit
<1>10. CASE UNCHANGED vars
  BY <1>1, <1>10 DEF vars
<1> QED BY <1>1, <1>2, <1>3, <1>4, <1>5, <1>6, <1>7, <1>8, <1>9, <1>10 DEF Next, Step

\* A step that changes no log, nothing kept and nothing fetched, and decides
\* nothing, keeps the provenance of the events.
LEMMA LogsFrame ==
  ASSUME Types, LogsFollowDecisions, [Next]_vars,
         UNCHANGED <<log, prepared, sync>>,
         \A c \in Calls : Decided(c)' => Decided(c)
  PROVE  LogsFollowDecisions'
<1>1. \A c \in Calls : Decided(c)' <=> Decided(c)
  BY DecisionStays
<1>2. \A n \in Nodes, e \in Event : e \in log[n] => e.call \in Calls \cup {NoCall}
  BY DEF Event
<1>3. \A c \in Calls : \A e \in sync[c].fetched : e.call \in Calls \cup {NoCall}
  BY DEF Types, Syncs, Event
<1> QED BY <1>1, <1>2, <1>3 DEF LogsFollowDecisions, PreparedFor, Types

\* Events of a call get into a log only after its commit was decided, and stay.
LEMMA LogsStep ==
  /\ Types /\ Locks /\ VotesTell /\ Reservations /\ PreparedByCalls
  /\ LogsFollowDecisions /\ [Next]_vars
  => LogsFollowDecisions'
<1> SUFFICES ASSUME Types, Locks, VotesTell, Reservations, PreparedByCalls,
                    LogsFollowDecisions, [Next]_vars
             PROVE  LogsFollowDecisions'
  OBVIOUS
<1> USE HomeIsNode
<1> DEFINE FromDecided(events) == \A e \in events : e.call # NoCall => Decided(e.call)
<1>a. /\ \A n \in Nodes : FromDecided(log[n])
      /\ \A c \in Calls : FromDecided(sync[c].fetched)
  BY DEF LogsFollowDecisions
<1>b. /\ \A n \in Nodes : log[n] \subseteq Event
      /\ \A c \in Calls : sync[c].fetched \subseteq Event
  BY DEF Types, Syncs
<1>c. ASSUME NEW events \in SUBSET Event, FromDecided(events)
      PROVE  \A e \in events : e.call # NoCall => Decided(e.call)'
  BY <1>c, DecisionStays DEF Event
<1>1. ASSUME NEW c \in Calls, Begin(c) PROVE LogsFollowDecisions'
  BY <1>1, BeginSucceeds, LogsFrame DEF Decided, Types
<1>2. ASSUME NEW c \in Calls, BeginTimeout(c) PROVE LogsFollowDecisions'
  BY <1>2, LogsFrame DEF BeginTimeout, nodeVars, Decided, Types
<1>3. ASSUME NEW c \in Calls, Vote(c) PROVE LogsFollowDecisions'
  <2>1. PICK n \in Nodes, merged \in SUBSET Event :
        /\ phase[c] = "sync" /\ n = sync[c].at
        /\ log[n] \subseteq merged /\ merged \subseteq log[n] \cup sync[c].fetched
        /\ Grant(c, n, merged) \/ Refusal(c, n, merged)
        /\ sync' = [sync EXCEPT ![c] = [at |-> n, toRead |-> {}, fetched |-> {}]]
        /\ phase' = [phase EXCEPT ![c] = "prepare"]
    BY <1>3, VoteEffect
  <2>2. log' = [log EXCEPT ![n] = merged]
    BY <2>1 DEF Grant, Refusal
  <2>3. \A b \in Calls : Decided(b)' => Decided(b)
    BY <2>1 DEF Decided, Types
  <2>4. \A b \in Calls, m \in Nodes :
          PreparedFor(b, m)' = {} => PreparedFor(b, m) = {}
    BY <2>1, GrantEffect DEF Refusal, PreparedFor
  <2>5. \A m \in Nodes : log[m] \subseteq log'[m] /\ log'[m] \subseteq Event /\ FromDecided(log'[m])
    BY <1>a, <1>b, <2>1, <2>2 DEF Types
  <2>6. \A b \in Calls : sync'[b].fetched \subseteq sync[b].fetched
    BY <2>1 DEF Types
  <2>7. \A b \in Calls, m \in Nodes :
          Decided(b)' /\ PreparedFor(b, m)' = {} => \E e \in log'[m] : e.call = b
    BY <2>3, <2>4, <2>5 DEF LogsFollowDecisions
  <2>8. \A m \in Nodes : \A e \in log'[m] : e.call # NoCall => Decided(e.call)'
    BY <1>c, <2>5
  <2>9. \A b \in Calls : \A e \in sync'[b].fetched : e.call # NoCall => Decided(e.call)'
    BY <1>a, <1>b, <1>c, <2>6
  <2> QED BY <2>7, <2>8, <2>9 DEF LogsFollowDecisions
<1>4. ASSUME NEW c \in Calls, Decide(c) PROVE LogsFollowDecisions'
  <2>1. UNCHANGED <<log, prepared, sync>>
    BY <1>4 DEF Decide, nodeVars
  <2>2. ASSUME NEW b \in Calls, NEW m \in Nodes, Decided(b)', PreparedFor(b, m) = {}
        PROVE  Decided(b)
    <3> SUFFICES ASSUME b = c PROVE FALSE
      BY <1>4, <2>2 DEF Decide, Decided, Types
    <3>1. votes[c][m] # "none" /\ phase[c] = "prepare" /\ todo[c] = {}
      BY <1>4 DEF Decide, VotesTell
    <3>2. votes[c][m] # "nack"
      BY <1>4, <2>2 DEF Decide, Decided, CanCommit, Types
    <3>3. votes[c][m] = "ack"
      BY <3>1, <3>2 DEF Types
    <3> QED BY <2>2, <3>1, <3>3 DEF Reservations, Reservation
  <2>3. \A b \in Calls, m \in Nodes : PreparedFor(b, m)' = PreparedFor(b, m)
    BY <2>1 DEF PreparedFor
  <2>4. \A m \in Nodes : \A e \in log'[m] : e.call # NoCall => Decided(e.call)'
    BY <1>a, <1>b, <1>c, <2>1
  <2>5. \A b \in Calls : \A e \in sync'[b].fetched : e.call # NoCall => Decided(e.call)'
    BY <1>a, <1>b, <1>c, <2>1
  <2>6. \A b \in Calls, m \in Nodes :
          Decided(b)' /\ PreparedFor(b, m)' = {} => \E e \in log'[m] : e.call = b
    BY <2>1, <2>2, <2>3 DEF LogsFollowDecisions
  <2> QED BY <2>4, <2>5, <2>6 DEF LogsFollowDecisions
<1>5. ASSUME NEW c \in Calls, End(c) PROVE LogsFollowDecisions'
  BY <1>5, LogsFrame DEF End, nodeVars, Decided, Types
<1>6. ASSUME NEW c \in Calls, NEW n \in Nodes, PrepareEnter(c, n) PROVE LogsFollowDecisions'
  <2>1. /\ UNCHANGED <<log, prepared>>
        /\ phase[c] = "prepare" /\ phase' = [phase EXCEPT ![c] = "sync"]
        /\ sync' = [sync EXCEPT ![c] = [at |-> n, toRead |-> Nodes \ {n}, fetched |-> {}]]
    BY <1>6 DEF PrepareEnter, nodeVars
  <2>2. \A b \in Calls : Decided(b)' <=> Decided(b)
    BY <2>1 DEF Decided, Types
  <2>3. \A b \in Calls : sync'[b].fetched \subseteq sync[b].fetched
    BY <2>1 DEF Types
  <2>4. \A m \in Nodes : \A e \in log'[m] : e.call # NoCall => Decided(e.call)'
    BY <1>a, <1>b, <1>c, <2>1
  <2>5. \A b \in Calls : \A e \in sync'[b].fetched : e.call # NoCall => Decided(e.call)'
    BY <1>a, <1>b, <1>c, <2>3
  <2> QED BY <2>1, <2>2, <2>4, <2>5 DEF LogsFollowDecisions, PreparedFor
<1>7. ASSUME NEW c \in Calls, NEW n \in Nodes, PrepareTimeout(c, n) PROVE LogsFollowDecisions'
  BY <1>7, LogsFrame DEF PrepareTimeout, nodeVars, Decided
<1>8. ASSUME NEW c \in Calls, NEW n \in Nodes, SyncEvents(c, n) PROVE LogsFollowDecisions'
  <2>1. UNCHANGED <<log, prepared, phase>>
    BY <1>8, SyncEffect DEF nodeVars
  <2>2. PICK s \in Syncs : /\ s.fetched \subseteq sync[c].fetched \cup log[n]
                          /\ sync' = [sync EXCEPT ![c] = s]
    BY <1>8, SyncEffect
  <2>3. \A b \in Calls : FromDecided(sync'[b].fetched) /\ sync'[b].fetched \subseteq Event
    BY <1>a, <1>b, <2>2 DEF Types
  <2>4. \A b \in Calls : \A e \in sync'[b].fetched : e.call # NoCall => Decided(e.call)'
    BY <1>c, <2>3
  <2> QED BY <2>1, <2>4 DEF LogsFollowDecisions, PreparedFor, Decided
<1>9. ASSUME NEW c \in Calls, NEW n \in Nodes, CommitAt(c, n) PROVE LogsFollowDecisions'
  <2>1. phase[c] = "commit" /\ UNCHANGED <<phase, sync>>
    BY <1>9, CommitEffect
  <2>2. CASE UNCHANGED <<log, prepared>>
    BY <2>1, <2>2, LogsFrame DEF Decided
  <2>3. ASSUME NEW e \in PreparedFor(c, n), Application(c, n, e)
        PROVE  LogsFollowDecisions'
    <3>1. e \in Event /\ e.call = c
      BY DEF PreparedFor, Types
    <3>2. log' = [log EXCEPT ![n] = @ \cup {e}] /\ Release(c, n)
      BY <2>3 DEF Application
    <3>3. \A b \in Calls, m \in Nodes :
            b # c \/ m # n => PreparedFor(b, m)' = PreparedFor(b, m)
      BY <3>2, ReleaseEffect
    <3>4. Decided(c) /\ \A b \in Calls : Decided(b)' <=> Decided(b)
      BY <2>1 DEF Decided
    <3>5. \A m \in Nodes : log[m] \subseteq log'[m] /\ log'[m] \subseteq Event /\ FromDecided(log'[m])
      BY <1>a, <1>b, <3>1, <3>2, <3>4 DEF Types
    <3>6. \A m \in Nodes : \A f \in log'[m] : f.call # NoCall => Decided(f.call)'
      BY <1>c, <3>5
    <3>7. e \in log'[n]
      BY <3>2 DEF Types
    <3>8. \A b \in Calls, m \in Nodes :
            Decided(b)' /\ PreparedFor(b, m)' = {} => \E f \in log'[m] : f.call = b
      BY <3>1, <3>3, <3>4, <3>5, <3>7 DEF LogsFollowDecisions
    <3>9. \A b \in Calls : \A f \in sync'[b].fetched : f.call # NoCall => Decided(f.call)'
      BY <1>a, <1>b, <1>c, <2>1
    <3> QED BY <3>6, <3>8, <3>9 DEF LogsFollowDecisions
  <2> QED BY <1>9, <2>2, <2>3, CommitEffect
<1>10. ASSUME NEW c \in Calls, NEW n \in Nodes, RollbackAt(c, n) PROVE LogsFollowDecisions'
  <2>1. phase[c] = "rollback" /\ Release(c, n) /\ UNCHANGED <<phase, sync, log>>
    BY <1>10 DEF RollbackAt
  <2>2. \A b \in Calls, m \in Nodes :
          b # c \/ m # n => PreparedFor(b, m)' = PreparedFor(b, m)
    BY <2>1, ReleaseEffect
  <2>3. ~Decided(c) /\ \A b \in Calls : Decided(b)' <=> Decided(b)
    BY <2>1 DEF Decided
  <2>4. \A m \in Nodes : \A e \in log'[m] : e.call # NoCall => Decided(e.call)'
    BY <1>a, <1>b, <1>c, <2>1
  <2>5. \A b \in Calls : \A e \in sync'[b].fetched : e.call # NoCall => Decided(e.call)'
    BY <1>a, <1>b, <1>c, <2>1
  <2>6. \A b \in Calls, m \in Nodes :
          Decided(b)' /\ PreparedFor(b, m)' = {} => \E e \in log'[m] : e.call = b
    BY <2>1, <2>2, <2>3 DEF LogsFollowDecisions
  <2> QED BY <2>4, <2>5, <2>6 DEF LogsFollowDecisions
<1>11. ASSUME NEW c \in Calls, NEW n \in Nodes, TellTimeout(c, n) PROVE LogsFollowDecisions'
  BY <1>11, LogsFrame DEF TellTimeout, nodeVars, Decided
<1>12. ASSUME NEW n \in Nodes, NEW new \in SUBSET Event, FromDecided(new),
              log' = [log EXCEPT ![n] = new], log[n] \subseteq new,
              UNCHANGED <<prepared, phase, sync>>
       PROVE  LogsFollowDecisions'
  <2>1. \A m \in Nodes : log[m] \subseteq log'[m] /\ log'[m] \subseteq Event /\ FromDecided(log'[m])
    BY <1>a, <1>b, <1>12 DEF Types
  <2>2. \A m \in Nodes : \A e \in log'[m] : e.call # NoCall => Decided(e.call)'
    BY <1>c, <2>1
  <2>3. \A b \in Calls : \A e \in sync'[b].fetched : e.call # NoCall => Decided(e.call)'
    BY <1>a, <1>b, <1>c, <1>12
  <2>4. \A b \in Calls, m \in Nodes :
          Decided(b)' /\ PreparedFor(b, m)' = {} => \E e \in log'[m] : e.call = b
    BY <1>12, <2>1 DEF LogsFollowDecisions, PreparedFor, Decided
  <2> QED BY <2>2, <2>3, <2>4 DEF LogsFollowDecisions
<1>13. ASSUME NEW n \in Nodes, NEW d \in Deposits, Deposit(n, d) PROVE LogsFollowDecisions'
  <2> DEFINE new == NewEvent("deposit", d.amount, d.rid, NoCall)
  <2>1. new \in Event /\ new.call = NoCall
    BY NewEventType DEF NewEvent
  <2> HIDE DEF new
  <2>2. /\ \/ log' = [log EXCEPT ![n] = @ \cup {new}]
           \/ UNCHANGED log
        /\ UNCHANGED <<prepared, phase, sync>>
    BY <1>13 DEF Deposit, AddEvent, new
  <2>3. CASE UNCHANGED log
    BY <2>2, <2>3, LogsFrame DEF Decided
  <2>4. log[n] \cup {new} \in SUBSET Event /\ FromDecided(log[n] \cup {new})
    BY <1>a, <1>b, <2>1
  <2> QED BY <1>12, <2>2, <2>3, <2>4
<1>14. ASSUME NEW n \in Nodes, GetBalance(n) PROVE LogsFollowDecisions'
  <2> DEFINE remote == UNION {GetEventsAfter(log[m], checkpoint[n].last) : m \in Nodes \ {n}}
             merged == MergeEvents(log[n], remote)
  <2>1. log' = [log EXCEPT ![n] = merged] /\ UNCHANGED <<prepared, phase, sync>>
    BY <1>14 DEF GetBalance
  <2>2. remote \subseteq Event /\ FromDecided(remote)
    BY <1>a, <1>b DEF GetEventsAfter
  <2> HIDE DEF remote
  <2>3. merged \in SUBSET Event /\ FromDecided(merged) /\ log[n] \subseteq merged
    BY <1>a, <1>b, <2>2, MergeBounds
  <2> HIDE DEF merged
  <2> QED BY <1>12, <2>1, <2>3
<1>15. CASE UNCHANGED vars
  BY <1>15, LogsFrame DEF vars, Decided
<1> QED
  BY <1>1, <1>2, <1>3, <1>4, <1>5, <1>6, <1>7, <1>8, <1>9, <1>10, <1>11, <1>13, <1>14,
     <1>15 DEF Next, Step

-----------------------------------------------------------------------------
(* The ids of events, and the requests in a log.                           *)

\* Moving events around keeps their ids unique, and so does a new event that has
\* the next id.
LEMMA IdsFrame ==
  ASSUME Types, IdsAreUnique, lastId' \in Nat, lastId <= lastId',
         \A e \in Event : Present(e)' => Present(e)
  PROVE  IdsAreUnique'
<1> DEFINE Now == {e \in Event : Present(e)}
           Then == {e \in Event : Present(e)'}
<1>1. IsFiniteSet(Now) /\ Then \in SUBSET Now
  BY DEF IdsAreUnique
<1>2. IsFiniteSet(Then)
  <2> HIDE DEF Now, Then
  <2> QED BY <1>1, FS_Subset
<1>3. \A e \in Event : Present(e)' => e.id <= lastId'
  BY DEF IdsAreUnique, Types, Event
<1>4. \A e, f \in Event : Present(e)' /\ Present(f)' /\ e.id = f.id => e = f
  BY DEF IdsAreUnique
<1> QED BY <1>2, <1>3, <1>4 DEF IdsAreUnique

\* A step that makes one event, with the next id.
LEMMA NewIdFrame ==
  ASSUME Types, IdsAreUnique, NEW new \in Event, new.id = lastId + 1,
         lastId' = lastId + 1,
         \A e \in Event : Present(e)' => Present(e) \/ e = new
  PROVE  IdsAreUnique'
<1>1. \A e \in Event : Present(e) => e.id <= lastId /\ e.id # new.id
  BY DEF IdsAreUnique, Types, Event
<1>2. \A e \in Event : Present(e)' => e.id <= lastId'
  BY <1>1 DEF Types, Event
<1>3. \A e, f \in Event : Present(e)' /\ Present(f)' /\ e.id = f.id => e = f
  BY <1>1 DEF IdsAreUnique
<1> DEFINE Now == {e \in Event : Present(e)}
           Then == {e \in Event : Present(e)'}
<1>4. IsFiniteSet(Now) /\ Then \in SUBSET (Now \cup {new})
  BY DEF IdsAreUnique
<1>5. IsFiniteSet(Then)
  <2> HIDE DEF Now, Then
  <2>1. IsFiniteSet(Now \cup {new})
    BY <1>4, FS_AddElement
  <2> QED BY <1>4, <2>1, FS_Subset
<1> QED BY <1>2, <1>3, <1>5 DEF IdsAreUnique

\* Every step keeps the ids unique.
LEMMA IdsStep == Types /\ IdsAreUnique /\ [Next]_vars => IdsAreUnique'
<1> SUFFICES ASSUME Types, IdsAreUnique, [Next]_vars PROVE IdsAreUnique'
  OBVIOUS
<1> USE HomeIsNode
<1>0. lastId \in Nat /\ lastId <= lastId
  BY DEF Types
<1>1. CASE UNCHANGED <<log, prepared, sync, lastId>>
  BY <1>0, <1>1, IdsFrame DEF Present
<1>2. ASSUME NEW c \in Calls, Begin(c) \/ BeginTimeout(c) \/ Decide(c) \/ End(c)
      PROVE  UNCHANGED <<log, prepared, sync, lastId>>
  BY <1>2 DEF Begin, BeginTimeout, Decide, End, nodeVars
<1>3. ASSUME NEW c \in Calls, NEW n \in Nodes, PrepareTimeout(c, n) \/ TellTimeout(c, n)
      PROVE  UNCHANGED <<log, prepared, sync, lastId>>
  BY <1>3 DEF PrepareTimeout, TellTimeout, nodeVars
<1>4. ASSUME NEW c \in Calls, Vote(c) PROVE IdsAreUnique'
  <2>1. PICK n \in Nodes, merged \in SUBSET Event :
        /\ n = sync[c].at
        /\ merged \subseteq log[n] \cup sync[c].fetched
        /\ Grant(c, n, merged) \/ Refusal(c, n, merged)
        /\ sync' = [sync EXCEPT ![c] = [at |-> n, toRead |-> {}, fetched |-> {}]]
    BY <1>4, VoteEffect
  <2>2. \A m \in Nodes : \A e \in log'[m] : Present(e)
    <3>1. log' = [log EXCEPT ![n] = merged]
      BY <2>1 DEF Grant, Refusal
    <3>2. \A m \in Nodes : log'[m] \subseteq log[m] \cup sync[c].fetched
      BY <2>1, <3>1 DEF Types
    <3> QED BY <3>2 DEF Present
  <2>3. \A b \in Calls : \A e \in sync'[b].fetched : Present(e)
    BY <2>1 DEF Present, Types
  <2>4. CASE Grant(c, n, merged)
    <3> DEFINE new == NewEvent("withdraw", Amount[c], Request[c], c)
    <3>1. new \in Event /\ new.id = lastId + 1 /\ lastId' = lastId + 1
      BY <2>4, NewEventType DEF Grant, NewEvent
    <3>2. prepared' = [prepared EXCEPT ![n] = @ \cup {new}]
      BY <2>4 DEF Grant
    <3> HIDE DEF new
    <3>3. \A m \in Nodes : \A e \in prepared'[m] : Present(e) \/ e = new
      BY <3>2 DEF Present, Types
    <3>4. \A e \in Event : Present(e)' => Present(e) \/ e = new
      BY <2>2, <2>3, <3>3 DEF Present
    <3> QED BY <3>1, <3>4, NewIdFrame
  <2>5. CASE Refusal(c, n, merged)
    <3>1. UNCHANGED <<prepared, lastId>>
      BY <2>5 DEF Refusal
    <3>2. \A e \in Event : Present(e)' => Present(e)
      BY <2>2, <2>3, <3>1 DEF Present
    <3> QED BY <1>0, <3>1, <3>2, IdsFrame
  <2> QED BY <2>1, <2>4, <2>5
<1>5. ASSUME NEW c \in Calls, NEW n \in Nodes, PrepareEnter(c, n) PROVE IdsAreUnique'
  <2>1. /\ UNCHANGED <<log, prepared, lastId>>
        /\ sync' = [sync EXCEPT ![c] = [at |-> n, toRead |-> Nodes \ {n}, fetched |-> {}]]
    BY <1>5 DEF PrepareEnter, nodeVars
  <2>2. \A e \in Event : Present(e)' => Present(e)
    BY <2>1 DEF Present, Types
  <2> QED BY <1>0, <2>1, <2>2, IdsFrame
<1>6. ASSUME NEW c \in Calls, NEW n \in Nodes, SyncEvents(c, n) PROVE IdsAreUnique'
  <2>1. UNCHANGED <<log, prepared, lastId>>
    BY <1>6, SyncEffect DEF nodeVars
  <2>2. PICK s \in Syncs : /\ s.fetched \subseteq sync[c].fetched \cup log[n]
                          /\ sync' = [sync EXCEPT ![c] = s]
    BY <1>6, SyncEffect
  <2>3. \A b \in Calls : \A e \in sync'[b].fetched : Present(e)
    BY <2>2 DEF Present, Types
  <2>4. \A e \in Event : Present(e)' => Present(e)
    BY <2>1, <2>3 DEF Present
  <2> QED BY <1>0, <2>1, <2>4, IdsFrame
<1>7. ASSUME NEW c \in Calls, NEW n \in Nodes, CommitAt(c, n) PROVE IdsAreUnique'
  <2>1. UNCHANGED <<sync, lastId>>
    BY <1>7, CommitEffect
  <2>2. CASE UNCHANGED <<log, prepared>>
    BY <1>1, <2>1, <2>2
  <2>3. ASSUME NEW e \in PreparedFor(c, n), Application(c, n, e) PROVE IdsAreUnique'
    <3>1. Present(e)
      BY DEF PreparedFor, Present
    <3>2. \A m \in Nodes : prepared'[m] \subseteq prepared[m]
      BY <2>3, ReleaseEffect DEF Application
    <3>3. \A m \in Nodes : log'[m] \subseteq log[m] \cup {e}
      BY <2>3 DEF Application, Types
    <3>4. \A f \in Event : Present(f)' => Present(f)
      BY <2>1, <3>1, <3>2, <3>3 DEF Present
    <3> QED BY <1>0, <2>1, <3>4, IdsFrame
  <2> QED BY <1>7, <2>2, <2>3, CommitEffect
<1>8. ASSUME NEW c \in Calls, NEW n \in Nodes, RollbackAt(c, n) PROVE IdsAreUnique'
  <2>1. Release(c, n) /\ UNCHANGED <<log, sync, lastId>>
    BY <1>8 DEF RollbackAt
  <2>2. \A m \in Nodes : prepared'[m] \subseteq prepared[m]
    BY <2>1, ReleaseEffect
  <2>3. \A e \in Event : Present(e)' => Present(e)
    BY <2>1, <2>2 DEF Present
  <2> QED BY <1>0, <2>1, <2>3, IdsFrame
<1>9. ASSUME NEW n \in Nodes, NEW d \in Deposits, Deposit(n, d) PROVE IdsAreUnique'
  <2> DEFINE new == NewEvent("deposit", d.amount, d.rid, NoCall)
  <2>1. new \in Event /\ new.id = lastId + 1
    BY NewEventType DEF NewEvent
  <2> HIDE DEF new
  <2>2. /\ \/ log' = [log EXCEPT ![n] = @ \cup {new}]
           \/ UNCHANGED log
        /\ UNCHANGED <<prepared, sync>> /\ lastId' = lastId + 1
    BY <1>9 DEF Deposit, AddEvent, new
  <2>3. \A m \in Nodes : log'[m] \subseteq log[m] \cup {new}
    BY <2>2 DEF Types
  <2>4. \A e \in Event : Present(e)' => Present(e) \/ e = new
    BY <2>2, <2>3 DEF Present
  <2> QED BY <2>1, <2>2, <2>4, NewIdFrame
<1>10. ASSUME NEW n \in Nodes, GetBalance(n) PROVE IdsAreUnique'
  <2> DEFINE remote == UNION {GetEventsAfter(log[m], checkpoint[n].last) : m \in Nodes \ {n}}
             merged == MergeEvents(log[n], remote)
  <2>1. log' = [log EXCEPT ![n] = merged] /\ UNCHANGED <<prepared, sync, lastId>>
    BY <1>10 DEF GetBalance
  <2>2. \A e \in remote : \E m \in Nodes : e \in log[m]
    BY DEF GetEventsAfter
  <2> HIDE DEF remote
  <2>3. \A e \in merged : \E m \in Nodes : e \in log[m]
    BY <2>2, MergeBounds
  <2> HIDE DEF merged
  <2>4. \A m \in Nodes : \A e \in log'[m] : \E k \in Nodes : e \in log[k]
    BY <2>1, <2>3 DEF Types
  <2>5. \A e \in Event : Present(e)' => Present(e)
    BY <2>1, <2>4 DEF Present
  <2> QED BY <1>0, <2>1, <2>5, IdsFrame
<1>11. CASE UNCHANGED vars
  BY <1>1, <1>11 DEF vars
<1> QED
  BY <1>1, <1>2, <1>3, <1>4, <1>5, <1>6, <1>7, <1>8, <1>9, <1>10, <1>11 DEF Next, Step

\* A merge lets in one event of a request at most, and none of a request that is
\* in the log: of the new events of a request the one with the least id.
LEMMA MergeKeepsRequests ==
  ASSUME NEW known \in SUBSET Event, NEW remote \in SUBSET Event,
         \A e, f \in known : e.rid = f.rid /\ e.rid # NoRequest => e = f,
         \A e, f \in remote : e.id = f.id => e = f
  PROVE  \A e, f \in MergeEvents(known, remote) :
           e.rid = f.rid /\ e.rid # NoRequest => e = f
<1> SUFFICES ASSUME NEW e \in MergeEvents(known, remote),
                    NEW f \in MergeEvents(known, remote),
                    e.rid = f.rid, e.rid # NoRequest
             PROVE  e = f
  OBVIOUS
<1>1. ASSUME NEW g \in MergeEvents(known, remote), g \notin known, g.rid # NoRequest
      PROVE  /\ g \in remote
             /\ \A h \in known : h.rid # g.rid
             /\ \A h \in remote : h.rid = g.rid => g.id <= h.id
  BY <1>1 DEF MergeEvents, Accepts
<1>2. CASE e \in known \/ f \in known
  BY <1>1, <1>2
<1>3. CASE e \notin known /\ f \notin known
  <2>1. e \in remote /\ f \in remote
    BY <1>1, <1>3
  <2>2. e.id <= f.id /\ f.id <= e.id
    BY <1>1, <1>3, <2>1
  <2>3. e.id = f.id
    BY <2>1, <2>2 DEF Event
  <2> QED BY <2>1, <2>3
<1> QED BY <1>2, <1>3

\* The set that MergeEvents describes is what the loop of merge_events makes, which adds
\* the events one after another from the least id on (event_log 226-229,
\* distributed_node 249-257): nothing is added when none are left, and the first event
\* may be added before the others are merged.
THEOREM MergeAddsInOrder ==
  ASSUME NEW known \in SUBSET Event, NEW remote \in SUBSET Event,
         \A e, f \in known \cup remote : e.id = f.id => e = f
  PROVE  /\ MergeEvents(known, {}) = known
         /\ \A first \in remote :
              (\A e \in remote : first.id <= e.id) =>
                MergeEvents(known, remote)
                  = MergeEvents(AddEvent(known, first), remote \ {first})
<1>1. MergeEvents(known, {}) = known
  BY DEF MergeEvents
<1>2. ASSUME NEW first \in remote, \A e \in remote : first.id <= e.id
      PROVE  MergeEvents(known, remote)
               = MergeEvents(AddEvent(known, first), remote \ {first})
  <2> DEFINE one == AddEvent(known, first)
             rest == remote \ {first}
             Least(e, events) ==
               e.rid # NoRequest => \A f \in events : f.rid = e.rid => e.id <= f.id
  <2>1. ASSUME NEW e \in rest
        PROVE  Accepts(known, e) /\ Least(e, remote) <=> Accepts(one, e) /\ Least(e, rest)
    <3>1. e.id # first.id /\ first.id <= e.id /\ e.id \in Nat /\ first.id \in Nat
      BY <1>2 DEF Event
    <3>2. ~(e.id <= first.id)
      BY <3>1
    <3>3. ASSUME Accepts(known, e), Least(e, remote)
          PROVE  Accepts(one, e) /\ Least(e, rest)
      <4>1. e.rid # NoRequest => first.rid # e.rid
        BY <3>2, <3>3
      <4>2. Least(e, rest)
        BY <3>3
      <4> QED BY <3>1, <3>3, <4>1, <4>2 DEF Accepts, AddEvent
    <3>4. ASSUME Accepts(one, e), Least(e, rest)
          PROVE  Accepts(known, e) /\ Least(e, remote)
      <4>1. Accepts(known, e)
        BY <3>4 DEF Accepts, AddEvent
      <4>2. ASSUME e.rid # NoRequest PROVE first.rid # e.rid
        <5>1. CASE Accepts(known, first)
          BY <3>4, <4>2, <5>1 DEF Accepts, AddEvent
        <5>2. CASE \E f \in known : f.id = first.id
          BY <4>1, <4>2, <5>2 DEF Accepts
        <5>3. CASE \E f \in known : f.rid = first.rid
          BY <4>1, <4>2, <5>3 DEF Accepts
        <5> QED BY <5>1, <5>2, <5>3 DEF Accepts
      <4>3. Least(e, remote)
        BY <3>4, <4>2
      <4> QED BY <4>1, <4>3
    <3> QED BY <3>3, <3>4
  <2>2. MergeEvents(known, remote)
          = known \cup {e \in remote : Accepts(known, e) /\ Least(e, remote)}
    BY DEF MergeEvents
  <2>3. MergeEvents(one, rest)
          = one \cup {e \in rest : Accepts(one, e) /\ Least(e, rest)}
    BY DEF MergeEvents
  <2>4. Least(first, remote)
    BY <1>2
  <2>5. one = IF Accepts(known, first) THEN known \cup {first} ELSE known
    BY DEF AddEvent
  <2>6. \A e \in remote : e \in rest \/ e = first
    OBVIOUS
  <2>7. first \notin rest /\ rest \subseteq remote
    OBVIOUS
  <2> DEFINE A == {e \in remote : Accepts(known, e) /\ Least(e, remote)}
             B == {e \in rest : Accepts(one, e) /\ Least(e, rest)}
  <2>8. /\ \A e \in rest : e \in A <=> e \in B
        /\ first \notin B /\ A \subseteq rest \cup {first} /\ B \subseteq rest
        /\ first \in A <=> Accepts(known, first)
    <3> HIDE DEF Least, rest, one
    <3> QED BY <2>1, <2>4, <2>6, <2>7
  <2> HIDE DEF A, B
  <2>9. known \cup A = one \cup B
    <3> HIDE DEF rest, one
    <3>1. CASE Accepts(known, first)
      <4>1. one = known \cup {first} /\ first \in A
        BY <2>5, <2>8, <3>1
      <4> QED BY <2>7, <2>8, <4>1
    <3>2. CASE ~Accepts(known, first)
      <4>1. one = known /\ first \notin A
        BY <2>5, <2>8, <3>2
      <4> QED BY <2>7, <2>8, <4>1
    <3> QED BY <3>1, <3>2
  <2>10. MergeEvents(known, remote) = known \cup A
    BY <2>2 DEF A
  <2>11. MergeEvents(one, rest) = one \cup B
    BY <2>3 DEF B
  <2> QED BY <2>9, <2>10, <2>11
<1> QED BY <1>1, <1>2

\* No step adds an event of a request to a log that has one.
LEMMA RequestsStep ==
  Types /\ IdsAreUnique /\ OneEventPerRequest /\ [Next]_vars => OneEventPerRequest'
<1> SUFFICES ASSUME Types, IdsAreUnique, OneEventPerRequest, [Next]_vars
             PROVE  OneEventPerRequest'
  OBVIOUS
<1> DEFINE Single(events) == \A e, f \in events : e.rid = f.rid /\ e.rid # NoRequest => e = f
<1>1. CASE UNCHANGED log
  BY <1>1 DEF OneEventPerRequest
<1>2. ASSUME NEW n \in Nodes, NEW new \in SUBSET Event, Single(new),
             log' = [log EXCEPT ![n] = new]
      PROVE  OneEventPerRequest'
  BY <1>2 DEF OneEventPerRequest, Types
<1>3. ASSUME NEW n \in Nodes, NEW remote \in SUBSET Event,
             \A e \in remote : Present(e),
             log' = [log EXCEPT ![n] = MergeEvents(log[n], remote)]
      PROVE  OneEventPerRequest'
  <2>1. \A e, f \in remote : e.id = f.id => e = f
    BY <1>3 DEF IdsAreUnique
  <2>2. log[n] \in SUBSET Event /\ Single(log[n])
    BY DEF OneEventPerRequest, Types
  <2>3. Single(MergeEvents(log[n], remote))
    BY <2>1, <2>2, MergeKeepsRequests
  <2>4. MergeEvents(log[n], remote) \in SUBSET Event
    BY <2>2, MergeBounds
  <2> QED BY <1>2, <1>3, <2>3, <2>4
<1>4. ASSUME NEW n \in Nodes, NEW e \in Event, Accepts(log[n], e),
             log' = [log EXCEPT ![n] = @ \cup {e}]
      PROVE  OneEventPerRequest'
  <2>1. Single(log[n] \cup {e})
    BY <1>4 DEF Accepts, OneEventPerRequest
  <2>2. log[n] \cup {e} \in SUBSET Event
    BY DEF Types
  <2> QED BY <1>2, <1>4, <2>1, <2>2
<1>5. ASSUME NEW c \in Calls, Vote(c) PROVE OneEventPerRequest'
  <2>1. PICK n \in Nodes, remote \in SUBSET Event :
        /\ remote = sync[c].fetched
        /\ \/ Grant(c, n, MergeEvents(log[n], remote))
           \/ Refusal(c, n, MergeEvents(log[n], remote))
    BY <1>5, VoteEffect
  <2>2. \A e \in remote : Present(e)
    BY <2>1 DEF Present
  <2>3. log' = [log EXCEPT ![n] = MergeEvents(log[n], remote)]
    BY <2>1 DEF Grant, Refusal
  <2> QED BY <1>3, <2>2, <2>3
<1>6. ASSUME NEW c \in Calls, NEW n \in Nodes, CommitAt(c, n) PROVE OneEventPerRequest'
  <2>1. ASSUME NEW e \in PreparedFor(c, n), Application(c, n, e) PROVE OneEventPerRequest'
    BY <1>4, <2>1 DEF Application, PreparedFor, Types
  <2> QED BY <1>1, <1>6, <2>1, CommitEffect
<1>7. ASSUME NEW n \in Nodes, NEW d \in Deposits, Deposit(n, d) PROVE OneEventPerRequest'
  <2> DEFINE new == NewEvent("deposit", d.amount, d.rid, NoCall)
  <2>1. new \in Event
    BY NewEventType
  <2> HIDE DEF new
  <2>2. \/ Accepts(log[n], new) /\ log' = [log EXCEPT ![n] = @ \cup {new}]
        \/ UNCHANGED log
    BY <1>7 DEF Deposit, AddEvent, new
  <2> QED BY <1>1, <1>4, <2>1, <2>2
<1>8. ASSUME NEW n \in Nodes, GetBalance(n) PROVE OneEventPerRequest'
  <2> DEFINE remote == UNION {GetEventsAfter(log[m], checkpoint[n].last) : m \in Nodes \ {n}}
  <2>1. log' = [log EXCEPT ![n] = MergeEvents(log[n], remote)]
    BY <1>8 DEF GetBalance
  <2>2. \A e \in remote : \E m \in Nodes : e \in log[m]
    BY DEF GetEventsAfter
  <2> HIDE DEF remote
  <2>3. remote \in SUBSET Event /\ \A e \in remote : Present(e)
    BY <2>2 DEF Present, Types
  <2> QED BY <1>3, <2>1, <2>3
<1>9. ASSUME NEW c \in Calls,
             \/ Begin(c) \/ BeginTimeout(c) \/ Decide(c) \/ End(c)
             \/ \E n \in Nodes : \/ PrepareEnter(c, n) \/ PrepareTimeout(c, n)
                                 \/ SyncEvents(c, n) \/ RollbackAt(c, n)
                                 \/ TellTimeout(c, n)
      PROVE  UNCHANGED log
  BY <1>9 DEF Begin, BeginTimeout, Decide, End, PrepareEnter, PrepareTimeout, SyncEvents,
              RollbackAt, TellTimeout, nodeVars
<1>10. CASE UNCHANGED vars
  BY <1>1, <1>10 DEF vars
<1> QED BY <1>1, <1>5, <1>6, <1>7, <1>8, <1>9, <1>10 DEF Next, Step

-----------------------------------------------------------------------------
(* The invariant and the properties that follow from it.                   *)

\* It holds before any call.
LEMMA InitInv == Init => CommitInv
<1> SUFFICES ASSUME Init PROVE CommitInv
  OBVIOUS
<1> USE HomeIsNode
<1>1. Types
  BY DEF Init, Types, Phases, Syncs
<1>2. \A n \in Nodes : log[n] = {} /\ prepared[n] = {} /\ locked[n] = {}
  BY DEF Init
<1>3. \A c \in Calls : phase[c] = "new" /\ sync[c].fetched = {} /\ todo[c] = {}
  BY DEF Init
<1>4. \A c \in Calls, n \in Nodes : votes[c][n] = "none"
  BY DEF Init
<1>5. Locks
  BY <1>3 DEF Init, Locks, Running
<1>6. VotesTell
  BY <1>3, <1>4 DEF VotesTell
<1>7. \A c \in Calls, n \in Nodes : PreparedFor(c, n) = {}
  BY <1>2 DEF PreparedFor
<1>8. Reservations /\ PreparedByCalls
  BY <1>2, <1>4, <1>7 DEF Reservations, Reservation, PreparedByCalls
<1>9. LogsFollowDecisions
  BY <1>2, <1>3 DEF LogsFollowDecisions, Decided
<1>10. \A e \in Event : ~Present(e)
  BY <1>2, <1>3 DEF Present
<1>11. IdsAreUnique
  <2>1. {e \in Event : Present(e)} = {}
    BY <1>10
  <2>2. IsFiniteSet({e \in Event : Present(e)})
    BY <2>1, FS_EmptySet
  <2> QED BY <1>10, <2>2 DEF IdsAreUnique
<1>12. OneEventPerRequest
  BY <1>2 DEF OneEventPerRequest
<1> QED BY <1>1, <1>5, <1>6, <1>8, <1>9, <1>11, <1>12 DEF CommitInv

\* The inductive invariant: who holds which lock, what votes tell, what nodes keep
\* for a commit and where the events of the logs come from, in every state.
THEOREM CommitInvariant == Spec => []CommitInv
<1>1. CommitInv /\ [Next]_vars => CommitInv'
  BY TypesStep, LocksStep, VotesStep, ReservationsStep, PreparedByCallsStep, LogsStep,
     IdsStep, RequestsStep DEF CommitInv
<1> QED BY <1>1, InitInv, PTL DEF Spec

\* A reservation stays until its own call settles it, whatever the others do, and
\* always has its one event (distributed_node.py 509-516, 590-592, 637-645).
THEOREM ReservationsTheorem == Spec => []ReservationsHold
<1>1. ASSUME CommitInv PROVE ReservationsHold
  <2>1. Types /\ Reservations /\ PreparedByCalls
    BY <1>1 DEF CommitInv
  <2>2. ASSUME NEW n \in Nodes, NEW c \in locked[n]
        PROVE  Cardinality(PreparedFor(c, n)) = 1
    <3>1. c \in Calls
      BY <2>1 DEF Types
    <3>2. PICK e \in Event : PreparedFor(c, n) = {e}
      BY <2>1, <3>1 DEF Reservations, Reservation
    <3> QED BY <3>2, FS_Singleton
  <2>3. ASSUME NEW n \in Nodes, NEW e \in prepared[n]
        PROVE  e.call \in locked[n]
    <3>1. e.call \in Calls
      BY <2>1 DEF PreparedByCalls, Types, Event
    <3>2. e \in PreparedFor(e.call, n)
      BY DEF PreparedFor
    <3> QED BY <2>1, <3>1, <3>2 DEF Reservations, Reservation
  <2>4. ASSUME NEW n \in Nodes, NEW c \in Calls, votes[c][n] = "ack",
               phase[c] \in {"prepare", "sync"} \/ n \in todo[c]
        PROVE  c \in locked[n]
    BY <2>1, <2>4 DEF Reservations, Reservation
  <2> QED BY <2>2, <2>3, <2>4 DEF ReservationsHold
<1> QED BY <1>1, CommitInvariant, PTL

\* Money leaves a log only for a call whose commit was decided
\* (distributed_node.py 234-259, 528-548).
THEOREM AppliedTheorem == Spec => []AppliedOnlyWhenDecided
<1>1. CommitInv => AppliedOnlyWhenDecided
  BY DEF CommitInv, LogsFollowDecisions, AppliedOnlyWhenDecided, Decided
<1> QED BY <1>1, CommitInvariant, PTL

\* A request is in a log once, though each replica makes its own event of it
\* (event_log.py 112-126).
THEOREM RequestTheorem == Spec => []OneEventPerRequest
<1>1. CommitInv => OneEventPerRequest
  BY DEF CommitInv
<1> QED BY <1>1, CommitInvariant, PTL

\* An account is locked only by the running call that has the node's lock, so that
\* no call is refused by a leftover (distributed_node.py 144-146, 271-273).
THEOREM AccountLockTheorem == Spec => []AccountLockIsGuarded
<1>1. ASSUME CommitInv PROVE AccountLockIsGuarded
  <2> SUFFICES ASSUME NEW n \in Nodes, accountLock[n] # NoCall
               PROVE  accountLock[n] = lock[n] /\ ~Over(lock[n])
    BY DEF AccountLockIsGuarded
  <2>1. Types /\ Locks
    BY <1>1 DEF CommitInv
  <2>2. accountLock[n] \in Calls /\ Running(accountLock[n]) /\ n = Home(accountLock[n])
    BY <2>1 DEF Types, Locks
  <2>3. lock[n] = accountLock[n]
    BY <2>1, <2>2 DEF Locks
  <2> QED BY <2>2, <2>3 DEF Running, Over
<1> QED BY <1>1, CommitInvariant, PTL

-----------------------------------------------------------------------------
(* What a node has spent and promised is covered by what it received.      *)

Value(calls) == WeightSum(Amount, calls)

\* Calls that commit and have settled with the node: their amount is out of it.
Spent(n) == {c \in Calls : Decided(c) /\ c \notin locked[n]}

\* No deposit in the log is younger than a withdrawal.
InOrder(n) ==
  \A d, w \in log[n] : d.type = "deposit" /\ w.type = "withdraw" => d.id < w.id

DepositsUntil(events, last) == {e \in events : e.type = "deposit" /\ e.id <= last}

\* The checkpoint's balance counts no deposit twice and leaves no settled call out,
\* and with what is still reserved the node has not agreed to more than it received.
Covered(n) ==
  /\ checkpoint[n] \in [balance : Int, last : Nat, lastWithdraw : Nat]
  /\ IsFiniteSet(locked[n]) /\ IsFiniteSet(Spent(n))
  /\ InOrder(n) =>
       /\ checkpoint[n].balance + Value(Spent(n))
            <= InitialBalance + AmountSum(DepositsUntil(log[n], checkpoint[n].last))
       /\ Value(locked[n]) + Value(Spent(n)) <= InitialBalance + Total(log[n], "deposit")

CoverInv == \A n \in Nodes : Covered(n)

\* Logs are finite sets of events, before and after a step.
LEMMA LogsFinite ==
  ASSUME Types, IdsAreUnique, Types', IdsAreUnique', NEW n \in Nodes
  PROVE  /\ IsFiniteSet(log[n]) /\ log[n] \in SUBSET Event
         /\ IsFiniteSet(log'[n]) /\ log'[n] \in SUBSET Event
<1>1. log[n] \in SUBSET Event /\ log'[n] \in SUBSET Event
  BY DEF Types
<1>2. log[n] \in SUBSET {e \in Event : Present(e)}
  BY <1>1 DEF Present
<1>3. log'[n] \in SUBSET {e \in Event : Present(e)'}
  BY <1>1 DEF Present
<1>4. IsFiniteSet({e \in Event : Present(e)}) /\ IsFiniteSet({e \in Event : Present(e)'})
  BY DEF IdsAreUnique
<1> QED BY <1>1, <1>2, <1>3, <1>4, FS_Subset

\* The deposits of a log are those up to an id and those after it.
LEMMA DepositsSplit ==
  ASSUME NEW events \in SUBSET Event, IsFiniteSet(events), NEW last \in Nat
  PROVE  /\ AmountSum(DepositsUntil(events, last)) \in Nat
         /\ Total(GetEventsAfter(events, last), "deposit") \in Nat
         /\ Total(GetEventsAfter(events, last), "withdraw") \in Nat
         /\ Total(events, "deposit") \in Nat
         /\ Total(events, "deposit") = AmountSum(DepositsUntil(events, last))
                                       + Total(GetEventsAfter(events, last), "deposit")
<1> DEFINE A == DepositsUntil(events, last)
           B == {e \in GetEventsAfter(events, last) : e.type = "deposit"}
           C == {e \in GetEventsAfter(events, last) : e.type = "withdraw"}
           D == {e \in events : e.type = "deposit"}
<1>1. A \cup B = D /\ A \cap B = {}
  BY DEF DepositsUntil, GetEventsAfter, Event
<1>2. A \in SUBSET events /\ B \in SUBSET events /\ C \in SUBSET events
  BY DEF DepositsUntil, GetEventsAfter
<1>3. \A e \in events : e.amount \in Nat
  BY DEF Event
<1>4. /\ Total(GetEventsAfter(events, last), "deposit") = AmountSum(B)
      /\ Total(GetEventsAfter(events, last), "withdraw") = AmountSum(C)
      /\ Total(events, "deposit") = AmountSum(D)
  BY DEF Total, AmountSum
<1> HIDE DEF A, B, C, D
<1>5. IsFiniteSet(A) /\ IsFiniteSet(B)
  BY <1>2, FS_Subset
<1>6. \A e \in A \cup B : e.amount \in Nat
  BY <1>2, <1>3
<1>7. /\ AmountSum(A \cup B) = AmountSum(A) + AmountSum(B)
      /\ AmountSum(A) \in Nat /\ AmountSum(B) \in Nat /\ AmountSum(A \cup B) \in Nat
  BY <1>1, <1>5, <1>6, AmountsUnion
<1>8. AmountSum(C) \in Nat
  BY <1>2, <1>3, AmountsMonotone
<1> QED BY <1>1, <1>4, <1>7, <1>8 DEF A

\* More events, no less deposits.
LEMMA DepositsGrow ==
  ASSUME NEW more \in SUBSET Event, IsFiniteSet(more), NEW events \in SUBSET more,
         NEW last \in Nat
  PROVE  /\ Total(events, "deposit") <= Total(more, "deposit")
         /\ Total(events, "deposit") \in Nat /\ Total(more, "deposit") \in Nat
         /\ AmountSum(DepositsUntil(events, last)) <= AmountSum(DepositsUntil(more, last))
         /\ AmountSum(DepositsUntil(events, last)) \in Nat
         /\ AmountSum(DepositsUntil(more, last)) \in Nat
<1> DEFINE D == {e \in events : e.type = "deposit"}
           M == {e \in more : e.type = "deposit"}
           DU == DepositsUntil(events, last)
           MU == DepositsUntil(more, last)
<1>1. D \subseteq M /\ DU \subseteq MU /\ M \in SUBSET more /\ MU \in SUBSET more
  BY DEF DepositsUntil
<1>2. Total(events, "deposit") = AmountSum(D) /\ Total(more, "deposit") = AmountSum(M)
  BY DEF Total, AmountSum
<1>3. \A e \in more : e.amount \in Nat
  BY DEF Event
<1> HIDE DEF D, M, DU, MU
<1>4. IsFiniteSet(M) /\ IsFiniteSet(MU)
  BY <1>1, FS_Subset
<1>5. \A e \in M : e.amount \in Nat
  BY <1>1, <1>3
<1>6. \A e \in MU : e.amount \in Nat
  BY <1>1, <1>3
<1>7. AmountSum(D) \in Nat /\ AmountSum(M) \in Nat /\ AmountSum(D) <= AmountSum(M)
  BY <1>1, <1>4, <1>5, AmountsMonotone
<1>8. AmountSum(DU) \in Nat /\ AmountSum(MU) \in Nat /\ AmountSum(DU) <= AmountSum(MU)
  BY <1>1, <1>4, <1>6, AmountsMonotone
<1> QED BY <1>2, <1>7, <1>8 DEF DU, MU

\* The values of calls are natural numbers, and fewer calls are worth no more.
LEMMA ValuesGrow ==
  ASSUME NEW more \in SUBSET Calls, IsFiniteSet(more), NEW calls \in SUBSET more
  PROVE  /\ IsFiniteSet(calls)
         /\ Value(calls) \in Nat /\ Value(more) \in Nat /\ Value(calls) <= Value(more)
<1>1. \A c \in more : Amount[c] \in Nat
  BY CallsAssumption
<1> QED BY <1>1, FS_Subset, WeightsMonotone DEF Value

\* One more call adds its amount.
LEMMA ValueAdds ==
  ASSUME NEW calls \in SUBSET Calls, IsFiniteSet(calls), NEW c \in Calls, c \notin calls
  PROVE  /\ IsFiniteSet(calls \cup {c})
         /\ Value(calls \cup {c}) = Value(calls) + Amount[c]
         /\ Value(calls) \in Nat /\ Amount[c] \in Nat
<1>1. \A x \in calls \cup {c} : Amount[x] \in Int
  BY CallsAssumption
<1>2. Value(calls) \in Nat
  BY ValuesGrow
<1>3. Amount[c] \in Nat
  BY CallsAssumption
<1> QED BY <1>1, <1>2, <1>3, FS_AddElement, WeightsAdd DEF Value

\* A step that takes no event out of a log and settles no call there, and may drop
\* reservations, leaves the node covered.
LEMMA CoveredFrame ==
  ASSUME Types, IdsAreUnique, Types', IdsAreUnique', NEW n \in Nodes, Covered(n),
         log[n] \subseteq log'[n], checkpoint'[n] = checkpoint[n],
         locked'[n] \subseteq locked[n], Spent(n)' = Spent(n)
  PROVE  Covered(n)'
<1> DEFINE last == checkpoint[n].last
<1>1. /\ IsFiniteSet(log'[n]) /\ log'[n] \in SUBSET Event /\ log[n] \in SUBSET log'[n]
      /\ last \in Nat /\ checkpoint[n].balance \in Int
  BY LogsFinite DEF Covered
<1>2. /\ Total(log[n], "deposit") <= Total(log'[n], "deposit")
      /\ Total(log[n], "deposit") \in Nat /\ Total(log'[n], "deposit") \in Nat
      /\ AmountSum(DepositsUntil(log[n], last)) <= AmountSum(DepositsUntil(log'[n], last))
      /\ AmountSum(DepositsUntil(log[n], last)) \in Nat
      /\ AmountSum(DepositsUntil(log'[n], last)) \in Nat
  BY <1>1, DepositsGrow
<1>3. locked[n] \in SUBSET Calls /\ locked'[n] \in SUBSET locked[n]
  BY DEF Types
<1>4. IsFiniteSet(locked[n]) /\ IsFiniteSet(Spent(n)) /\ Spent(n) \in SUBSET Calls
  BY DEF Covered, Spent
<1>5. /\ IsFiniteSet(locked'[n])
      /\ Value(locked'[n]) \in Nat /\ Value(locked[n]) \in Nat
      /\ Value(locked'[n]) <= Value(locked[n])
  BY <1>3, <1>4, ValuesGrow
<1>6. Value(Spent(n)) \in Nat
  BY <1>4, ValuesGrow
<1>7. InOrder(n)' => InOrder(n)
  BY DEF InOrder
<1>8. checkpoint'[n] \in [balance : Int, last : Nat, lastWithdraw : Nat]
  BY DEF Covered
<1>9. ASSUME InOrder(n)'
      PROVE  /\ checkpoint[n].balance + Value(Spent(n))
                  <= InitialBalance + AmountSum(DepositsUntil(log'[n], last))
             /\ Value(locked'[n]) + Value(Spent(n))
                  <= InitialBalance + Total(log'[n], "deposit")
  <2>1. /\ checkpoint[n].balance + Value(Spent(n))
             <= InitialBalance + AmountSum(DepositsUntil(log[n], last))
        /\ Value(locked[n]) + Value(Spent(n)) <= InitialBalance + Total(log[n], "deposit")
    BY <1>7, <1>9 DEF Covered
  <2>2. InitialBalance \in Nat
    BY CallsAssumption
  <2> HIDE DEF last
  <2> QED BY <1>1, <1>2, <1>5, <1>6, <2>1, <2>2 DEF last
<1>10. Value(Spent(n))' = Value(Spent(n))
  BY DEF Value
<1> QED BY <1>4, <1>5, <1>8, <1>9, <1>10 DEF Covered, Value

\* A deposit's event is the youngest in the log: the checkpoint then counts all.
LEMMA CoveredDeposit ==
  ASSUME Types, IdsAreUnique, Types', IdsAreUnique', NEW n \in Nodes, Covered(n),
         NEW d \in Deposits, Deposit(n, d)
  PROVE  Covered(n)'
<1> DEFINE new == NewEvent("deposit", d.amount, d.rid, NoCall)
<1>1. /\ new \in Event /\ new.type = "deposit" /\ new.amount = d.amount
      /\ new.id = lastId + 1
  BY NewEventType DEF NewEvent
<1>2. /\ UNCHANGED <<locked, phase>> /\ lastId' = lastId + 1
      /\ \/ /\ Accepts(log[n], new) /\ log' = [log EXCEPT ![n] = @ \cup {new}]
            /\ checkpoint' = [checkpoint EXCEPT ![n].balance = @ + d.amount,
                                                ![n].last = new.id]
         \/ UNCHANGED <<log, checkpoint>>
  BY DEF Deposit, AddEvent
<1> HIDE DEF new
<1>3. Spent(n)' = Spent(n)
  BY <1>2 DEF Spent, Decided
<1>4. CASE UNCHANGED <<log, checkpoint>>
  BY <1>2, <1>3, <1>4, CoveredFrame
<1>5. CASE /\ Accepts(log[n], new) /\ log' = [log EXCEPT ![n] = @ \cup {new}]
           /\ checkpoint' = [checkpoint EXCEPT ![n].balance = @ + d.amount,
                                               ![n].last = new.id]
  <2>1. log'[n] = log[n] \cup {new} /\ new \notin log[n]
    BY <1>5 DEF Accepts, Types
  <2>2. /\ checkpoint'[n] \in [balance : Int, last : Nat, lastWithdraw : Nat]
        /\ checkpoint'[n].balance = checkpoint[n].balance + d.amount
        /\ checkpoint'[n].last = new.id
        /\ checkpoint[n].balance \in Int /\ checkpoint[n].last \in Nat
    <3>1. d.amount \in Int /\ new.id \in Nat
      BY <1>1, CallsAssumption DEF Types
    <3>2. checkpoint'[n] = [[checkpoint[n] EXCEPT !.balance = @ + d.amount]
                              EXCEPT !.last = new.id]
      BY <1>5 DEF Types
    <3>3. checkpoint[n] \in [balance : Int, last : Nat, lastWithdraw : Nat]
      BY DEF Covered
    <3> DEFINE k == checkpoint[n]
               j == [k EXCEPT !.balance = @ + d.amount]
    <3> HIDE DEF k
    <3>4. /\ j \in [balance : Int, last : Nat, lastWithdraw : Nat]
          /\ j.balance = k.balance + d.amount /\ k.balance \in Int /\ k.last \in Nat
      BY <3>1, <3>3 DEF k
    <3>5. checkpoint'[n] = [j EXCEPT !.last = new.id]
      BY <3>2 DEF k
    <3> HIDE DEF j
    <3>6. /\ checkpoint'[n] \in [balance : Int, last : Nat, lastWithdraw : Nat]
          /\ checkpoint'[n].balance = j.balance /\ checkpoint'[n].last = new.id
      BY <3>1, <3>4, <3>5
    <3> QED BY <3>4, <3>6 DEF k
  <2>3. /\ IsFiniteSet(log[n]) /\ log[n] \in SUBSET Event
        /\ IsFiniteSet(log'[n]) /\ log'[n] \in SUBSET Event
    BY LogsFinite
  <2>4. \A e \in log'[n] : e.id <= new.id
    <3>1. \A e \in log'[n] : e.id <= lastId'
      BY <2>3 DEF IdsAreUnique, Present
    <3> QED BY <1>1, <1>2, <3>1
  <2> DEFINE D == {e \in log[n] : e.type = "deposit"}
             E == {e \in log'[n] : e.type = "deposit"}
  <2>5. DepositsUntil(log'[n], new.id) = E
    BY <2>4 DEF DepositsUntil
  <2>6. /\ E = D \cup {new} /\ new \notin D /\ D \in SUBSET log[n]
        /\ \A e \in D \cup {new} : e.amount \in Int
    BY <1>1, <2>1, <2>3 DEF Event
  <2>7. Total(log[n], "deposit") = AmountSum(D) /\ Total(log'[n], "deposit") = AmountSum(E)
    BY DEF Total, AmountSum
  <2> HIDE DEF D, E
  <2>8. AmountSum(E) = AmountSum(D) + d.amount
    <3>1. IsFiniteSet(D)
      BY <2>3, <2>6, FS_Subset
    <3>2. AmountSum(D \cup {new}) = AmountSum(D) + new.amount
      BY <2>6, <3>1, AmountsAdd
    <3> QED BY <1>1, <2>6, <3>2
  <2>9. /\ Total(log[n], "deposit") \in Nat
        /\ AmountSum(DepositsUntil(log[n], checkpoint[n].last)) <= Total(log[n], "deposit")
        /\ AmountSum(DepositsUntil(log[n], checkpoint[n].last)) \in Nat
    <3>1. /\ AmountSum(DepositsUntil(log[n], checkpoint[n].last)) \in Nat
          /\ Total(GetEventsAfter(log[n], checkpoint[n].last), "deposit") \in Nat
          /\ Total(log[n], "deposit") \in Nat
          /\ Total(log[n], "deposit")
               = AmountSum(DepositsUntil(log[n], checkpoint[n].last))
                 + Total(GetEventsAfter(log[n], checkpoint[n].last), "deposit")
      BY <2>2, <2>3, DepositsSplit
    <3> QED BY <3>1
  <2>10. /\ Value(Spent(n)) \in Nat /\ Value(locked[n]) \in Nat
         /\ InitialBalance \in Nat /\ d.amount \in Nat
    <3>1. Spent(n) \in SUBSET Calls /\ locked[n] \in SUBSET Calls
      BY DEF Spent, Types
    <3>2. IsFiniteSet(Spent(n)) /\ IsFiniteSet(locked[n])
      BY DEF Covered
    <3> QED BY <3>1, <3>2, ValuesGrow, CallsAssumption
  <2>11. ASSUME InOrder(n)'
         PROVE  /\ checkpoint'[n].balance + Value(Spent(n)) <= InitialBalance + AmountSum(E)
                /\ Value(locked[n]) + Value(Spent(n)) <= InitialBalance + AmountSum(E)
    <3>1. InOrder(n)
      BY <2>1, <2>11 DEF InOrder
    <3>2. /\ checkpoint[n].balance + Value(Spent(n))
               <= InitialBalance + AmountSum(DepositsUntil(log[n], checkpoint[n].last))
          /\ Value(locked[n]) + Value(Spent(n)) <= InitialBalance + Total(log[n], "deposit")
      BY <3>1 DEF Covered
    <3> QED BY <2>2, <2>7, <2>8, <2>9, <2>10, <3>2
  <2>12. /\ Value(Spent(n))' = Value(Spent(n)) /\ Value(locked[n])' = Value(locked[n])
         /\ locked'[n] = locked[n]
    BY <1>2, <1>3 DEF Value
  <2>13. IsFiniteSet(locked'[n]) /\ IsFiniteSet(Spent(n)')
    BY <1>2, <1>3 DEF Covered
  <2> QED BY <2>2, <2>5, <2>7, <2>11, <2>12, <2>13 DEF Covered
<1> QED BY <1>2, <1>4, <1>5

\* A node grants only what its "optimized" balance leaves after what it has reserved.
LEMMA GrantGuard ==
  ASSUME NEW c \in Calls, Vote(c)
  PROVE  LET n == sync[c].at
             merged == MergeEvents(log[n], sync[c].fetched)
         IN  \/ /\ Grant(c, n, merged)
                /\ ComputeBalanceOptimized(checkpoint[n], merged) - Reserved(n) >= Amount[c]
             \/ Refusal(c, n, merged)
BY DEF Vote, Refusal

\* A vote leaves its node covered: what it grants is within the deposits merged.
LEMMA CoveredVote ==
  ASSUME Types, IdsAreUnique, Types', IdsAreUnique', VotesTell, Reservations, Locks,
         NEW c \in Calls, Vote(c), NEW m \in Nodes, Covered(m)
  PROVE  Covered(m)'
<1>1. PICK n \in Nodes, merged \in SUBSET Event :
      /\ phase[c] = "sync" /\ n = sync[c].at
      /\ log[n] \subseteq merged
      /\ \/ /\ Grant(c, n, merged)
            /\ ComputeBalanceOptimized(checkpoint[n], merged) - Reserved(n) >= Amount[c]
         \/ Refusal(c, n, merged)
      /\ phase' = [phase EXCEPT ![c] = "prepare"]
      /\ checkpoint' = checkpoint
  <2> DEFINE n == sync[c].at
             merged == MergeEvents(log[n], sync[c].fetched)
  <2>1. /\ phase[c] = "sync" /\ n \in Nodes /\ merged \in SUBSET Event
        /\ log[n] \subseteq merged
        /\ phase' = [phase EXCEPT ![c] = "prepare"] /\ checkpoint' = checkpoint
    BY VoteEffect
  <2>2. \/ /\ Grant(c, n, merged)
           /\ ComputeBalanceOptimized(checkpoint[n], merged) - Reserved(n) >= Amount[c]
        \/ Refusal(c, n, merged)
    BY GrantGuard
  <2> HIDE DEF n, merged
  <2>3. n = sync[c].at
    BY DEF n
  <2> QED BY <2>1, <2>2, <2>3
<1>2. log' = [log EXCEPT ![n] = merged] /\ log[m] \subseteq log'[m]
  <2>1. log' = [log EXCEPT ![n] = merged]
    BY <1>1 DEF Grant, Refusal
  <2> QED BY <1>1, <2>1 DEF Types
<1>3. \A b \in Calls : Decided(b)' <=> Decided(b)
  BY <1>1 DEF Decided, Types
<1>4. ~Decided(c)
  BY <1>1 DEF Decided
<1>5. ASSUME UNCHANGED locked PROVE Covered(m)'
  <2>1. Spent(m)' = Spent(m)
    BY <1>3, <1>5 DEF Spent
  <2> QED BY <1>1, <1>2, <1>5, <2>1, CoveredFrame
<1>6. CASE Refusal(c, n, merged)
  BY <1>5, <1>6 DEF Refusal
<1>7. CASE /\ Grant(c, n, merged)
           /\ ComputeBalanceOptimized(checkpoint[n], merged) - Reserved(n) >= Amount[c]
  <2>1. locked' = [locked EXCEPT ![n] = @ \cup {c}]
    BY <1>7 DEF Grant
  <2>2. Spent(m)' = Spent(m)
    BY <1>3, <1>4, <2>1 DEF Spent, Types
  <2>3. CASE m # n
    <3>1. locked'[m] = locked[m]
      BY <2>1, <2>3 DEF Types
    <3> QED BY <1>1, <1>2, <2>2, <3>1, CoveredFrame
  <2>4. CASE m = n
    <3> DEFINE last == checkpoint[n].last
    <3>1. /\ checkpoint[n] \in [balance : Int, last : Nat, lastWithdraw : Nat]
          /\ last \in Nat /\ checkpoint[n].balance \in Int
          /\ checkpoint[n].lastWithdraw \in Nat
      BY <2>4 DEF Covered
    <3>2. log'[n] = merged
      BY <1>2 DEF Types
    <3>3. IsFiniteSet(merged)
      BY <3>2, LogsFinite
    <3>4. /\ AmountSum(DepositsUntil(merged, last)) \in Nat
          /\ Total(GetEventsAfter(merged, last), "deposit") \in Nat
          /\ Total(merged, "deposit") = AmountSum(DepositsUntil(merged, last))
                                        + Total(GetEventsAfter(merged, last), "deposit")
      BY <3>1, <3>3, DepositsSplit
    <3>5. /\ AmountSum(DepositsUntil(log[n], last)) <= AmountSum(DepositsUntil(merged, last))
          /\ AmountSum(DepositsUntil(log[n], last)) \in Nat
      BY <1>1, <3>1, <3>3, DepositsGrow
    <3>6. /\ locked[n] \in SUBSET Calls /\ IsFiniteSet(locked[n])
          /\ Spent(n) \in SUBSET Calls /\ IsFiniteSet(Spent(n))
      BY <2>4 DEF Covered, Spent, Types
    <3>7. locked'[n] = locked[n] \cup {c} /\ c \notin locked[n]
      <4>1. votes[c][n] = "none"
        BY <1>1 DEF VotesTell, Locks
      <4>2. c \notin locked[n]
        BY <4>1 DEF Reservations, Reservation
      <4> QED BY <2>1, <4>2 DEF Types
    <3>8. /\ IsFiniteSet(locked'[n])
          /\ Value(locked'[n]) = Value(locked[n]) + Amount[c]
          /\ Value(locked[n]) \in Nat /\ Amount[c] \in Nat
      BY <3>6, <3>7, ValueAdds
    <3>9. Value(Spent(n)) \in Nat /\ InitialBalance \in Nat
      BY <3>6, ValuesGrow, CallsAssumption
    <3>10. checkpoint[n].balance + Total(GetEventsAfter(merged, last), "deposit")
             - checkpoint[n].lastWithdraw - Value(locked[n]) >= Amount[c]
      <4>1. Reserved(n) = Value(locked[n])
        BY DEF Reserved, Value, WeightSum
      <4>2. ComputeBalanceOptimized(checkpoint[n], merged)
              = checkpoint[n].balance + Total(GetEventsAfter(merged, last), "deposit")
                - checkpoint[n].lastWithdraw
        BY DEF ComputeBalanceOptimized
      <4> HIDE DEF last
      <4> QED BY <1>7, <3>1, <3>4, <3>8, <4>1, <4>2
    <3>11. ASSUME InOrder(n)'
           PROVE  /\ checkpoint[n].balance + Value(Spent(n))
                       <= InitialBalance + AmountSum(DepositsUntil(merged, last))
                  /\ Value(locked'[n]) + Value(Spent(n))
                       <= InitialBalance + Total(merged, "deposit")
      <4>1. InOrder(n)
        BY <1>1, <3>2, <3>11 DEF InOrder
      <4>2. checkpoint[n].balance + Value(Spent(n))
              <= InitialBalance + AmountSum(DepositsUntil(log[n], last))
        BY <2>4, <4>1 DEF Covered
      <4> HIDE DEF last
      <4> QED BY <3>1, <3>4, <3>5, <3>8, <3>9, <3>10, <4>2
    <3>12. /\ checkpoint'[n] = checkpoint[n] /\ Spent(n)' = Spent(n)
           /\ Value(Spent(n))' = Value(Spent(n)) /\ Value(locked[n])' = Value(locked'[n])
      BY <1>1, <2>2, <2>4 DEF Value
    <3>13. IsFiniteSet(Spent(n)')
      BY <3>6, <3>12
    <3>14. Covered(n)'
      BY <3>1, <3>2, <3>8, <3>11, <3>12, <3>13 DEF Covered
    <3> QED BY <2>4, <3>14
  <2> QED BY <2>3, <2>4
<1> QED BY <1>1, <1>6, <1>7

\* A commit that the log takes moves the call's amount from what is reserved to what
\* is spent; where deposits are older, the new checkpoint counts each of them once.
LEMMA CoveredCommit ==
  ASSUME Types, IdsAreUnique, Types', IdsAreUnique', Reservations, PreparedByCalls,
         NEW c \in Calls, NEW n \in Nodes, CommitAt(c, n), NEW m \in Nodes, Covered(m)
  PROVE  Covered(m)'
<1>1. /\ phase[c] = "commit" /\ UNCHANGED phase
      /\ \/ \E e \in PreparedFor(c, n) : Application(c, n, e)
         \/ UNCHANGED <<log, checkpoint, locked, prepared>>
  BY CommitEffect
<1>2. CASE UNCHANGED <<log, checkpoint, locked, prepared>>
  <2>1. Spent(m)' = Spent(m)
    BY <1>1, <1>2 DEF Spent, Decided
  <2> QED BY <1>2, <2>1, CoveredFrame
<1>3. ASSUME NEW e \in PreparedFor(c, n), Application(c, n, e)
      PROVE  Covered(m)'
  <2> DEFINE added == log[n] \cup {e}
             account == [balance |-> ComputeBalance(checkpoint[n], added) - e.amount,
                         last |-> e.id, lastWithdraw |-> e.amount]
  <2>1. /\ log' = [log EXCEPT ![n] = added] /\ Accepts(log[n], e)
        /\ checkpoint' = [checkpoint EXCEPT ![n] = account]
        /\ locked' = [locked EXCEPT ![n] = @ \ {c}]
    BY <1>3 DEF Application, Release
  <2>2. e \in Event /\ e.call = c /\ e.type = "withdraw" /\ e.amount = Amount[c]
    BY HomeIsNode DEF PreparedFor, Types, Event
  <2> HIDE DEF account
  <2>3. CASE m # n
    <3>1. log'[m] = log[m] /\ checkpoint'[m] = checkpoint[m] /\ locked'[m] = locked[m]
      BY <2>1, <2>3 DEF Types
    <3>2. Spent(m)' = Spent(m)
      BY <1>1, <3>1 DEF Spent, Decided
    <3> QED BY <3>1, <3>2, CoveredFrame
  <2>4. CASE m = n
    <3> DEFINE last == checkpoint[n].last
    <3>1. last \in Nat /\ checkpoint[n].balance \in Int
      BY <2>4 DEF Covered
    <3>2. log'[n] = added /\ checkpoint'[n] = account /\ locked'[n] = locked[n] \ {c}
      BY <2>1 DEF Types
    <3>3. /\ IsFiniteSet(log[n]) /\ log[n] \in SUBSET Event
          /\ IsFiniteSet(added) /\ added \in SUBSET Event /\ log[n] \in SUBSET added
      BY <3>2, LogsFinite
    <3>4. c \in locked[n] /\ c \notin Spent(n)
      BY DEF Reservations, Reservation, Spent
    <3>5. Spent(n)' = Spent(n) \cup {c}
      BY <1>1, <3>2, <3>4 DEF Spent, Decided
    <3>6. /\ locked[n] \in SUBSET Calls /\ IsFiniteSet(locked[n])
          /\ Spent(n) \in SUBSET Calls /\ IsFiniteSet(Spent(n))
      BY <2>4 DEF Covered, Spent, Types
    <3>7. /\ IsFiniteSet(Spent(n) \cup {c})
          /\ Value(Spent(n) \cup {c}) = Value(Spent(n)) + Amount[c]
          /\ Value(Spent(n)) \in Nat /\ Amount[c] \in Nat
      BY <3>4, <3>6, ValueAdds
    <3>8. /\ IsFiniteSet(locked[n] \ {c}) /\ Value(locked[n] \ {c}) \in Nat
          /\ Value(locked[n]) = Value(locked[n] \ {c}) + Amount[c]
      <4>1. /\ locked[n] \ {c} \in SUBSET locked[n] /\ c \notin locked[n] \ {c}
            /\ (locked[n] \ {c}) \cup {c} = locked[n] /\ locked[n] \ {c} \in SUBSET Calls
        BY <3>4, <3>6
      <4>2. IsFiniteSet(locked[n] \ {c})
        BY <3>6, <4>1, FS_Subset
      <4> QED BY <4>1, <4>2, ValueAdds
    <3>9. /\ AmountSum(DepositsUntil(added, last)) \in Nat
          /\ Total(GetEventsAfter(added, last), "deposit") \in Nat
          /\ Total(GetEventsAfter(added, last), "withdraw") \in Nat
          /\ Total(added, "deposit") \in Nat
          /\ Total(added, "deposit") = AmountSum(DepositsUntil(added, last))
                                       + Total(GetEventsAfter(added, last), "deposit")
      BY <3>1, <3>3, DepositsSplit
    <3>10. /\ AmountSum(DepositsUntil(log[n], last)) <= AmountSum(DepositsUntil(added, last))
           /\ AmountSum(DepositsUntil(log[n], last)) \in Nat
           /\ Total(log[n], "deposit") <= Total(added, "deposit")
           /\ Total(log[n], "deposit") \in Nat
      BY <3>1, <3>3, DepositsGrow
    <3>11. /\ account.balance = checkpoint[n].balance
                + Total(GetEventsAfter(added, last), "deposit")
                - Total(GetEventsAfter(added, last), "withdraw") - e.amount
           /\ account.last = e.id /\ account.lastWithdraw = e.amount
      <4>1. ComputeBalance(checkpoint[n], added)
              = checkpoint[n].balance + Total(GetEventsAfter(added, last), "deposit")
                - Total(GetEventsAfter(added, last), "withdraw")
        BY DEF ComputeBalance
      <4>2. /\ account.balance = ComputeBalance(checkpoint[n], added) - e.amount
            /\ account.last = e.id /\ account.lastWithdraw = e.amount
        BY DEF account
      <4>3. e.amount \in Nat
        BY <2>2 DEF Event
      <4> HIDE DEF added, last
      <4> QED BY <3>1, <3>9, <4>1, <4>2, <4>3
    <3>12. account \in [balance : Int, last : Nat, lastWithdraw : Nat]
      <4>1. e.amount \in Nat /\ e.id \in Nat
        BY <2>2 DEF Event
      <4>2. account.balance \in Int
        BY <3>1, <3>9, <3>11, <4>1
      <4> QED BY <3>11, <4>1, <4>2 DEF account
    <3>13. ASSUME InOrder(n)'
           PROVE  /\ account.balance + Value(Spent(n) \cup {c})
                       <= InitialBalance + AmountSum(DepositsUntil(added, account.last))
                  /\ Value(locked[n] \ {c}) + Value(Spent(n) \cup {c})
                       <= InitialBalance + Total(added, "deposit")
      <4>1. InOrder(n)
        BY <3>2, <3>13 DEF InOrder
      <4>2. /\ checkpoint[n].balance + Value(Spent(n))
                 <= InitialBalance + AmountSum(DepositsUntil(log[n], last))
            /\ Value(locked[n]) + Value(Spent(n)) <= InitialBalance + Total(log[n], "deposit")
        BY <2>4, <4>1 DEF Covered
      <4>3. \A d \in added : d.type = "deposit" => d.id <= e.id
        <5>1. \A d \in added : d.type = "deposit" => d.id < e.id
          BY <2>2, <3>2, <3>13 DEF InOrder
        <5> QED BY <2>2, <3>3, <5>1 DEF Event
      <4>4. DepositsUntil(added, account.last) = {d \in added : d.type = "deposit"}
        BY <3>11, <4>3 DEF DepositsUntil
      <4>5. AmountSum(DepositsUntil(added, account.last)) = Total(added, "deposit")
        BY <4>4 DEF Total, AmountSum
      <4>6. InitialBalance \in Nat
        BY CallsAssumption
      <4> HIDE DEF last, added
      <4> QED BY <2>2, <3>1, <3>7, <3>8, <3>9, <3>10, <3>11, <4>2, <4>5, <4>6
    <3>14. /\ Value(Spent(n))' = Value(Spent(n) \cup {c})
           /\ Value(locked[n])' = Value(locked[n] \ {c})
      BY <3>2, <3>5 DEF Value
    <3>15. IsFiniteSet(locked'[n]) /\ IsFiniteSet(Spent(n)')
      BY <3>2, <3>5, <3>7, <3>8
    <3>16. Covered(n)'
      BY <3>2, <3>12, <3>13, <3>14, <3>15 DEF Covered
    <3> QED BY <2>4, <3>16
  <2> QED BY <2>3, <2>4
<1> QED BY <1>1, <1>2, <1>3

\* A call that decides to commit has a reservation on every node still.
LEMMA DecideEffect ==
  ASSUME Types, VotesTell, Reservations, NEW c \in Calls, Decide(c), NEW n \in Nodes
  PROVE  Spent(n)' = Spent(n) /\ UNCHANGED <<log, checkpoint, locked>>
<1>1. /\ phase[c] = "prepare" /\ todo[c] = {}
      /\ phase' = [phase EXCEPT ![c] = IF CanCommit(c) THEN "commit" ELSE "rollback"]
      /\ UNCHANGED <<log, checkpoint, locked>>
  BY DEF Decide, nodeVars
<1>2. \A b \in Calls : b # c => (Decided(b)' <=> Decided(b))
  BY <1>1 DEF Decided, Types
<1>3. ASSUME Decided(c)' PROVE c \in locked[n]
  <2>1. CanCommit(c)
    BY <1>1, <1>3 DEF Decided, Types
  <2>2. votes[c][n] = "ack"
    BY <1>1, <2>1 DEF CanCommit, VotesTell, Types
  <2> QED BY <1>1, <2>2 DEF Reservations, Reservation
<1>4. ~Decided(c)
  BY <1>1 DEF Decided
<1>5. Spent(n)' = Spent(n)
  <2>1. locked'[n] = locked[n]
    BY <1>1
  <2>2. ASSUME NEW b \in Calls PROVE b \in Spent(n)' <=> b \in Spent(n)
    <3>1. CASE b = c
      BY <1>3, <1>4, <2>1, <3>1 DEF Spent, Decided
    <3>2. CASE b # c
      BY <1>2, <2>1, <3>2 DEF Spent
    <3> QED BY <3>1, <3>2
  <2>3. Spent(n)' \subseteq Calls /\ Spent(n) \subseteq Calls
    BY DEF Spent
  <2> QED BY <2>2, <2>3
<1> QED BY <1>1, <1>5

\* Every step leaves every node covered.
LEMMA CoverStep == CommitInv /\ CommitInv' /\ CoverInv /\ [Next]_vars => CoverInv'
<1> SUFFICES ASSUME CommitInv, CommitInv', CoverInv, [Next]_vars, NEW m \in Nodes
             PROVE  Covered(m)'
  BY DEF CoverInv
<1>a. /\ Types /\ Locks /\ VotesTell /\ Reservations /\ PreparedByCalls
      /\ IdsAreUnique /\ Types' /\ IdsAreUnique' /\ Covered(m)
  BY DEF CommitInv, CoverInv
<1>b. ASSUME UNCHANGED <<locked, checkpoint>>, log[m] \subseteq log'[m],
             \A b \in Calls : Decided(b)' <=> Decided(b)
      PROVE  Covered(m)'
  <2>1. Spent(m)' = Spent(m)
    BY <1>b DEF Spent
  <2> QED BY <1>a, <1>b, <2>1, CoveredFrame
<1>1. ASSUME NEW c \in Calls, Begin(c) PROVE Covered(m)'
  <2>1. /\ phase[c] = "new" /\ phase' = [phase EXCEPT ![c] = "prepare"]
        /\ UNCHANGED <<log, locked, checkpoint>>
    BY <1>a, <1>1, BeginSucceeds
  <2> QED BY <1>a, <1>b, <2>1 DEF Decided, Types
<1>2. ASSUME NEW c \in Calls, BeginTimeout(c) PROVE Covered(m)'
  <2>1. /\ phase[c] = "new" /\ phase' = [phase EXCEPT ![c] = "refused"]
        /\ UNCHANGED <<log, locked, checkpoint>>
    BY <1>2 DEF BeginTimeout, nodeVars
  <2> QED BY <1>a, <1>b, <2>1 DEF Decided, Types
<1>3. ASSUME NEW c \in Calls, Vote(c) PROVE Covered(m)'
  BY <1>a, <1>3, CoveredVote
<1>4. ASSUME NEW c \in Calls, Decide(c) PROVE Covered(m)'
  <2>1. Spent(m)' = Spent(m) /\ UNCHANGED <<log, checkpoint, locked>>
    BY <1>a, <1>4, DecideEffect
  <2> QED BY <1>a, <2>1, CoveredFrame
<1>5. ASSUME NEW c \in Calls, End(c) PROVE Covered(m)'
  <2>1. /\ phase[c] \in {"commit", "rollback"}
        /\ phase' = [phase EXCEPT ![c] = IF @ = "commit" THEN "committed" ELSE "aborted"]
        /\ UNCHANGED <<log, locked, checkpoint>>
    BY <1>5 DEF End, nodeVars
  <2> QED BY <1>a, <1>b, <2>1 DEF Decided, Types
<1>6. ASSUME NEW c \in Calls, NEW n \in Nodes, PrepareEnter(c, n) PROVE Covered(m)'
  <2>1. /\ phase[c] = "prepare" /\ phase' = [phase EXCEPT ![c] = "sync"]
        /\ UNCHANGED <<log, locked, checkpoint>>
    BY <1>6 DEF PrepareEnter, nodeVars
  <2> QED BY <1>a, <1>b, <2>1 DEF Decided, Types
<1>7. ASSUME NEW c \in Calls, NEW n \in Nodes,
             PrepareTimeout(c, n) \/ SyncEvents(c, n) \/ TellTimeout(c, n)
      PROVE  Covered(m)'
  <2>1. UNCHANGED <<log, locked, checkpoint, phase>>
    BY <1>7 DEF PrepareTimeout, SyncEvents, TellTimeout, nodeVars
  <2> QED BY <1>b, <2>1 DEF Decided
<1>8. ASSUME NEW c \in Calls, NEW n \in Nodes, CommitAt(c, n) PROVE Covered(m)'
  BY <1>a, <1>8, CoveredCommit
<1>9. ASSUME NEW c \in Calls, NEW n \in Nodes, RollbackAt(c, n) PROVE Covered(m)'
  <2>1. /\ phase[c] = "rollback" /\ locked' = [locked EXCEPT ![n] = @ \ {c}]
        /\ UNCHANGED <<log, checkpoint, phase>>
    BY <1>9 DEF RollbackAt, Release
  <2>2. locked'[m] \subseteq locked[m] /\ Spent(m)' = Spent(m)
    BY <1>a, <2>1 DEF Spent, Decided, Types
  <2> QED BY <1>a, <2>1, <2>2, CoveredFrame
<1>10. ASSUME NEW n \in Nodes, NEW d \in Deposits, Deposit(n, d) PROVE Covered(m)'
  <2>1. CASE m = n
    <3>1. Deposit(m, d)
      BY <1>10, <2>1
    <3> QED BY <1>a, <3>1, CoveredDeposit
  <2>2. CASE m # n
    <3>1. UNCHANGED <<locked, phase>> /\ log'[m] = log[m] /\ checkpoint'[m] = checkpoint[m]
      BY <1>a, <1>10, <2>2 DEF Deposit, Types
    <3>2. Spent(m)' = Spent(m)
      BY <3>1 DEF Spent, Decided
    <3> QED BY <1>a, <3>1, <3>2, CoveredFrame
  <2> QED BY <2>1, <2>2
<1>11. ASSUME NEW n \in Nodes, GetBalance(n) PROVE Covered(m)'
  <2>1. UNCHANGED <<locked, checkpoint, phase>> /\ log[m] \subseteq log'[m]
    BY <1>a, <1>11, MergeBounds DEF GetBalance, Types
  <2> QED BY <1>b, <2>1 DEF Decided
<1>12. CASE UNCHANGED vars
  BY <1>b, <1>12 DEF vars, Decided
<1> QED
  BY <1>1, <1>2, <1>3, <1>4, <1>5, <1>6, <1>7, <1>8, <1>9, <1>10, <1>11, <1>12
     DEF Next, Step

\* At first every node holds the initial balance and owes nothing.
LEMMA CoverInit == Init => CoverInv
<1> SUFFICES ASSUME Init, NEW n \in Nodes PROVE Covered(n)
  BY DEF CoverInv
<1>1. /\ checkpoint[n] = [balance |-> InitialBalance, last |-> 0, lastWithdraw |-> 0]
      /\ locked[n] = {} /\ log[n] = {}
  BY DEF Init
<1>2. Spent(n) = {}
  BY DEF Init, Spent, Decided
<1>3. Value({}) = 0
  BY FS_EmptySet, WeightsRemove DEF Value
<1>4. Total({}, "deposit") = 0
  <2>1. {e \in {} : e.type = "deposit"} = {}
    OBVIOUS
  <2> QED BY <2>1, AmountsEmpty DEF Total, AmountSum
<1>5. AmountSum(DepositsUntil({}, 0)) = 0
  <2>1. DepositsUntil({}, 0) = {}
    BY DEF DepositsUntil
  <2> QED BY <2>1, AmountsEmpty
<1>6. InitialBalance \in Nat
  BY CallsAssumption
<1>7. checkpoint[n] \in [balance : Int, last : Nat, lastWithdraw : Nat]
  BY <1>1, <1>6
<1>8. IsFiniteSet(locked[n]) /\ IsFiniteSet(Spent(n))
  BY <1>1, <1>2, FS_EmptySet
<1>9. checkpoint[n].balance = InitialBalance /\ checkpoint[n].last = 0
  BY <1>1
<1> QED BY <1>1, <1>2, <1>3, <1>4, <1>5, <1>6, <1>7, <1>8, <1>9 DEF Covered

\* The calls that a node has settled and those it has reserved funds for are covered
\* by its initial balance and deposits, in every state.
THEOREM CoverInvariant == Spec => [](CommitInv /\ CoverInv)
<1>1. Init => CommitInv /\ CoverInv
  BY InitInv, CoverInit
<1>2. CommitInv /\ CoverInv /\ [Next]_vars => (CommitInv /\ CoverInv)'
  BY CoverStep, TypesStep, LocksStep, VotesStep, ReservationsStep, PreparedByCallsStep,
     LogsStep, IdsStep, RequestsStep DEF CommitInv
<1> QED BY <1>1, <1>2, PTL DEF Spec

\* Every call is given a request id, its own or that of the call it repeats, as all
\* tests do.  One without (SYSTEM_OVERVIEW.md 249) is in a log as often as replicas
\* merge each other's events, and the property does not hold for it.
RequestsGiven == \A c \in Calls : Request[c] # NoRequest

\* Locked funds prevent double spending: what a node has spent or promised is covered
\* by what it received, while no deposit in its log is younger than a withdrawal
\* (tests/test_2pc_coordinated_withdrawal.py 104; distributed_node.py 494-511).
THEOREM PromisesTheorem ==
  ASSUME RequestsGiven
  PROVE  Spec => []PromisesAreCovered
<1>1. ASSUME CommitInv, CoverInv, NEW n \in Nodes, InOrder(n)
      PROVE  Total(log[n], "withdraw") + Value(Promised(n))
               <= InitialBalance + Total(log[n], "deposit")
  <2> DEFINE W == {e \in log[n] : e.type = "withdraw"}
             Made == {e.call : e \in W}
             Agreed == locked[n] \cup Spent(n)
  <2>1. Types /\ IdsAreUnique /\ LogsFollowDecisions /\ OneEventPerRequest /\ Covered(n)
    BY <1>1 DEF CommitInv, CoverInv
  <2>2. \A e \in W : /\ e \in log[n] /\ e \in Event /\ e.call \in Calls /\ Decided(e.call)
                     /\ e.amount = Amount[e.call] /\ e.rid = Request[e.call]
    <3>1. \A e \in W : e \in log[n] /\ e \in Event /\ e.type = "withdraw"
      BY <2>1 DEF Types
    <3>2. \A e \in W : /\ e.call # NoCall /\ e.call \in Calls
                       /\ e.amount = Amount[e.call] /\ e.rid = Request[e.call]
      BY <3>1 DEF Event
    <3> QED BY <2>1, <3>1, <3>2 DEF LogsFollowDecisions
  <2>3. \A e, f \in W : e.call = f.call => e = f
    BY <1>1, <2>1, <2>2 DEF RequestsGiven, OneEventPerRequest
  <2>4. IsFiniteSet(W)
    <3>1. W \in SUBSET {e \in Event : Present(e)}
      BY <2>2 DEF Present
    <3> HIDE DEF W
    <3> QED BY <2>1, <3>1, FS_Subset DEF IdsAreUnique
  <2>5. Made \cap Promised(n) = {} /\ Made \cup Promised(n) \in SUBSET Agreed
    <3>1. \A c \in Made : \E e \in log[n] : e.rid = Request[c]
      BY <2>2
    <3>2. Made \in SUBSET Agreed
      BY <2>2 DEF Spent
    <3>3. Promised(n) \in SUBSET locked[n]
      BY DEF Promised
    <3>4. \A c \in Promised(n) : \A e \in log[n] : e.rid # Request[c]
      BY DEF Promised
    <3> HIDE DEF Made
    <3> QED BY <3>1, <3>2, <3>3, <3>4
  <2>6. locked[n] \in SUBSET Calls /\ Spent(n) \in SUBSET Calls /\ locked[n] \cap Spent(n) = {}
    BY <2>1 DEF Types, Spent
  <2>7. Agreed \in SUBSET Calls /\ Agreed = locked[n] \cup Spent(n)
    BY <2>6
  <2>8. IsFiniteSet(locked[n]) /\ IsFiniteSet(Spent(n)) /\ IsFiniteSet(Agreed)
    BY <2>1, FS_Union DEF Covered
  <2>9. \A c \in Calls : Amount[c] \in Nat /\ Amount[c] \in Int
    BY CallsAssumption
  <2>10. Total(log[n], "withdraw") = Value(Made)
    <3> DEFINE f == [e \in W |-> e.amount]
               h == [e \in W |-> e.call]
    <3>1. \A e \in W : f[e] \in Int /\ f[e] = Amount[h[e]]
      BY <2>2, <2>9
    <3>2. \A e, g \in W : h[e] = h[g] => e = g
      BY <2>3
    <3>3. {h[e] : e \in W} = Made
      OBVIOUS
    <3>4. Total(log[n], "withdraw") = AmountSum(W)
      BY DEF Total, AmountSum
    <3> HIDE DEF W, h
    <3>5. AmountSum(W) = WeightSum(f, W)
      BY <2>4, AmountsAreWeights
    <3> HIDE DEF f
    <3>6. WeightSum(f, W) = WeightSum(Amount, {h[e] : e \in W})
      BY <2>4, <3>1, <3>2, WeightsRename
    <3> HIDE DEF Made
    <3> QED BY <3>3, <3>4, <3>5, <3>6 DEF Value
  <2> HIDE DEF Made, W, Agreed
  <2>11. Made \cup Promised(n) \in SUBSET Calls
    BY <2>5, <2>7
  <2>12. /\ IsFiniteSet(Made \cup Promised(n))
         /\ Value(Made \cup Promised(n)) \in Nat /\ Value(Agreed) \in Nat
         /\ Value(Made \cup Promised(n)) <= Value(Agreed)
    BY <2>5, <2>7, <2>8, ValuesGrow
  <2>13. /\ IsFiniteSet(Made) /\ IsFiniteSet(Promised(n))
         /\ Value(Made) \in Nat /\ Value(Promised(n)) \in Nat
    <3>1. Made \in SUBSET (Made \cup Promised(n)) /\ Promised(n) \in SUBSET (Made \cup Promised(n))
      OBVIOUS
    <3> QED BY <2>11, <2>12, <3>1, ValuesGrow
  <2>14. Value(Made \cup Promised(n)) = Value(Made) + Value(Promised(n))
    <3>1. \A c \in Made \cup Promised(n) : Amount[c] \in Int
      BY <2>9, <2>11
    <3> QED BY <2>5, <2>13, <3>1, WeightsUnion DEF Value
  <2>15. Value(Agreed) = Value(locked[n]) + Value(Spent(n))
    <3>1. \A c \in locked[n] \cup Spent(n) : Amount[c] \in Int
      BY <2>6, <2>9
    <3> QED BY <2>6, <2>7, <2>8, <3>1, WeightsUnion DEF Value
  <2>16. Value(locked[n]) + Value(Spent(n)) <= InitialBalance + Total(log[n], "deposit")
    BY <1>1, <2>1 DEF Covered
  <2>17. InitialBalance \in Nat /\ Total(log[n], "deposit") \in Nat
    <3>1. log[n] \in SUBSET Event
      BY <2>1 DEF Types
    <3>2. log[n] \in SUBSET {e \in Event : Present(e)}
      BY <3>1 DEF Present
    <3>3. IsFiniteSet(log[n])
      BY <2>1, <3>2, FS_Subset DEF IdsAreUnique
    <3>4. 0 \in Nat
      OBVIOUS
    <3> QED BY <3>1, <3>3, <3>4, DepositsSplit, CallsAssumption
  <2> QED BY <2>10, <2>12, <2>13, <2>14, <2>15, <2>16, <2>17
<1>2. ASSUME CommitInv, CoverInv PROVE PromisesAreCovered
  <2>1. \A n \in Nodes : InOrder(n) =>
          Total(log[n], "withdraw") + Value(Promised(n))
            <= InitialBalance + Total(log[n], "deposit")
    BY <1>1, <1>2
  <2> QED BY <2>1 DEF PromisesAreCovered, InOrder, Value, WeightSum
<1>3. CommitInv /\ CoverInv => PromisesAreCovered
  BY <1>2
<1> QED BY <1>3, CoverInvariant, PTL

-----------------------------------------------------------------------------
(* The refinement of AtomicCommit.                                         *)

Replicas == [c \in Calls |-> [n \in Nodes |-> ReplicaState(c, n)]]

\* One replica's part of one withdrawal changes, and no other.
LEMMA ReplicasBecome ==
  ASSUME NEW c \in Calls, NEW n \in Nodes, NEW s, ReplicaState(c, n)' = s,
         \A b \in Calls, m \in Nodes :
           b # c \/ m # n => ReplicaState(b, m)' = ReplicaState(b, m)
  PROVE  Replicas' = [Replicas EXCEPT ![c][n] = s]
BY DEF Replicas

\* Events that come with a merge change nothing for a replica: it has agreed to
\* the withdrawal and not settled it, or has an event of it already.
LEMMA ReplicaStays ==
  ASSUME CommitInv, NEW b \in Calls, NEW m \in Nodes,
         PreparedFor(b, m)' = PreparedFor(b, m),
         votes'[b][m] = "none" <=> votes[b][m] = "none",
         log[m] \subseteq log'[m],
         \A e \in log'[m] : e.call = b => e \in log[m] \/ Decided(b)
  PROVE  ReplicaState(b, m)' = ReplicaState(b, m)
<1>1. CASE PreparedFor(b, m) # {} \/ votes[b][m] = "none"
  BY <1>1 DEF ReplicaState
<1>2. CASE PreparedFor(b, m) = {} /\ votes[b][m] # "none"
  <2>1. (\E e \in log'[m] : e.call = b) <=> \E e \in log[m] : e.call = b
    BY <1>2 DEF CommitInv, LogsFollowDecisions
  <2> QED BY <1>2, <2>1 DEF ReplicaState
<1> QED BY <1>1, <1>2

\* An event of a call that is in a log, or was fetched, belongs to a decided call.
LEMMA EventsOfDecided ==
  ASSUME CommitInv
  PROVE  /\ \A n \in Nodes : \A e \in log[n] : e.call \in Calls => Decided(e.call)
         /\ \A c \in Calls : \A e \in sync[c].fetched : e.call \in Calls => Decided(e.call)
BY HomeIsNode DEF CommitInv, LogsFollowDecisions

\* Steps that leave what is kept and voted and move only events between logs.
LEMMA ReplicasStay ==
  ASSUME CommitInv, UNCHANGED <<prepared, votes>>,
         \A m \in Nodes : log[m] \subseteq log'[m],
         \A m \in Nodes : \A e \in log'[m] : e.call \in Calls => e \in log[m] \/ Decided(e.call)
  PROVE  UNCHANGED Replicas
<1>1. ASSUME NEW b \in Calls, NEW m \in Nodes
      PROVE  ReplicaState(b, m)' = ReplicaState(b, m)
  <2>1. PreparedFor(b, m)' = PreparedFor(b, m)
    BY DEF PreparedFor
  <2> QED BY <2>1, ReplicaStays
<1> QED BY <1>1 DEF Replicas

\* A vote is the replica's agreement or its refusal.
LEMMA VoteRefines ==
  ASSUME CommitInv, NEW c \in Calls, Vote(c)
  PROVE  \E n \in Nodes : Decisions!Agree(c, n) \/ Decisions!Refuse(c, n)
<1>0. Types /\ Locks /\ VotesTell /\ Reservations
  BY DEF CommitInv
<1>1. PICK n \in Nodes, merged \in SUBSET Event :
      /\ phase[c] = "sync" /\ n = sync[c].at
      /\ log[n] \subseteq merged /\ merged \subseteq log[n] \cup sync[c].fetched
      /\ Grant(c, n, merged) \/ Refusal(c, n, merged)
  BY <1>0, VoteEffect
<1>2. votes[c][n] = "none" /\ ~Decided(c)
  BY <1>0, <1>1 DEF Locks, VotesTell, Decided
<1>3. PreparedFor(c, n) = {}
  BY <1>0, <1>2 DEF Reservations, Reservation
<1>4. log' = [log EXCEPT ![n] = merged]
  BY <1>1 DEF Grant, Refusal
<1>5. \A m \in Nodes : \A e \in log'[m] : e.call \in Calls => e \in log[m] \/ Decided(e.call)
  BY <1>0, <1>1, <1>4, EventsOfDecided DEF Types
<1>6. \A m \in Nodes : log[m] \subseteq log'[m]
  BY <1>0, <1>1, <1>4 DEF Types
<1>7. Replicas[c][n] = "working"
  BY <1>2, <1>3 DEF Replicas, ReplicaState
<1>8. ASSUME NEW s, ReplicaState(c, n)' = s,
             \A b \in Calls, m \in Nodes :
               b # c \/ m # n => /\ PreparedFor(b, m)' = PreparedFor(b, m)
                                /\ votes'[b][m] = votes[b][m]
      PROVE  Replicas' = [Replicas EXCEPT ![c][n] = s]
  <2>1. ASSUME NEW b \in Calls, NEW m \in Nodes, b # c \/ m # n
        PROVE  ReplicaState(b, m)' = ReplicaState(b, m)
    BY <1>5, <1>6, <1>8, <2>1, ReplicaStays
  <2> QED BY <1>8, <2>1, ReplicasBecome
<1>9. CASE Grant(c, n, merged)
  <2>1. /\ votes' = [votes EXCEPT ![c][n] = "ack"]
        /\ PreparedFor(c, n)' =
             PreparedFor(c, n) \cup {NewEvent("withdraw", Amount[c], Request[c], c)}
        /\ \A b \in Calls, m \in Nodes :
             b # c \/ m # n => PreparedFor(b, m)' = PreparedFor(b, m)
    BY <1>0, <1>9, GrantEffect
  <2>2. ReplicaState(c, n)' = "prepared"
    BY <2>1 DEF ReplicaState
  <2>3. \A b \in Calls, m \in Nodes : b # c \/ m # n => votes'[b][m] = votes[b][m]
    BY <1>0, <2>1 DEF Types
  <2>4. Replicas' = [Replicas EXCEPT ![c][n] = "prepared"]
    BY <1>8, <2>1, <2>2, <2>3
  <2> QED BY <1>7, <2>4 DEF Decisions!Agree, Decisions!Become, Replicas
<1>10. CASE Refusal(c, n, merged)
  <2>1. votes' = [votes EXCEPT ![c][n] = "nack"] /\ UNCHANGED prepared
    BY <1>10 DEF Refusal
  <2>2. \A b \in Calls, m \in Nodes : PreparedFor(b, m)' = PreparedFor(b, m)
    BY <2>1 DEF PreparedFor
  <2>3. /\ votes'[c][n] = "nack"
        /\ \A b \in Calls, m \in Nodes : b # c \/ m # n => votes'[b][m] = votes[b][m]
    BY <1>0, <2>1 DEF Types
  <2>4. \A e \in log'[n] : e.call # c
    BY <1>2, <1>5, EventsOfDecided
  <2>5. ReplicaState(c, n)' = "dropped"
    BY <1>3, <2>2, <2>3, <2>4 DEF ReplicaState
  <2>6. Replicas' = [Replicas EXCEPT ![c][n] = "dropped"]
    BY <1>8, <2>2, <2>3, <2>5
  <2> QED BY <1>7, <2>6 DEF Decisions!Refuse, Decisions!Become, Replicas
<1> QED BY <1>1, <1>9, <1>10

\* A replica that does not answer in time has refused.
LEMMA TimeoutRefines ==
  ASSUME CommitInv, NEW c \in Calls, NEW n \in Nodes, PrepareTimeout(c, n)
  PROVE  Decisions!Refuse(c, n)
<1>0. Types /\ VotesTell /\ Reservations
  BY DEF CommitInv
<1>1. /\ votes' = [votes EXCEPT ![c][n] = "nack"]
      /\ UNCHANGED <<log, prepared>>
      /\ votes[c][n] = "none" /\ ~Decided(c)
  BY <1>0, ContactsBound DEF PrepareTimeout, nodeVars, VotesTell, Decided
<1>2. PreparedFor(c, n) = {}
  BY <1>0, <1>1 DEF Reservations, Reservation
<1>3. \A b \in Calls, m \in Nodes : PreparedFor(b, m)' = PreparedFor(b, m)
  BY <1>1 DEF PreparedFor
<1>4. \A e \in log'[n] : e.call # c
  BY <1>1, EventsOfDecided
<1>5. /\ votes'[c][n] = "nack"
      /\ \A b \in Calls, m \in Nodes : b # c \/ m # n => votes'[b][m] = votes[b][m]
  BY <1>0, <1>1 DEF Types
<1>6. ReplicaState(c, n)' = "dropped"
  BY <1>2, <1>3, <1>4, <1>5 DEF ReplicaState
<1>7. ASSUME NEW b \in Calls, NEW m \in Nodes, b # c \/ m # n
      PROVE  ReplicaState(b, m)' = ReplicaState(b, m)
  BY <1>1, <1>3, <1>5, <1>7 DEF ReplicaState
<1>8. Replicas' = [Replicas EXCEPT ![c][n] = "dropped"]
  BY <1>6, <1>7, ReplicasBecome
<1>9. Replicas[c][n] = "working"
  BY <1>1, <1>2 DEF Replicas, ReplicaState
<1> QED BY <1>8, <1>9 DEF Decisions!Refuse, Decisions!Become, Replicas

\* A commit applies what the replica has agreed to, when all have agreed.
LEMMA CommitRefines ==
  ASSUME CommitInv, NEW c \in Calls, NEW n \in Nodes, CommitAt(c, n)
  PROVE  Decisions!ApplyIt(c, n) \/ UNCHANGED Replicas
<1>0. Types /\ VotesTell /\ Reservations /\ LogsFollowDecisions
  BY DEF CommitInv
<1>1. phase[c] = "commit" /\ UNCHANGED votes
  BY CommitEffect
<1>2. CASE UNCHANGED <<log, prepared>>
  BY <1>1, <1>2, ReplicasStay
<1>3. ASSUME NEW e \in PreparedFor(c, n), Application(c, n, e)
      PROVE  Decisions!ApplyIt(c, n)
  <2>1. Release(c, n) /\ log' = [log EXCEPT ![n] = @ \cup {e}] /\ e.call = c
    BY <1>3 DEF Application, PreparedFor
  <2>2. /\ PreparedFor(c, n)' = {}
        /\ \A b \in Calls, m \in Nodes :
             b # c \/ m # n => PreparedFor(b, m)' = PreparedFor(b, m)
    BY <1>0, <2>1, ReleaseEffect
  <2>3. \A m \in Nodes : votes[c][m] = "ack"
    BY <1>0, <1>1 DEF VotesTell
  <2>4. e \in log'[n]
    BY <1>0, <2>1 DEF Types
  <2>5. ReplicaState(c, n)' = "applied"
    BY <1>1, <2>1, <2>2, <2>3, <2>4 DEF ReplicaState
  <2>6. ASSUME NEW b \in Calls, NEW m \in Nodes, b # c \/ m # n
        PROVE  ReplicaState(b, m)' = ReplicaState(b, m)
    <3>1. PreparedFor(b, m)' = PreparedFor(b, m)
      BY <2>2, <2>6
    <3>2. /\ log[m] \subseteq log'[m]
          /\ \A f \in log'[m] : f.call = b => f \in log[m]
      BY <1>0, <2>1, <2>6 DEF Types
    <3> QED BY <1>1, <3>1, <3>2, ReplicaStays
  <2>7. Replicas' = [Replicas EXCEPT ![c][n] = "applied"]
    BY <2>5, <2>6, ReplicasBecome
  <2>8. \A m \in Nodes : ReplicaState(c, m) \in {"prepared", "applied"}
    BY <1>0, <1>1, <2>3 DEF ReplicaState, LogsFollowDecisions, Decided
  <2>9. Replicas[c][n] = "prepared"
    BY DEF Replicas, ReplicaState
  <2>10. \A m \in Nodes : Replicas[c][m] \in {"prepared", "applied"}
    BY <2>8 DEF Replicas
  <2> QED BY <2>7, <2>9, <2>10 DEF Decisions!ApplyIt, Decisions!Become, Replicas
<1> QED BY <1>2, <1>3, CommitEffect

\* A rollback drops what the replica has agreed to, and none has applied it.
LEMMA RollbackRefines ==
  ASSUME CommitInv, NEW c \in Calls, NEW n \in Nodes, RollbackAt(c, n)
  PROVE  Decisions!DropIt(c, n) \/ UNCHANGED Replicas
<1>0. Types /\ VotesTell /\ Reservations /\ LogsFollowDecisions
  BY DEF CommitInv
<1>1. phase[c] = "rollback" /\ Release(c, n) /\ UNCHANGED <<log, votes>>
  BY DEF RollbackAt
<1>2. /\ PreparedFor(c, n)' = {}
      /\ \A b \in Calls, m \in Nodes :
           b # c \/ m # n => PreparedFor(b, m)' = PreparedFor(b, m)
  BY <1>0, <1>1, ReleaseEffect
<1>3. ASSUME NEW b \in Calls, NEW m \in Nodes, b # c \/ m # n
      PROVE  ReplicaState(b, m)' = ReplicaState(b, m)
  BY <1>1, <1>2, <1>3 DEF ReplicaState
<1>4. CASE PreparedFor(c, n) = {}
  <2>1. ReplicaState(c, n)' = ReplicaState(c, n)
    BY <1>1, <1>2, <1>4 DEF ReplicaState
  <2>2. \A b \in Calls, m \in Nodes : ReplicaState(b, m)' = ReplicaState(b, m)
    BY <1>3, <2>1
  <2> QED BY <2>2 DEF Replicas
<1>5. CASE PreparedFor(c, n) # {}
  <2>1. \A m \in Nodes : votes[c][m] # "none" /\ \A e \in log[m] : e.call # c
    BY <1>0, <1>1, EventsOfDecided DEF VotesTell, Decided
  <2>2. ReplicaState(c, n)' = "dropped"
    BY <1>1, <1>2, <2>1 DEF ReplicaState
  <2>3. Replicas' = [Replicas EXCEPT ![c][n] = "dropped"]
    BY <1>3, <2>2, ReplicasBecome
  <2>4. Replicas[c][n] = "prepared"
    BY <1>5 DEF Replicas, ReplicaState
  <2>5. \A m \in Nodes : Replicas[c][m] # "applied"
    BY <2>1 DEF Replicas, ReplicaState
  <2> QED BY <2>3, <2>4, <2>5 DEF Decisions!DropIt, Decisions!Become, Replicas
<1> QED BY <1>4, <1>5

\* All replicas of a withdrawal apply it or none does, it is applied only when all
\* have agreed, and what a replica has decided stays (distributed_node.py 234-259,
\* 371, 471-645): the nodes implement AtomicCommit.
THEOREM CommitRefinement == Spec => ImplementsAtomicCommit
<1>1. Init => Decisions!CommitInit
  BY DEF Init, Decisions!CommitInit, ReplicaState, PreparedFor
<1>2. ASSUME CommitInv, [Next]_vars
      PROVE  Decisions!CommitNext \/ UNCHANGED Replicas
  <2>0. Types
    BY <1>2 DEF CommitInv
  <2>1. ASSUME NEW c \in Calls, Vote(c) PROVE Decisions!CommitNext
    BY <1>2, <2>1, VoteRefines DEF Decisions!CommitNext
  <2>2. ASSUME NEW c \in Calls, NEW n \in Nodes, PrepareTimeout(c, n)
        PROVE  Decisions!CommitNext
    BY <1>2, <2>2, TimeoutRefines DEF Decisions!CommitNext
  <2>3. ASSUME NEW c \in Calls, NEW n \in Nodes, CommitAt(c, n)
        PROVE  Decisions!CommitNext \/ UNCHANGED Replicas
    BY <1>2, <2>3, CommitRefines DEF Decisions!CommitNext
  <2>4. ASSUME NEW c \in Calls, NEW n \in Nodes, RollbackAt(c, n)
        PROVE  Decisions!CommitNext \/ UNCHANGED Replicas
    BY <1>2, <2>4, RollbackRefines DEF Decisions!CommitNext
  <2>5. CASE UNCHANGED <<log, prepared, votes>>
    BY <1>2, <2>5, ReplicasStay
  <2>6. ASSUME NEW c \in Calls, Begin(c) \/ BeginTimeout(c) \/ Decide(c) \/ End(c)
        PROVE  UNCHANGED <<log, prepared, votes>>
    BY <2>6 DEF Begin, BeginTimeout, Decide, End, nodeVars
  <2>7. ASSUME NEW c \in Calls, NEW n \in Nodes,
               PrepareEnter(c, n) \/ SyncEvents(c, n) \/ TellTimeout(c, n)
        PROVE  UNCHANGED <<log, prepared, votes>>
    BY <2>7 DEF PrepareEnter, SyncEvents, TellTimeout, nodeVars
  <2>8. ASSUME NEW n \in Nodes, NEW d \in Deposits, Deposit(n, d)
        PROVE  UNCHANGED Replicas
    <3> DEFINE new == NewEvent("deposit", d.amount, d.rid, NoCall)
    <3>1. new.call \notin Calls
      BY HomeIsNode DEF NewEvent
    <3> HIDE DEF new
    <3>2. /\ log' = [log EXCEPT ![n] = @ \cup {new}] \/ UNCHANGED log
          /\ UNCHANGED <<prepared, votes>>
      BY <2>8 DEF Deposit, AddEvent, new
    <3>3. \A m \in Nodes : log[m] \subseteq log'[m] /\ log'[m] \subseteq log[m] \cup {new}
      BY <2>0, <3>2 DEF Types
    <3> QED BY <1>2, <3>1, <3>2, <3>3, ReplicasStay
  <2>9. ASSUME NEW n \in Nodes, GetBalance(n) PROVE UNCHANGED Replicas
    <3> DEFINE remote == UNION {GetEventsAfter(log[m], checkpoint[n].last) : m \in Nodes \ {n}}
               merged == MergeEvents(log[n], remote)
    <3>1. log' = [log EXCEPT ![n] = merged] /\ UNCHANGED <<prepared, votes>>
      BY <2>9 DEF GetBalance
    <3>2. \A e \in remote : \E m \in Nodes : e \in log[m]
      BY DEF GetEventsAfter
    <3> HIDE DEF remote
    <3>3. /\ log[n] \subseteq merged
          /\ \A e \in merged : e.call \in Calls => e \in log[n] \/ Decided(e.call)
      BY <1>2, <3>2, MergeBounds, EventsOfDecided
    <3> HIDE DEF merged
    <3>4. /\ \A m \in Nodes : log[m] \subseteq log'[m]
          /\ \A m \in Nodes : \A e \in log'[m] :
               e.call \in Calls => e \in log[m] \/ Decided(e.call)
      BY <2>0, <3>1, <3>3 DEF Types
    <3> QED BY <1>2, <3>1, <3>4, ReplicasStay
  <2>10. CASE UNCHANGED vars
    BY <2>5, <2>10 DEF vars
  <2> QED
    BY <1>2, <2>1, <2>2, <2>3, <2>4, <2>5, <2>6, <2>7, <2>8, <2>9, <2>10 DEF Next, Step
<1>3. CommitInv /\ [Next]_vars => [Decisions!CommitNext]_Replicas
  BY <1>2
<1> QED
  BY <1>1, <1>3, CommitInvariant, PTL
  DEF Spec, ImplementsAtomicCommit, Decisions!CommitSpec, Replicas


\* No replica drops a withdrawal that another has applied. (It may still hold the
\* prepared event of it for ever, when the message of the commit is lost: that is
\* what AllOrNothing does not allow.) Commits and rollbacks: distributed_node
\* 536-609.
THEOREM AgreementTheorem ==
  Spec => [](\A c \in Calls, m, n \in Nodes :
               ReplicaState(c, m) = "applied" => ReplicaState(c, n) # "dropped")
<1>1. ASSUME CommitInv, NEW c \in Calls, NEW m \in Nodes, NEW n \in Nodes,
             ReplicaState(c, m) = "applied"
      PROVE  ReplicaState(c, n) # "dropped"
  <2>1. PICK e \in log[m] : e.call = c
    BY <1>1 DEF ReplicaState
  <2>2. c # NoCall
    BY HomeIsNode
  <2>3. Decided(c)
    BY <1>1, <2>1, <2>2 DEF CommitInv, LogsFollowDecisions
  <2>4. PreparedFor(c, n) = {} => \E f \in log[n] : f.call = c
    BY <1>1, <2>3 DEF CommitInv, LogsFollowDecisions
  <2> QED BY <2>4 DEF ReplicaState
<1>2. CommitInv => \A c \in Calls, m, n \in Nodes :
                     ReplicaState(c, m) = "applied" => ReplicaState(c, n) # "dropped"
  BY <1>1
<1> QED BY <1>2, CommitInvariant, PTL
=============================================================================
