------------------------- MODULE QuorumWithdrawProofs -------------------------
(***************************************************************************)
(* Theorems about QuorumWithdraw, for every set of nodes and calls.        *)
(*                                                                         *)
(* The calls' locks are one layer of the inductive invariant.  The other   *)
(* is about data: what a generator has given out, where an event comes     *)
(* from and what a checkpoint covers.  For it every step is one of three:  *)
(* it leaves the logs, merges events that exist into one of them, or       *)
(* creates an event on its node.                                           *)
(***************************************************************************)
EXTENDS QuorumWithdraw, SumTheorems

Rids == {Request[c] : c \in Calls} \cup {d.rid : d \in Deposits}

Event == [id : Nat, type : EventTypes, node : Nodes, rid : Rids, amount : Nat]

Syncs == [at : Nodes, toRead : SUBSET Nodes, fetched : SUBSET Event]

Phases == {"new", "sync", "ask", "tell", "applied", "rejected", "duplicate", "refused"}

\* The types; a checkpoint's balance may be anything.
Types ==
  /\ now \in Nat
  /\ generator \in [Nodes -> [ms : Nat, counter : Nat]]
  /\ lock \in [Nodes -> Calls \cup {NoCall}]
  /\ log \in [Nodes -> SUBSET Event]
  /\ DOMAIN checkpoint = Nodes
  /\ accountLock \in [Nodes -> Calls \cup {NoCall}]
  /\ votes \in [Calls -> [Nodes -> {"none", "accept", "reject"}]]
  /\ phase \in [Calls -> Phases]
  /\ todo \in [Calls -> SUBSET Nodes]
  /\ sync \in [Calls -> Syncs]

Running(c) == phase[c] \in {"sync", "ask", "tell"}

\* A running call has its node's lock, and a node's lock is held by nobody but a
\* call that runs there or that asks it for a vote.  Only quorum calls ask.
Locks ==
  /\ \A c \in Calls : Running(c) => lock[Home[c]] = c
  /\ \A c \in Calls : phase[c] = "sync" =>
       lock[sync[c].at] = c /\ (Kind[c] = "plain" => sync[c].at = Home[c])
  /\ \A c \in Calls : phase[c] = "ask" => Kind[c] = "quorum"
  /\ \A n \in Nodes : lock[n] # NoCall =>
       /\ Running(lock[n])
       /\ n = Home[lock[n]] \/ (phase[lock[n]] = "sync" /\ sync[lock[n]].at = n)

\* Only a quorum call of the node locks its account.
Accounts ==
  /\ AccountLockTellsTheCall
  /\ \A n \in Nodes : accountLock[n] # NoCall =>
       Kind[accountLock[n]] = "quorum" /\ Home[accountLock[n]] = n

\* The calls that have had an event id.
Spent == {c \in Calls : phase[c] \in {"tell", "applied", "duplicate"}}

\* A generator is never ahead of the clock, and counts in one millisecond no more
\* than the deposits that are allowed and the calls.
Counters ==
  \A n \in Nodes :
    /\ generator[n].ms <= now
    /\ generator[n].counter <= MaxPerMs + Cardinality(Spent)

\* An event is in a log or on its way into one.
Present(e) ==
  \/ \E n \in Nodes : e \in log[n]
  \/ \E c \in Calls : e \in sync[c].fetched

Stamp(n, ms, k) == (ms * Slots + NodeHash[n]) * Slots + k

\* The event has an id that the generator of its node has given out.
Stamped(e) ==
  \E ms \in Nat, k \in 0..(Slots - 1) :
    /\ e.id = Stamp(e.node, ms, k)
    /\ \/ ms < generator[e.node].ms
       \/ ms = generator[e.node].ms /\ k <= generator[e.node].counter

\* Every event is in the log of the node that made it, with an id of its own.
Origins ==
  /\ \A e \in Event : Present(e) => e \in log[e.node] /\ Stamped(e)
  /\ \A n \in Nodes : \A e, f \in Own(n) : e.id = f.id => e = f

\* What a checkpoint covers; a call that tells others has an event to tell.
Checkpoints ==
  /\ \A n \in Nodes : IsFiniteSet(Own(n))
  /\ CheckpointCoversOwnEvents
  /\ \A c \in Calls : phase[c] = "tell" => Own(Home[c]) # {}

QuorumInv ==
  /\ Types /\ Locks /\ Accounts /\ Counters /\ Origins /\ Checkpoints
  /\ OneEventPerRequest /\ RefusedOnlyAsDuplicate

-----------------------------------------------------------------------------
(* The arithmetic of event ids.                                            *)

\* The higher part of a number decides.
LEMMA HigherPartDecides ==
  ASSUME NEW x \in Nat, NEW y \in Nat, NEW S \in Nat,
         NEW j \in 0..(S - 1), NEW k \in 0..(S - 1), x < y
  PROVE  x * S + j < y * S + k
<1>1. (x + 1) * S <= y * S
  OBVIOUS
<1>2. (x + 1) * S = x * S + S
  OBVIOUS
<1>3. x * S \in Nat /\ y * S \in Nat
  OBVIOUS
<1> QED BY <1>1, <1>2, <1>3

\* A number has one higher and one lower part.
LEMMA PartsAreUnique ==
  ASSUME NEW x \in Nat, NEW y \in Nat, NEW S \in Nat,
         NEW j \in 0..(S - 1), NEW k \in 0..(S - 1), x * S + j = y * S + k
  PROVE  x = y /\ j = k
<1>1. x * S + j \in Nat
  OBVIOUS
<1>2. x = y
  BY <1>1, HigherPartDecides
<1>3. x * S \in Nat
  OBVIOUS
<1> QED BY <1>2, <1>3

\* Ids of one node grow with the moment and the counter, and ids of different
\* nodes differ.
LEMMA StampsGrow ==
  ASSUME NEW n \in Nodes, NEW a \in Nat, NEW b \in Nat,
         NEW j \in 0..(Slots - 1), NEW k \in 0..(Slots - 1),
         a < b \/ (a = b /\ j < k)
  PROVE  Stamp(n, a, j) < Stamp(n, b, k)
<1> DEFINE h == NodeHash[n]
<1>1. h \in 0..(Slots - 1) /\ Slots \in Nat
  BY HashAssumption
<1> HIDE DEF h
<1>2. CASE a < b
  <2>1. a * Slots + h < b * Slots + h /\ a * Slots + h \in Nat /\ b * Slots + h \in Nat
    BY <1>1, <1>2, HigherPartDecides
  <2>2. (a * Slots + h) * Slots + j < (b * Slots + h) * Slots + k
    BY <1>1, <2>1, HigherPartDecides
  <2> QED BY <2>2 DEF Stamp, h
<1>3. CASE a = b /\ j < k
  <2>1. (a * Slots + h) * Slots \in Nat
    BY <1>1
  <2>2. (a * Slots + h) * Slots + j < (a * Slots + h) * Slots + k
    BY <1>3, <2>1
  <2> QED BY <1>3, <2>2 DEF Stamp, h
<1> QED BY <1>2, <1>3

\* Ids of different nodes differ: an id tells the node that generated it.
LEMMA StampsTellNodes ==
  ASSUME NEW n \in Nodes, NEW m \in Nodes, NEW a \in Nat, NEW b \in Nat,
         NEW j \in 0..(Slots - 1), NEW k \in 0..(Slots - 1),
         Stamp(n, a, j) = Stamp(m, b, k)
  PROVE  n = m
<1> DEFINE g == NodeHash[n]
           h == NodeHash[m]
<1>1. g \in 0..(Slots - 1) /\ h \in 0..(Slots - 1) /\ Slots \in Nat
  BY HashAssumption
<1>2. (a * Slots + g) * Slots + j = (b * Slots + h) * Slots + k
  BY DEF Stamp
<1>3. (g = h) => n = m
  BY IdsAssumption
<1> HIDE DEF g, h
<1>4. a * Slots + g \in Nat /\ b * Slots + h \in Nat
  BY <1>1
<1>5. a * Slots + g = b * Slots + h
  BY <1>1, <1>2, <1>4, PartsAreUnique
<1>6. g = h
  BY <1>1, <1>5, PartsAreUnique
<1> QED BY <1>3, <1>6

-----------------------------------------------------------------------------
(* What the log's operators and the pieces of actions do.                  *)

\* The constants that every proof uses.
LEMMA HomeIsNode == \A c \in Calls : Home[c] \in Nodes /\ c # NoCall
BY CallsAssumption

\* There are calls enough for the counter not to wrap.
LEMMA SlotsSuffice ==
  /\ IsFiniteSet(Calls) /\ Cardinality(Calls) \in Nat /\ Cardinality(Spent) \in Nat
  /\ Cardinality(Spent) <= Cardinality(Calls)
  /\ Slots \in Nat /\ Slots > 0
<1>1. IsFiniteSet(Calls) /\ Cardinality(Calls) \in Nat
  BY IdsAssumption, FS_CardinalityType
<1>2. Spent \in SUBSET Calls
  BY DEF Spent
<1>3. IsFiniteSet(Spent) /\ Cardinality(Spent) <= Cardinality(Calls)
  BY <1>1, <1>2, FS_Subset
<1> QED BY <1>1, <1>3, HashAssumption, FS_CardinalityType

\* A merge adds nothing but remote events.
LEMMA MergeBounds ==
  ASSUME NEW known, NEW remote
  PROVE  /\ known \subseteq MergeEvents(known, remote)
         /\ MergeEvents(known, remote) \subseteq known \cup remote
BY DEF MergeEvents

\* Adding one event is a merge with it alone, and a merge with nothing none.
LEMMA AddIsMerge ==
  ASSUME NEW known \in SUBSET Event, NEW e \in Event
  PROVE  AddEvent(known, e) = MergeEvents(known, {e})
<1>1. e.id <= e.id
  BY DEF Event
<1> QED BY <1>1 DEF AddEvent, MergeEvents

\* Merging nothing changes nothing.
LEMMA MergeNothing == ASSUME NEW known PROVE MergeEvents(known, {}) = known
BY DEF MergeEvents

\* What a generator gives out next.
LEMMA NextStampType ==
  ASSUME Types, NEW n \in Nodes
  PROVE  /\ NextStamp(n) \in [ms : Nat, counter : Nat]
         /\ NextStamp(n).ms = now
         /\ NextStamp(n).counter \in {0, generator[n].counter + 1}
         /\ now = generator[n].ms => NextStamp(n).counter = generator[n].counter + 1
         /\ EventId(n) \in Nat
<1>1. /\ generator[n] \in [ms : Nat, counter : Nat] /\ now \in Nat
  BY DEF Types
<1>2. NextStamp(n) \in [ms : Nat, counter : Nat]
  BY <1>1 DEF NextStamp
<1>3. /\ NextStamp(n).ms = now
      /\ NextStamp(n).counter \in {0, generator[n].counter + 1}
      /\ now = generator[n].ms => NextStamp(n).counter = generator[n].counter + 1
  BY <1>1 DEF NextStamp
<1>4. NodeHash[n] \in Nat
  BY HashAssumption
<1>5. EventId(n) \in Nat
  <2> DEFINE t == NextStamp(n).ms
             k == NextStamp(n).counter
  <2>1. t \in Nat /\ k \in Nat
    BY <1>2
  <2> HIDE DEF t, k
  <2>2. k % Slots \in Nat
    BY <2>1, SlotsSuffice
  <2>3. (t * Slots + NodeHash[n]) * Slots \in Nat
    BY <1>4, <2>1, SlotsSuffice
  <2> QED BY <2>2, <2>3 DEF EventId, IdOf, t, k
<1> QED BY <1>2, <1>3, <1>5

\* The event of a withdrawal and of a deposit.
LEMMA NewEventType ==
  ASSUME Types
  PROVE  /\ \A c \in Calls : Withdrawal(c) \in Event
         /\ \A d \in Deposits : NewEvent(d.node, "deposit", d.amount, d.rid) \in Event
BY NextStampType, CallsAssumption DEF Withdrawal, NewEvent, Event, EventTypes, Rids

\* The events fetched in all from other nodes.
LEMMA FetchedType ==
  ASSUME Types, NEW n \in Nodes
  PROVE  /\ UNION {GetEventsAfter(log[m], checkpoint[n].last) : m \in Peers(n)} \in SUBSET Event
         /\ \A e \in UNION {GetEventsAfter(log[m], checkpoint[n].last) : m \in Peers(n)} :
              Present(e)
<1> DEFINE remote == UNION {GetEventsAfter(log[m], checkpoint[n].last) : m \in Peers(n)}
<1>1. \A e \in remote : \E m \in Nodes : e \in log[m]
  BY DEF GetEventsAfter, Peers
<1> HIDE DEF remote
<1>2. remote \in SUBSET Event /\ \A e \in remote : Present(e)
  BY <1>1 DEF Types, Present
<1> QED BY <1>2 DEF remote

\* What a call reads of another log are events of that log.
LEMMA SyncEffect ==
  ASSUME NEW c \in Calls, NEW m \in Nodes, Types, SyncEvents(c, m)
  PROVE  /\ phase[c] = "sync"
         /\ \E s \in Syncs : /\ s.at = sync[c].at
                            /\ s.fetched \subseteq sync[c].fetched \cup log[m]
                            /\ sync' = [sync EXCEPT ![c] = s]
         /\ UNCHANGED <<now, nodeVars, lock, accountLock, votes, phase, todo>>
<1> DEFINE G == GetEventsAfter(log[m], checkpoint[sync[c].at].last)
           S(got) == [at |-> sync[c].at, toRead |-> sync[c].toRead \ {m},
                      fetched |-> sync[c].fetched \cup got]
<1>1. G \subseteq log[m] /\ {} \subseteq log[m]
  BY DEF GetEventsAfter
<1>2. /\ phase[c] = "sync"
      /\ UNCHANGED <<now, nodeVars, lock, accountLock, votes, phase, todo>>
      /\ \E got \in {G} \cup (IF MayEnter(c, m) THEN {} ELSE {{}}) :
           sync' = [sync EXCEPT ![c] = S(got)]
  BY DEF SyncEvents
<1> HIDE DEF G
<1>3. PICK got \in SUBSET log[m] : sync' = [sync EXCEPT ![c] = S(got)]
  <2> HIDE DEF S
  <2> QED BY <1>1, <1>2
<1>4. /\ S(got) \in Syncs
      /\ S(got).at = sync[c].at
      /\ S(got).fetched \subseteq sync[c].fetched \cup log[m]
  BY DEF Types, Syncs
<1> HIDE DEF S
<1> QED BY <1>2, <1>3, <1>4

\* What a vote or a plain withdrawal makes of the log of its node.
LEMMA SyncedType ==
  ASSUME NEW c \in Calls, Types
  PROVE  /\ sync[c].at \in Nodes /\ sync[c].fetched \in SUBSET Event
         /\ Synced(c) \in SUBSET Event
<1>1. sync[c].at \in Nodes /\ sync[c].fetched \in SUBSET Event
  BY DEF Types, Syncs
<1> QED BY <1>1, MergeBounds DEF Synced, Types

\* How a call ends at home: its event is new to the log, the log has refused it,
\* or the balance does not cover it.
Recorded(c, known) ==
  /\ Accepts(known, Withdrawal(c))
  /\ generator' = [generator EXCEPT ![Home[c]] = NextStamp(Home[c])]
  /\ log' = [log EXCEPT ![Home[c]] = known \cup {Withdrawal(c)}]
  /\ \E balance : checkpoint' = [checkpoint EXCEPT
                      ![Home[c]] = Withdrawn(@, Withdrawal(c), balance)]
  /\ phase' = [phase EXCEPT ![c] = "tell"]
  /\ todo' = [todo EXCEPT ![c] = Peers(Home[c])]
  /\ UNCHANGED lock

Duplicated(c, known) ==
  /\ ~Accepts(known, Withdrawal(c))
  /\ generator' = [generator EXCEPT ![Home[c]] = NextStamp(Home[c])]
  /\ log' = [log EXCEPT ![Home[c]] = known]
  /\ phase' = [phase EXCEPT ![c] = "duplicate"]
  /\ Unlock(Home[c])
  /\ UNCHANGED <<checkpoint, todo>>

Declined(c, known) ==
  /\ log' = [log EXCEPT ![Home[c]] = known]
  /\ phase' = [phase EXCEPT ![c] = "rejected"]
  /\ Unlock(Home[c])
  /\ UNCHANGED <<generator, checkpoint, todo>>

\* A withdrawal is entered in the log, or refused for its id or its request.
LEMMA RecordEffect ==
  ASSUME NEW c \in Calls, NEW known, NEW balance, Record(c, known, balance)
  PROVE  Recorded(c, known) \/ Duplicated(c, known)
<1>1. CASE Accepts(known, Withdrawal(c))
  BY <1>1 DEF Record, Recorded, AddEvent
<1>2. CASE ~Accepts(known, Withdrawal(c))
  BY <1>2 DEF Record, Duplicated, AddEvent
<1> QED BY <1>1, <1>2

\* The last step of a withdrawal, plain or quorum: it merges what it fetched and
\* enters its event, or is refused as a duplicate or for want of funds.
LEMMA FinishEffect ==
  ASSUME NEW c \in Calls, Types, Locks, Withdraw(c) \/ Apply(c)
  PROVE  /\ \/ phase[c] = "sync" /\ Kind[c] = "plain"
            \/ phase[c] = "ask" /\ Kind[c] = "quorum"
         /\ \E remote \in SUBSET sync[c].fetched :
              \E known \in SUBSET Event :
                /\ known = MergeEvents(log[Home[c]], remote)
                /\ \/ Recorded(c, known) \/ Duplicated(c, known)
                   \/ Declined(c, known) /\ Kind[c] = "plain"
         /\ UNCHANGED <<now, accountLock, votes, sync>>
<1>1. CASE Withdraw(c)
  <2>1. /\ phase[c] = "sync" /\ Kind[c] = "plain"
        /\ UNCHANGED <<now, accountLock, votes, sync>>
    BY <1>1 DEF Withdraw
  <2>2. Synced(c) = MergeEvents(log[Home[c]], sync[c].fetched)
    BY <2>1 DEF Locks, Synced
  <2>3. Recorded(c, Synced(c)) \/ Duplicated(c, Synced(c)) \/ Declined(c, Synced(c))
    <3>1. CASE CanAfford(c)
      BY <1>1, <3>1, RecordEffect DEF Withdraw
    <3>2. CASE ~CanAfford(c)
      BY <1>1, <3>2 DEF Withdraw, Declined
    <3> QED BY <3>1, <3>2
  <2> QED BY <2>1, <2>2, <2>3, SyncedType
<1>2. CASE Apply(c)
  <2>1. phase[c] = "ask" /\ UNCHANGED <<now, accountLock, votes, sync>>
    BY <1>2 DEF Apply
  <2>2. Recorded(c, log[Home[c]]) \/ Duplicated(c, log[Home[c]])
    BY <1>2, RecordEffect DEF Apply
  <2>3. log[Home[c]] = MergeEvents(log[Home[c]], {}) /\ log[Home[c]] \in SUBSET Event
    BY MergeNothing, HomeIsNode DEF Types
  <2> QED BY <2>1, <2>2, <2>3 DEF Locks
<1> QED BY <1>1, <1>2

\* A call that tells others has an event to tell.
LEMMA ToldExists ==
  ASSUME NEW c \in Calls, Types, Checkpoints, phase[c] = "tell"
  PROVE  Told(c) \in log[Home[c]] /\ Told(c) \in Event
<1>1. \E e \in log[Home[c]] : e.id = checkpoint[Home[c]].last
  BY HomeIsNode DEF Checkpoints, CheckpointCoversOwnEvents, Own
<1> QED BY <1>1, HomeIsNode DEF Told, Types

-----------------------------------------------------------------------------
(* Types.                                                                  *)

\* How a call ends at home keeps the types.
LEMMA FinishTypes ==
  ASSUME Types, Locks, NEW c \in Calls, Withdraw(c) \/ Apply(c)
  PROVE  Types'
<1>1. PICK remote \in SUBSET sync[c].fetched, known \in SUBSET Event :
        /\ Recorded(c, known) \/ Duplicated(c, known) \/ Declined(c, known)
        /\ UNCHANGED <<now, accountLock, votes, sync>>
  BY FinishEffect
<1>2. Home[c] \in Nodes /\ Peers(Home[c]) \in SUBSET Nodes
  BY HomeIsNode DEF Peers
<1>3. NextStamp(Home[c]) \in [ms : Nat, counter : Nat] /\ Withdrawal(c) \in Event
  BY <1>2, NextStampType, NewEventType
<1>4. CASE Recorded(c, known)
  <2>1. /\ generator' \in [Nodes -> [ms : Nat, counter : Nat]]
        /\ log' \in [Nodes -> SUBSET Event] /\ DOMAIN checkpoint' = Nodes
        /\ phase' \in [Calls -> Phases] /\ todo' \in [Calls -> SUBSET Nodes]
        /\ UNCHANGED lock
    BY <1>2, <1>3, <1>4 DEF Recorded, Types, Phases
  <2> QED BY <1>1, <2>1 DEF Types
<1>5. CASE Duplicated(c, known)
  <2>1. /\ generator' \in [Nodes -> [ms : Nat, counter : Nat]]
        /\ log' \in [Nodes -> SUBSET Event]
        /\ phase' \in [Calls -> Phases] /\ lock' \in [Nodes -> Calls \cup {NoCall}]
        /\ UNCHANGED <<checkpoint, todo>>
    BY <1>2, <1>3, <1>5 DEF Duplicated, Types, Phases, Unlock
  <2> QED BY <1>1, <2>1 DEF Types
<1>6. CASE Declined(c, known)
  <2>1. /\ log' \in [Nodes -> SUBSET Event]
        /\ phase' \in [Calls -> Phases] /\ lock' \in [Nodes -> Calls \cup {NoCall}]
        /\ UNCHANGED <<generator, checkpoint, todo>>
    BY <1>2, <1>6 DEF Declined, Types, Phases, Unlock
  <2> QED BY <1>1, <2>1 DEF Types
<1> QED BY <1>1, <1>4, <1>5, <1>6

\* Every step keeps the types.
LEMMA TypesStep == Types /\ Locks /\ Checkpoints /\ [Next]_vars => Types'
<1> SUFFICES ASSUME Types, Locks, Checkpoints, [Next]_vars PROVE Types'
  OBVIOUS
<1> USE HomeIsNode
<1>1. ASSUME NEW c \in Calls, BeginPlain(c) PROVE Types'
  <2>1. [at |-> Home[c], toRead |-> Peers(Home[c]), fetched |-> {}] \in Syncs
    BY DEF Syncs, Peers
  <2> QED BY <1>1, <2>1 DEF BeginPlain, StartSync, Types, nodeVars, Phases
<1>2. ASSUME NEW c \in Calls, BeginQuorum(c) PROVE Types'
  <2>1. CASE accountLock[Home[c]] = NoCall
    <3>1. /\ lock' = [lock EXCEPT ![Home[c]] = c]
          /\ accountLock' = [accountLock EXCEPT ![Home[c]] = c]
          /\ phase' = [phase EXCEPT ![c] = "ask"]
          /\ todo' = [todo EXCEPT ![c] = Nodes]
          /\ UNCHANGED <<now, nodeVars, votes, sync>>
      BY <1>2, <2>1 DEF BeginQuorum
    <3>2. /\ lock' \in [Nodes -> Calls \cup {NoCall}] /\ todo' \in [Calls -> SUBSET Nodes]
          /\ accountLock' \in [Nodes -> Calls \cup {NoCall}] /\ phase' \in [Calls -> Phases]
      BY <3>1 DEF Types, Phases
    <3> QED BY <3>1, <3>2 DEF Types, nodeVars
  <2>2. CASE accountLock[Home[c]] # NoCall
    BY <1>2, <2>2 DEF BeginQuorum, Types, nodeVars, Phases
  <2> QED BY <2>1, <2>2
<1>3. ASSUME NEW c \in Calls, BeginTimeout(c) PROVE Types'
  BY <1>3 DEF BeginTimeout, Types, nodeVars, Phases
<1>4. ASSUME NEW c \in Calls, Withdraw(c) \/ Apply(c) PROVE Types'
  BY <1>4, FinishTypes
<1>5. ASSUME NEW c \in Calls, Vote(c) PROVE Types'
  <2>1. PICK n \in Nodes : n = sync[c].at
    BY SyncedType
  <2>2. PICK v \in {"accept", "reject"} : votes' = [votes EXCEPT ![c][n] = v]
    BY <1>5, <2>1 DEF Vote
  <2>3. votes' \in [Calls -> [Nodes -> {"none", "accept", "reject"}]]
    BY <2>2 DEF Types
  <2>4. /\ log' = [log EXCEPT ![n] = Synced(c)]
        /\ todo' = [todo EXCEPT ![c] = @ \ {n}]
        /\ UNCHANGED lock \/ Unlock(n)
        /\ phase' = [phase EXCEPT ![c] = "ask"]
        /\ UNCHANGED <<now, generator, checkpoint, accountLock, sync>>
    BY <1>5, <2>1 DEF Vote
  <2>5. /\ log' \in [Nodes -> SUBSET Event] /\ todo' \in [Calls -> SUBSET Nodes]
        /\ lock' \in [Nodes -> Calls \cup {NoCall}] /\ phase' \in [Calls -> Phases]
    BY <2>4, SyncedType DEF Types, Phases, Unlock
  <2> QED BY <2>3, <2>4, <2>5 DEF Types
<1>6. ASSUME NEW c \in Calls, Reject(c) PROVE Types'
  BY <1>6 DEF Reject, Unlock, Types, nodeVars, Phases
<1>7. ASSUME NEW c \in Calls, End(c) PROVE Types'
  <2>1. accountLock' \in [Nodes -> Calls \cup {NoCall}]
    BY <1>7 DEF End, Types
  <2> QED BY <1>7, <2>1 DEF End, Unlock, Types, nodeVars, Phases
<1>8. ASSUME NEW c \in Calls, NEW n \in Nodes, SyncEvents(c, n) PROVE Types'
  <2>1. /\ UNCHANGED <<now, nodeVars, lock, accountLock, votes, phase, todo>>
        /\ \E s \in Syncs : sync' = [sync EXCEPT ![c] = s]
    BY <1>8, SyncEffect
  <2>2. sync' \in [Calls -> Syncs]
    BY <2>1 DEF Types
  <2> QED BY <2>1, <2>2 DEF Types, nodeVars
<1>9. ASSUME NEW c \in Calls, NEW n \in Nodes, VoteEnter(c, n) PROVE Types'
  <2>1. [at |-> n, toRead |-> Peers(n), fetched |-> {}] \in Syncs
    BY DEF Syncs, Peers
  <2> QED BY <1>9, <2>1 DEF VoteEnter, StartSync, Types, nodeVars, Phases
<1>10. ASSUME NEW c \in Calls, NEW n \in Nodes, VoteTimeout(c, n) PROVE Types'
  BY <1>10 DEF VoteTimeout, Types, nodeVars
<1>11. ASSUME NEW c \in Calls, NEW n \in Nodes, Propagate(c, n) PROVE Types'
  <2>1. Told(c) \in Event
    BY <1>11, ToldExists DEF Propagate
  <2>2. log' \in [Nodes -> SUBSET Event]
    BY <1>11, <2>1 DEF Propagate, AddEvent, Types
  <2> QED BY <1>11, <2>2 DEF Propagate, Types
<1>12. ASSUME NEW c \in Calls, NEW n \in Nodes, PropagateTimeout(c, n) PROVE Types'
  BY <1>12 DEF PropagateTimeout, Types, nodeVars
<1>13. ASSUME NEW d \in Deposits, Deposit(d) PROVE Types'
  <2> DEFINE event == NewEvent(d.node, "deposit", d.amount, d.rid)
  <2>1. event \in Event /\ d.node \in Nodes
    BY NewEventType, CallsAssumption
  <2> HIDE DEF event
  <2>2. /\ log' = [log EXCEPT ![d.node] = AddEvent(@, event)]
        /\ generator' = [generator EXCEPT ![d.node] = NextStamp(d.node)]
        /\ DOMAIN checkpoint' = DOMAIN checkpoint
        /\ UNCHANGED <<now, lock, accountLock, votes, phase, todo, sync>>
    BY <1>13 DEF Deposit, event
  <2>3. log' \in [Nodes -> SUBSET Event] /\ generator' \in [Nodes -> [ms : Nat, counter : Nat]]
    BY <2>1, <2>2, NextStampType DEF AddEvent, Types
  <2> QED BY <2>2, <2>3 DEF Types
<1>14. ASSUME NEW n \in Nodes, GetBalance(n) PROVE Types'
  <2>1. log' \in [Nodes -> SUBSET Event]
    BY <1>14, FetchedType, MergeBounds DEF GetBalance, Types
  <2> QED BY <1>14, <2>1 DEF GetBalance, Types
<1>15. CASE Tick
  BY <1>15 DEF Tick, Types, nodeVars
<1>16. CASE UNCHANGED vars
  BY <1>16 DEF vars, Types
<1> QED
  BY <1>1, <1>2, <1>3, <1>4, <1>5, <1>6, <1>7, <1>8, <1>9, <1>10, <1>11, <1>12, <1>13,
     <1>14, <1>15, <1>16 DEF Next, Step

-----------------------------------------------------------------------------
(* Locks and accounts.                                                     *)

\* Steps that leave the locks, the phases and where calls are synchronizing.
LEMMA LocksFrame ==
  ASSUME Types, Locks, Accounts, UNCHANGED <<lock, accountLock, phase>>,
         \A c \in Calls : sync'[c].at = sync[c].at
  PROVE  Locks' /\ Accounts'
<1>1. \A n \in Nodes : lock[n] # NoCall => lock[n] \in Calls
  BY DEF Types
<1> QED BY <1>1 DEF Locks, Accounts, AccountLockTellsTheCall, Running

\* A call that leaves its node, with the account if it has it, or with a duplicate.
LEMMA LeaveHome ==
  ASSUME Types, Locks, Accounts, NEW c \in Calls, Running(c),
         NEW p \in {"applied", "rejected", "duplicate"},
         phase[c] = "sync" => Kind[c] = "plain",
         phase' = [phase EXCEPT ![c] = p], Unlock(Home[c]), UNCHANGED sync,
         \/ UNCHANGED accountLock /\ (p # "duplicate" => Kind[c] = "plain")
         \/ accountLock' = [accountLock EXCEPT ![Home[c]] = NoCall] /\ Kind[c] = "quorum"
  PROVE  Locks' /\ Accounts'
<1> USE HomeIsNode
<1>1. lock' = [lock EXCEPT ![Home[c]] = NoCall] /\ lock[Home[c]] = c
  BY DEF Unlock, Locks
<1>2. \A b \in Calls : b # c => phase'[b] = phase[b] /\ (Running(b)' <=> Running(b))
  BY DEF Types, Running
<1>3. phase'[c] = p /\ ~Running(c)'
  BY DEF Types, Running
<1>4. \A n \in Nodes : n # Home[c] => lock'[n] = lock[n] /\ lock[n] # c
  BY <1>1 DEF Locks, Types
<1>5. \A b \in Calls : b # c /\ Running(b) => Home[b] # Home[c]
  BY <1>1 DEF Locks
<1>6. Locks'
  <2>1. \A b \in Calls : Running(b)' => lock'[Home[b]] = b
    BY <1>2, <1>3, <1>4, <1>5 DEF Locks
  <2>2. \A b \in Calls : phase'[b] = "sync" =>
          lock'[sync'[b].at] = b /\ (Kind[b] = "plain" => sync'[b].at = Home[b])
    BY <1>1, <1>2, <1>3, <1>4 DEF Locks, Types, Syncs
  <2>3. \A b \in Calls : phase'[b] = "ask" => Kind[b] = "quorum"
    BY <1>2, <1>3 DEF Locks
  <2>4. ASSUME NEW n \in Nodes, lock'[n] # NoCall
        PROVE  /\ Running(lock[n])'
               /\ n = Home[lock'[n]] \/ (phase'[lock'[n]] = "sync" /\ sync'[lock'[n]].at = n)
    <3>1. n # Home[c] /\ lock'[n] = lock[n] /\ lock[n] # c /\ lock[n] \in Calls
      BY <1>1, <1>4, <2>4 DEF Types
    <3> QED BY <1>2, <2>4, <3>1 DEF Locks
  <2> QED BY <2>1, <2>2, <2>3, <2>4 DEF Locks
<1>7. Accounts'
  <2>1. ASSUME NEW n \in Nodes, accountLock'[n] # NoCall
        PROVE  /\ lock'[n] = accountLock'[n] \/ phase'[accountLock'[n]] = "duplicate"
               /\ Kind[accountLock'[n]] = "quorum" /\ Home[accountLock'[n]] = n
    <3>1. accountLock'[n] = accountLock[n] /\ accountLock[n] \in Calls
      BY <2>1 DEF Types
    <3>2. Kind[accountLock[n]] = "quorum" /\ Home[accountLock[n]] = n
      BY <2>1, <3>1 DEF Accounts
    <3>3. lock[n] = accountLock[n] \/ phase[accountLock[n]] = "duplicate"
      BY <2>1, <3>1 DEF Accounts, AccountLockTellsTheCall
    <3>4. CASE n # Home[c]
      BY <1>2, <1>4, <3>1, <3>2, <3>3, <3>4
    <3>5. CASE n = Home[c]
      <4>1. UNCHANGED accountLock /\ (p # "duplicate" => Kind[c] = "plain")
        BY <2>1, <3>5 DEF Types
      <4>2. CASE accountLock[n] = c
        BY <1>3, <3>1, <3>2, <4>1, <4>2
      <4>3. CASE accountLock[n] # c
        BY <1>1, <1>2, <3>1, <3>2, <3>3, <3>5, <4>3
      <4> QED BY <4>2, <4>3
    <3> QED BY <3>4, <3>5
  <2>2. ASSUME NEW b \in Calls, Kind[b] = "quorum", phase'[b] \in {"ask", "sync", "tell"}
        PROVE  accountLock'[Home[b]] = b
    <3>1. b # c /\ phase[b] \in {"ask", "sync", "tell"} /\ Home[b] # Home[c]
      BY <1>2, <1>3, <1>5, <2>2 DEF Running
    <3>2. accountLock[Home[b]] = b
      BY <2>2, <3>1 DEF Accounts, AccountLockTellsTheCall
    <3> QED BY <3>1, <3>2 DEF Types
  <2> QED BY <2>1, <2>2 DEF Accounts, AccountLockTellsTheCall
<1> QED BY <1>6, <1>7

\* A call that is not started, or is told that it cannot.
LEMMA RefuseLocks ==
  ASSUME Types, Locks, Accounts, NEW c \in Calls, phase[c] = "new",
         phase' = [phase EXCEPT ![c] = "refused"], UNCHANGED <<lock, accountLock, sync>>
  PROVE  Locks' /\ Accounts'
<1> USE HomeIsNode
<1>1. phase'[c] = "refused" /\ \A b \in Calls : b # c => phase'[b] = phase[b]
  BY DEF Types
<1>2. \A n \in Nodes : lock[n] # c
  BY DEF Types, Locks, Running
<1>3. \A n \in Nodes : lock[n] # NoCall => lock[n] \in Calls /\ lock[n] # c
  BY <1>2 DEF Types
<1>4. \A n \in Nodes : accountLock[n] # NoCall => accountLock[n] \in Calls
  BY DEF Types
<1>5. Locks'
  BY <1>1, <1>3 DEF Locks, Running
<1>6. Accounts'
  BY <1>1, <1>2, <1>4 DEF Accounts, AccountLockTellsTheCall
<1> QED BY <1>5, <1>6

\* withdraw takes the lock of its node.
LEMMA BeginPlainLocks ==
  ASSUME Types, Locks, Accounts, NEW c \in Calls, BeginPlain(c)
  PROVE  Locks' /\ Accounts'
<1> USE HomeIsNode
<1> DEFINE h == Home[c]
<1>1. /\ phase[c] = "new" /\ Kind[c] = "plain" /\ lock[h] = NoCall
      /\ lock' = [lock EXCEPT ![h] = c]
      /\ phase' = [phase EXCEPT ![c] = "sync"]
      /\ sync' = [sync EXCEPT ![c] = [at |-> h, toRead |-> Peers(h), fetched |-> {}]]
      /\ UNCHANGED accountLock
  BY DEF BeginPlain, StartSync
<1>2. /\ phase'[c] = "sync" /\ sync'[c].at = h /\ lock'[h] = c
      /\ \A b \in Calls : b # c => phase'[b] = phase[b] /\ sync'[b] = sync[b]
      /\ \A n \in Nodes : n # h => lock'[n] = lock[n]
  BY <1>1 DEF Types
<1>3. \A n \in Nodes : lock[n] # c
  BY <1>1 DEF Types, Locks, Running
<1>4. \A b \in Calls : Running(b) => Home[b] # h /\ b # c
  BY <1>1 DEF Locks, Running
<1>5. \A b \in Calls : phase[b] = "sync" => sync[b].at # h /\ b # c
  BY <1>1 DEF Locks
<1>6. \A b \in Calls : sync[b].at \in Nodes
  BY DEF Types, Syncs
<1>7. \A n \in Nodes : lock[n] # NoCall => lock[n] \in Calls /\ lock[n] # c
  BY <1>3 DEF Types
<1> HIDE DEF h
<1>8. Locks'
  <2>1. \A b \in Calls : Running(b)' => lock'[Home[b]] = b
    BY <1>2, <1>4 DEF Locks, Running, h
  <2>2. \A b \in Calls : phase'[b] = "sync" =>
          lock'[sync'[b].at] = b /\ (Kind[b] = "plain" => sync'[b].at = Home[b])
    BY <1>2, <1>5, <1>6 DEF Locks, h
  <2>3. \A b \in Calls : phase'[b] = "ask" => Kind[b] = "quorum"
    BY <1>2 DEF Locks
  <2>4. ASSUME NEW n \in Nodes, lock'[n] # NoCall
        PROVE  /\ Running(lock[n])'
               /\ n = Home[lock'[n]] \/ (phase'[lock'[n]] = "sync" /\ sync'[lock'[n]].at = n)
    <3>1. CASE n = h
      BY <1>2, <3>1 DEF Running, h
    <3>2. CASE n # h
      <4>1. lock'[n] = lock[n] /\ lock[n] \in Calls /\ lock[n] # c
        BY <1>2, <1>7, <2>4, <3>2
      <4> QED BY <1>2, <2>4, <4>1 DEF Locks, Running
    <3> QED BY <3>1, <3>2
  <2> QED BY <2>1, <2>2, <2>3, <2>4 DEF Locks
<1>9. Accounts'
  <2>1. \A n \in Nodes : accountLock[n] # NoCall => accountLock[n] \in Calls
    BY DEF Types
  <2>2. \A n \in Nodes : accountLock[n] # NoCall =>
          lock'[n] = accountLock[n] \/ phase'[accountLock[n]] = "duplicate"
    BY <1>1, <1>2, <2>1 DEF Accounts, AccountLockTellsTheCall
  <2>3. \A b \in Calls : Kind[b] = "quorum" /\ phase'[b] \in {"ask", "sync", "tell"} =>
          accountLock[Home[b]] = b
    BY <1>1, <1>2 DEF Accounts, AccountLockTellsTheCall
  <2> QED BY <1>1, <2>2, <2>3 DEF Accounts, AccountLockTellsTheCall
<1> QED BY <1>8, <1>9

\* p2p_withdraw takes the lock and the account of its node.
LEMMA BeginQuorumLocks ==
  ASSUME Types, Locks, Accounts, NEW c \in Calls, BeginQuorum(c),
         accountLock[Home[c]] = NoCall
  PROVE  Locks' /\ Accounts'
<1> USE HomeIsNode
<1> DEFINE h == Home[c]
<1>1. /\ phase[c] = "new" /\ Kind[c] = "quorum" /\ lock[h] = NoCall
      /\ lock' = [lock EXCEPT ![h] = c]
      /\ accountLock' = [accountLock EXCEPT ![h] = c]
      /\ phase' = [phase EXCEPT ![c] = "ask"]
      /\ UNCHANGED sync
  BY DEF BeginQuorum
<1>2. /\ phase'[c] = "ask" /\ lock'[h] = c /\ accountLock'[h] = c
      /\ \A b \in Calls : b # c => phase'[b] = phase[b]
      /\ \A n \in Nodes : n # h => lock'[n] = lock[n] /\ accountLock'[n] = accountLock[n]
  BY <1>1 DEF Types
<1>3. \A n \in Nodes : lock[n] # NoCall => lock[n] \in Calls /\ lock[n] # c
  BY <1>1 DEF Types, Locks, Running
<1>4. \A b \in Calls : Running(b) => Home[b] # h /\ b # c
  BY <1>1 DEF Locks, Running
<1>5. \A b \in Calls : phase[b] = "sync" => sync[b].at # h /\ b # c
  BY <1>1 DEF Locks
<1>6. \A b \in Calls : sync[b].at \in Nodes
  BY DEF Types, Syncs
<1> HIDE DEF h
<1>7. Locks'
  <2>1. \A b \in Calls : Running(b)' => lock'[Home[b]] = b
    BY <1>2, <1>4 DEF Locks, Running, h
  <2>2. \A b \in Calls : phase'[b] = "sync" =>
          lock'[sync'[b].at] = b /\ (Kind[b] = "plain" => sync'[b].at = Home[b])
    BY <1>1, <1>2, <1>5, <1>6 DEF Locks
  <2>3. \A b \in Calls : phase'[b] = "ask" => Kind[b] = "quorum"
    BY <1>1, <1>2 DEF Locks
  <2>4. ASSUME NEW n \in Nodes, lock'[n] # NoCall
        PROVE  /\ Running(lock[n])'
               /\ n = Home[lock'[n]] \/ (phase'[lock'[n]] = "sync" /\ sync'[lock'[n]].at = n)
    <3>1. CASE n = h
      BY <1>2, <3>1 DEF Running, h
    <3>2. CASE n # h
      <4>1. lock'[n] = lock[n] /\ lock[n] \in Calls /\ lock[n] # c
        BY <1>2, <1>3, <2>4, <3>2
      <4> QED BY <1>1, <1>2, <2>4, <4>1 DEF Locks, Running
    <3> QED BY <3>1, <3>2
  <2> QED BY <2>1, <2>2, <2>3, <2>4 DEF Locks
<1>8. Accounts'
  <2>1. ASSUME NEW n \in Nodes, accountLock'[n] # NoCall
        PROVE  /\ lock'[n] = accountLock'[n] \/ phase'[accountLock'[n]] = "duplicate"
               /\ Kind[accountLock'[n]] = "quorum" /\ Home[accountLock'[n]] = n
    <3>1. CASE n = h
      BY <1>1, <1>2, <3>1 DEF h
    <3>2. CASE n # h
      <4>1. accountLock'[n] = accountLock[n] /\ accountLock[n] \in Calls /\ accountLock[n] # NoCall
        BY <1>2, <2>1, <3>2 DEF Types
      <4>2. /\ Kind[accountLock[n]] = "quorum" /\ Home[accountLock[n]] = n
            /\ lock[n] = accountLock[n] \/ phase[accountLock[n]] = "duplicate"
        BY <4>1 DEF Accounts, AccountLockTellsTheCall
      <4>3. accountLock[n] # c
        BY <3>2, <4>2 DEF h
      <4> QED BY <1>2, <3>2, <4>1, <4>2, <4>3
    <3> QED BY <3>1, <3>2
  <2>2. ASSUME NEW b \in Calls, Kind[b] = "quorum", phase'[b] \in {"ask", "sync", "tell"}
        PROVE  accountLock'[Home[b]] = b
    <3>1. CASE b = c
      BY <1>2, <3>1 DEF h
    <3>2. CASE b # c
      <4>1. phase[b] \in {"ask", "sync", "tell"} /\ Home[b] # h
        BY <1>2, <1>4, <2>2, <3>2 DEF Running
      <4> QED BY <1>2, <2>2, <4>1 DEF Accounts, AccountLockTellsTheCall
    <3> QED BY <3>1, <3>2
  <2> QED BY <2>1, <2>2 DEF Accounts, AccountLockTellsTheCall
<1> QED BY <1>7, <1>8

\* A voter's lock is taken, and the call synchronizes there.
LEMMA VoteEnterLocks ==
  ASSUME Types, Locks, Accounts, NEW c \in Calls, NEW n \in Nodes, VoteEnter(c, n)
  PROVE  Locks' /\ Accounts'
<1> USE HomeIsNode
<1>1. /\ phase[c] = "ask" /\ lock[n] \in {NoCall, c}
      /\ lock' = [lock EXCEPT ![n] = c]
      /\ phase' = [phase EXCEPT ![c] = "sync"]
      /\ sync' = [sync EXCEPT ![c] = [at |-> n, toRead |-> Peers(n), fetched |-> {}]]
      /\ UNCHANGED accountLock
  BY DEF VoteEnter, StartSync, MayEnter
<1>2. Kind[c] = "quorum" /\ lock[Home[c]] = c /\ accountLock[Home[c]] = c
  BY <1>1 DEF Locks, Running, Accounts, AccountLockTellsTheCall
<1>3. /\ phase'[c] = "sync" /\ sync'[c].at = n /\ lock'[n] = c
      /\ \A b \in Calls : b # c => phase'[b] = phase[b] /\ sync'[b] = sync[b]
      /\ \A m \in Nodes : m # n => lock'[m] = lock[m]
  BY <1>1 DEF Types
<1>4. \A b \in Calls : b # c /\ Running(b) => Home[b] # n
  BY <1>1 DEF Locks
<1>5. \A b \in Calls : b # c /\ phase[b] = "sync" => sync[b].at # n /\ sync[b].at \in Nodes
  BY <1>1 DEF Locks, Types, Syncs
<1>6. Locks'
  <2>1. \A b \in Calls : Running(b)' => lock'[Home[b]] = b
    BY <1>2, <1>3, <1>4 DEF Locks, Running
  <2>2. \A b \in Calls : phase'[b] = "sync" =>
          lock'[sync'[b].at] = b /\ (Kind[b] = "plain" => sync'[b].at = Home[b])
    BY <1>2, <1>3, <1>5 DEF Locks
  <2>3. \A b \in Calls : phase'[b] = "ask" => Kind[b] = "quorum"
    BY <1>3 DEF Locks
  <2>4. ASSUME NEW m \in Nodes, lock'[m] # NoCall
        PROVE  /\ Running(lock[m])'
               /\ m = Home[lock'[m]] \/ (phase'[lock'[m]] = "sync" /\ sync'[lock'[m]].at = m)
    <3>1. CASE m = n
      BY <1>3, <3>1 DEF Running
    <3>2. CASE m # n
      <4>1. lock'[m] = lock[m] /\ lock[m] \in Calls
        BY <1>3, <2>4, <3>2 DEF Types
      <4>2. lock[m] = c => m = Home[c]
        BY <1>1, <4>1 DEF Locks
      <4> QED BY <1>3, <2>4, <4>1, <4>2 DEF Locks, Running
    <3> QED BY <3>1, <3>2
  <2> QED BY <2>1, <2>2, <2>3, <2>4 DEF Locks
<1>7. Accounts'
  <2>1. ASSUME NEW m \in Nodes, accountLock[m] # NoCall
        PROVE  lock'[m] = accountLock[m] \/ phase'[accountLock[m]] = "duplicate"
    <3>1. accountLock[m] \in Calls
      BY <2>1 DEF Types
    <3>2. lock[m] = accountLock[m] \/ phase[accountLock[m]] = "duplicate"
      BY <2>1 DEF Accounts, AccountLockTellsTheCall
    <3>3. lock[m] = accountLock[m] => lock'[m] = lock[m]
      BY <1>1, <1>3, <2>1
    <3>4. phase[accountLock[m]] = "duplicate" => phase'[accountLock[m]] = "duplicate"
      BY <1>1, <1>3, <3>1
    <3> QED BY <3>2, <3>3, <3>4
  <2>2. \A b \in Calls : Kind[b] = "quorum" /\ phase'[b] \in {"ask", "sync", "tell"} =>
          accountLock[Home[b]] = b
    BY <1>2, <1>3 DEF Accounts, AccountLockTellsTheCall
  <2> QED BY <1>1, <2>1, <2>2 DEF Accounts, AccountLockTellsTheCall
<1> QED BY <1>6, <1>7

\* The voter's lock is given back; the call's own node keeps its lock.
LEMMA VoteLocks ==
  ASSUME Types, Locks, Accounts, NEW c \in Calls, Vote(c)
  PROVE  Locks' /\ Accounts'
<1> USE HomeIsNode
<1>1. PICK n \in Nodes : n = sync[c].at
  BY SyncedType
<1>2. /\ phase[c] = "sync" /\ Kind[c] = "quorum" /\ lock[n] = c
      /\ phase' = [phase EXCEPT ![c] = "ask"]
      /\ UNCHANGED <<accountLock, sync>>
      /\ IF n = Home[c] THEN UNCHANGED lock ELSE Unlock(n)
  BY <1>1 DEF Vote, Locks
<1>3. lock[Home[c]] = c /\ accountLock[Home[c]] = c
  BY <1>2 DEF Locks, Running, Accounts, AccountLockTellsTheCall
<1>4. /\ phase'[c] = "ask"
      /\ \A b \in Calls : b # c => phase'[b] = phase[b]
      /\ \A m \in Nodes : m # n \/ n = Home[c] => lock'[m] = lock[m]
      /\ n # Home[c] => lock'[n] = NoCall
  BY <1>2 DEF Types, Unlock
<1>5. \A b \in Calls : b # c /\ Running(b) => Home[b] # n
  BY <1>2 DEF Locks
<1>6. \A b \in Calls : b # c /\ phase[b] = "sync" => sync[b].at # n /\ sync[b].at \in Nodes
  BY <1>2 DEF Locks, Types, Syncs
<1>7. Locks'
  <2>1. \A b \in Calls : Running(b)' => lock'[Home[b]] = b
    BY <1>3, <1>4, <1>5 DEF Locks, Running
  <2>2. \A b \in Calls : phase'[b] = "sync" =>
          lock'[sync'[b].at] = b /\ (Kind[b] = "plain" => sync'[b].at = Home[b])
    BY <1>2, <1>4, <1>6 DEF Locks
  <2>3. \A b \in Calls : phase'[b] = "ask" => Kind[b] = "quorum"
    BY <1>2, <1>4 DEF Locks
  <2>4. ASSUME NEW m \in Nodes, lock'[m] # NoCall
        PROVE  /\ Running(lock[m])'
               /\ m = Home[lock'[m]] \/ (phase'[lock'[m]] = "sync" /\ sync'[lock'[m]].at = m)
    <3>1. lock'[m] = lock[m] /\ lock[m] \in Calls /\ (m = n => n = Home[c])
      BY <1>4, <2>4 DEF Types
    <3>2. lock[m] = c => m = Home[c]
      BY <1>1, <3>1 DEF Locks
    <3> QED BY <1>2, <1>4, <2>4, <3>1, <3>2 DEF Locks, Running
  <2> QED BY <2>1, <2>2, <2>3, <2>4 DEF Locks
<1>8. Accounts'
  <2>1. ASSUME NEW m \in Nodes, accountLock[m] # NoCall
        PROVE  lock'[m] = accountLock[m] \/ phase'[accountLock[m]] = "duplicate"
    <3>1. accountLock[m] \in Calls
      BY <2>1 DEF Types
    <3>2. /\ lock[m] = accountLock[m] \/ phase[accountLock[m]] = "duplicate"
          /\ Home[accountLock[m]] = m
      BY <2>1 DEF Accounts, AccountLockTellsTheCall
    <3>3. lock[m] = accountLock[m] => lock'[m] = lock[m]
      BY <1>2, <1>4, <3>2
    <3>4. phase[accountLock[m]] = "duplicate" => phase'[accountLock[m]] = "duplicate"
      BY <1>2, <1>4, <3>1
    <3> QED BY <3>2, <3>3, <3>4
  <2>2. \A b \in Calls : Kind[b] = "quorum" /\ phase'[b] \in {"ask", "sync", "tell"} =>
          accountLock[Home[b]] = b
    BY <1>3, <1>4 DEF Accounts, AccountLockTellsTheCall
  <2> QED BY <1>2, <2>1, <2>2 DEF Accounts, AccountLockTellsTheCall
<1> QED BY <1>7, <1>8

\* A call that tells others, or leaves.
LEMMA FinishLocks ==
  ASSUME Types, Locks, Accounts, NEW c \in Calls, Withdraw(c) \/ Apply(c)
  PROVE  Locks' /\ Accounts'
<1>1. PICK remote \in SUBSET sync[c].fetched, known \in SUBSET Event :
        \/ Recorded(c, known) \/ Duplicated(c, known)
        \/ Declined(c, known) /\ Kind[c] = "plain"
  BY FinishEffect
<1>2. /\ UNCHANGED <<accountLock, sync>>
      /\ \/ phase[c] = "sync" /\ Kind[c] = "plain"
         \/ phase[c] = "ask" /\ Kind[c] = "quorum"
  BY FinishEffect
<1>3. Running(c) /\ (phase[c] = "sync" => Kind[c] = "plain")
  BY <1>2 DEF Running
<1>4. CASE Recorded(c, known)
  <2>1. phase' = [phase EXCEPT ![c] = "tell"] /\ UNCHANGED lock
    BY <1>4 DEF Recorded
  <2>2. phase'[c] = "tell" /\ \A b \in Calls : b # c => phase'[b] = phase[b]
    BY <2>1 DEF Types
  <2>3. \A n \in Nodes : lock[n] = c => n = Home[c]
    BY <1>2, HomeIsNode DEF Locks
  <2>4. \A n \in Nodes : /\ lock[n] # NoCall => lock[n] \in Calls
                         /\ accountLock[n] # NoCall => accountLock[n] \in Calls
    BY DEF Types
  <2>5. Locks'
    BY <1>2, <1>3, <2>1, <2>2, <2>3, <2>4 DEF Locks, Running
  <2>6. Accounts'
    BY <1>2, <2>1, <2>2, <2>4 DEF Accounts, AccountLockTellsTheCall
  <2> QED BY <2>5, <2>6
<1>5. CASE Duplicated(c, known)
  BY <1>2, <1>3, <1>5, LeaveHome DEF Duplicated
<1>6. CASE Declined(c, known) /\ Kind[c] = "plain"
  BY <1>2, <1>3, <1>6, LeaveHome DEF Declined
<1> QED BY <1>1, <1>4, <1>5, <1>6

\* Every step keeps the locks and the accounts.
LEMMA LocksStep ==
  Types /\ Locks /\ Accounts /\ [Next]_vars => Locks' /\ Accounts'
<1> SUFFICES ASSUME Types, Locks, Accounts, [Next]_vars PROVE Locks' /\ Accounts'
  OBVIOUS
<1>1. ASSUME NEW c \in Calls, BeginQuorum(c) PROVE Locks' /\ Accounts'
  <2>1. CASE accountLock[Home[c]] = NoCall
    BY <1>1, <2>1, BeginQuorumLocks
  <2>2. CASE accountLock[Home[c]] # NoCall
    BY <1>1, <2>2, RefuseLocks DEF BeginQuorum
  <2> QED BY <2>1, <2>2
<1>2. ASSUME NEW c \in Calls, BeginTimeout(c) PROVE Locks' /\ Accounts'
  BY <1>2, RefuseLocks DEF BeginTimeout
<1>3. ASSUME NEW c \in Calls, Reject(c) PROVE Locks' /\ Accounts'
  <2>1. /\ phase[c] = "ask" /\ phase' = [phase EXCEPT ![c] = "rejected"]
        /\ accountLock' = [accountLock EXCEPT ![Home[c]] = NoCall]
        /\ Unlock(Home[c]) /\ UNCHANGED sync
    BY <1>3 DEF Reject
  <2>2. Running(c) /\ Kind[c] = "quorum"
    BY <2>1 DEF Running, Locks
  <2> QED BY <2>1, <2>2, LeaveHome
<1>4. ASSUME NEW c \in Calls, End(c) PROVE Locks' /\ Accounts'
  <2>1. /\ phase[c] = "tell" /\ phase' = [phase EXCEPT ![c] = "applied"]
        /\ Unlock(Home[c]) /\ UNCHANGED sync /\ Running(c)
    BY <1>4 DEF End, Running
  <2>2. CASE Kind[c] = "quorum"
    BY <1>4, <2>1, <2>2, LeaveHome DEF End
  <2>3. CASE Kind[c] # "quorum"
    <3>1. Kind[c] = "plain" /\ UNCHANGED accountLock
      BY <1>4, <2>3, CallsAssumption DEF End
    <3> QED BY <2>1, <3>1, LeaveHome
  <2> QED BY <2>2, <2>3
<1>5. ASSUME NEW c \in Calls, NEW n \in Nodes, SyncEvents(c, n) PROVE Locks' /\ Accounts'
  <2>1. PICK s \in Syncs : s.at = sync[c].at /\ sync' = [sync EXCEPT ![c] = s]
    BY <1>5, SyncEffect
  <2>2. \A b \in Calls : sync'[b].at = sync[b].at
    BY <2>1 DEF Types
  <2> QED BY <1>5, <2>2, SyncEffect, LocksFrame
<1>6. ASSUME NEW c \in Calls, NEW n \in Nodes,
             VoteTimeout(c, n) \/ Propagate(c, n) \/ PropagateTimeout(c, n)
      PROVE  Locks' /\ Accounts'
  BY <1>6, LocksFrame DEF VoteTimeout, Propagate, PropagateTimeout
<1>7. ASSUME NEW d \in Deposits, Deposit(d) PROVE Locks' /\ Accounts'
  BY <1>7, LocksFrame DEF Deposit
<1>8. ASSUME NEW n \in Nodes, GetBalance(n) PROVE Locks' /\ Accounts'
  BY <1>8, LocksFrame DEF GetBalance
<1>9. CASE Tick \/ UNCHANGED vars
  BY <1>9, LocksFrame DEF Tick, vars
<1> QED
  BY <1>1, <1>2, <1>3, <1>4, <1>5, <1>6, <1>7, <1>8, <1>9, BeginPlainLocks,
     VoteEnterLocks, VoteLocks, FinishLocks DEF Next, Step

-----------------------------------------------------------------------------
(* What a step does to the logs, the checkpoints and the generators.       *)

\* The node's generator gives out an id.
Advances(n) ==
  /\ generator' = [generator EXCEPT ![n] = NextStamp(n)]
  /\ NextStamp(n).counter <= MaxPerMs + Cardinality(Spent')

\* The node adds some of the events remote to its log.
Merging(n, remote) ==
  /\ \A e \in remote : Present(e)
  /\ log' = [log EXCEPT ![n] = MergeEvents(log[n], remote)]
  /\ UNCHANGED checkpoint
  /\ UNCHANGED generator \/ Advances(n)

\* And makes an event.
Creating(n, remote, e) ==
  /\ \A f \in remote : Present(f)
  /\ Accepts(MergeEvents(log[n], remote), e)
  /\ e.node = n /\ e.id = EventId(n)
  /\ log' = [log EXCEPT ![n] = MergeEvents(log[n], remote) \cup {e}]
  /\ \/ /\ e.type = "deposit"
        /\ checkpoint' = [checkpoint EXCEPT ![n] = Deposited(checkpoint[n], e)]
     \/ /\ e.type = "withdraw"
        /\ \E balance :
             checkpoint' = [checkpoint EXCEPT ![n] = Withdrawn(checkpoint[n], e, balance)]
  /\ Advances(n)

DataStep ==
  \/ UNCHANGED nodeVars
  \/ \E n \in Nodes, remote \in SUBSET Event : Merging(n, remote)
  \/ \E n \in Nodes, remote \in SUBSET Event, e \in Event : Creating(n, remote, e)

\* Only events of a log are fetched.
FetchStep == \A c \in Calls : \A e \in sync'[c].fetched : Present(e)

\* A call that has had an id does not give it back.
LEMMA SpentGrows == Types /\ Locks /\ [Next]_vars => Spent \subseteq Spent'
<1> SUFFICES ASSUME Types, Locks, [Next]_vars PROVE Spent \subseteq Spent'
  OBVIOUS
<1>1. ASSUME NEW c \in Calls, NEW p \in Phases,
             phase[c] \notin {"tell", "applied", "duplicate"},
             phase' = [phase EXCEPT ![c] = p]
      PROVE  Spent \subseteq Spent'
  BY <1>1 DEF Spent, Types
<1>2. ASSUME NEW c \in Calls, BeginPlain(c) PROVE Spent \subseteq Spent'
  BY <1>1, <1>2 DEF BeginPlain, StartSync, Phases
<1>3. ASSUME NEW c \in Calls, BeginQuorum(c) PROVE Spent \subseteq Spent'
  BY <1>1, <1>3 DEF BeginQuorum, Phases
<1>4. ASSUME NEW c \in Calls, BeginTimeout(c) PROVE Spent \subseteq Spent'
  BY <1>1, <1>4 DEF BeginTimeout, Phases
<1>5. ASSUME NEW c \in Calls, Withdraw(c) \/ Apply(c) PROVE Spent \subseteq Spent'
  <2>1. phase[c] \in {"sync", "ask"}
    BY <1>5 DEF Withdraw, Apply
  <2>2. \E p \in Phases : phase' = [phase EXCEPT ![c] = p]
    BY <1>5, FinishEffect DEF Recorded, Duplicated, Declined, Phases
  <2> QED BY <1>1, <2>1, <2>2
<1>6. ASSUME NEW c \in Calls, Vote(c) PROVE Spent \subseteq Spent'
  BY <1>1, <1>6 DEF Vote, Phases
<1>7. ASSUME NEW c \in Calls, Reject(c) PROVE Spent \subseteq Spent'
  BY <1>1, <1>7 DEF Reject, Phases
<1>8. ASSUME NEW c \in Calls, End(c) PROVE Spent \subseteq Spent'
  BY <1>8 DEF End, Spent, Types
<1>9. ASSUME NEW c \in Calls, NEW n \in Nodes, VoteEnter(c, n) PROVE Spent \subseteq Spent'
  BY <1>1, <1>9 DEF VoteEnter, StartSync, Phases
<1>10. ASSUME UNCHANGED phase PROVE Spent \subseteq Spent'
  BY <1>10 DEF Spent
<1> QED
  BY <1>2, <1>3, <1>4, <1>5, <1>6, <1>7, <1>8, <1>9, <1>10
  DEF Next, Step, SyncEvents, VoteTimeout, Propagate, PropagateTimeout, Deposit,
      GetBalance, Tick, vars

\* A call that takes an id is one more.
LEMMA SpentByFinish ==
  ASSUME Types, Counters, NEW c \in Calls, phase[c] \in {"sync", "ask"},
         NEW p \in {"tell", "duplicate"}, phase' = [phase EXCEPT ![c] = p],
         generator' = [generator EXCEPT ![Home[c]] = NextStamp(Home[c])]
  PROVE  Advances(Home[c])
<1>1. Spent' = Spent \cup {c} /\ c \notin Spent
  BY DEF Spent, Types
<1>2. IsFiniteSet(Spent)
  <2>1. Spent \in SUBSET Calls
    BY DEF Spent
  <2> QED BY <2>1, FS_Subset, SlotsSuffice
<1>3. Cardinality(Spent') = Cardinality(Spent) + 1
  BY <1>1, <1>2, FS_AddElement
<1>4. /\ generator[Home[c]].counter \in Nat
      /\ generator[Home[c]].counter <= MaxPerMs + Cardinality(Spent)
      /\ NextStamp(Home[c]).counter \in {0, generator[Home[c]].counter + 1}
  BY HomeIsNode, NextStampType DEF Counters, Types
<1>5. Cardinality(Spent) \in Nat /\ MaxPerMs \in Nat
  BY SlotsSuffice, CallsAssumption
<1> QED BY <1>3, <1>4, <1>5 DEF Advances

\* How a call ends at home, for the data.
LEMMA FinishData ==
  ASSUME Types, Locks, Counters, NEW c \in Calls, Withdraw(c) \/ Apply(c)
  PROVE  DataStep
<1>1. PICK remote \in SUBSET sync[c].fetched, known \in SUBSET Event :
        /\ known = MergeEvents(log[Home[c]], remote)
        /\ Recorded(c, known) \/ Duplicated(c, known) \/ Declined(c, known)
  BY FinishEffect
<1>2. phase[c] \in {"sync", "ask"}
  BY FinishEffect
<1>3. Home[c] \in Nodes /\ remote \in SUBSET Event /\ \A e \in remote : Present(e)
  BY HomeIsNode, SyncedType DEF Present
<1>4. CASE Recorded(c, known)
  <2>1. /\ Withdrawal(c) \in Event /\ Withdrawal(c).type = "withdraw"
        /\ Withdrawal(c).node = Home[c] /\ Withdrawal(c).id = EventId(Home[c])
    BY NewEventType DEF Withdrawal, NewEvent
  <2>2. Advances(Home[c])
    BY <1>2, <1>4, SpentByFinish DEF Recorded
  <2>3. Creating(Home[c], remote, Withdrawal(c))
    BY <1>1, <1>3, <1>4, <2>1, <2>2 DEF Recorded, Creating
  <2> QED BY <1>3, <2>1, <2>3 DEF DataStep
<1>5. CASE Duplicated(c, known)
  <2>1. Advances(Home[c])
    BY <1>2, <1>5, SpentByFinish DEF Duplicated
  <2>2. Merging(Home[c], remote)
    BY <1>1, <1>3, <1>5, <2>1 DEF Duplicated, Merging
  <2> QED BY <1>3, <2>2 DEF DataStep
<1>6. CASE Declined(c, known)
  <2>1. Merging(Home[c], remote)
    BY <1>1, <1>3, <1>6 DEF Declined, Merging
  <2> QED BY <1>3, <2>1 DEF DataStep
<1> QED BY <1>1, <1>4, <1>5, <1>6

\* A deposit, for the data.
LEMMA DepositData ==
  ASSUME Types, NEW d \in Deposits, Deposit(d)
  PROVE  DataStep
<1> DEFINE n == d.node
           event == NewEvent(n, "deposit", d.amount, d.rid)
<1>1. /\ n \in Nodes /\ event \in Event /\ event.type = "deposit"
      /\ event.node = n /\ event.id = EventId(n)
  BY NewEventType, CallsAssumption DEF NewEvent
<1>2. /\ NextStamp(n).counter <= MaxPerMs
      /\ log' = [log EXCEPT ![n] = AddEvent(log[n], event)]
      /\ checkpoint' = IF Accepts(log[n], event)
                         THEN [checkpoint EXCEPT ![n] = Deposited(checkpoint[n], event)]
                         ELSE checkpoint
      /\ generator' = [generator EXCEPT ![n] = NextStamp(n)]
      /\ UNCHANGED phase
  BY DEF Deposit
<1> HIDE DEF event, n
<1>3. Advances(n)
  <2>1. Cardinality(Spent') = Cardinality(Spent)
    BY <1>2 DEF Spent
  <2>2. Cardinality(Spent) \in Nat /\ MaxPerMs \in Nat /\ NextStamp(n).counter \in Nat
    BY <1>1, SlotsSuffice, CallsAssumption, NextStampType
  <2> QED BY <1>2, <2>1, <2>2 DEF Advances
<1>4. MergeEvents(log[n], {}) = log[n] /\ {} \in SUBSET Event
  BY MergeNothing
<1>5. CASE Accepts(log[n], event)
  <2>1. Creating(n, {}, event)
    BY <1>1, <1>2, <1>3, <1>4, <1>5 DEF Creating, AddEvent
  <2> QED BY <1>1, <1>4, <2>1 DEF DataStep
<1>6. CASE ~Accepts(log[n], event)
  <2>1. Merging(n, {})
    BY <1>1, <1>2, <1>3, <1>4, <1>6 DEF Merging, AddEvent
  <2> QED BY <1>1, <1>4, <2>1 DEF DataStep
<1> QED BY <1>5, <1>6

\* Every step is one of the three.
LEMMA DataSteps ==
  Types /\ Locks /\ Counters /\ Checkpoints /\ [Next]_vars => DataStep /\ FetchStep
<1> SUFFICES ASSUME Types, Locks, Counters, Checkpoints, [Next]_vars
             PROVE  DataStep /\ FetchStep
  OBVIOUS
<1>1. ASSUME UNCHANGED sync PROVE FetchStep
  BY <1>1 DEF FetchStep, Present
<1>2. ASSUME NEW c \in Calls, NEW n \in Nodes, StartSync(c, n) PROVE FetchStep
  <2>1. /\ sync'[c].fetched = {}
        /\ \A b \in Calls : b # c => sync'[b] = sync[b]
    BY <1>2 DEF StartSync, Types
  <2> QED BY <2>1 DEF FetchStep, Present
<1>3. ASSUME UNCHANGED nodeVars PROVE DataStep
  BY <1>3 DEF DataStep
<1>4. ASSUME NEW c \in Calls, NEW m \in Nodes, SyncEvents(c, m)
      PROVE  DataStep /\ FetchStep
  <2>1. PICK s \in Syncs : /\ s.fetched \subseteq sync[c].fetched \cup log[m]
                           /\ sync' = [sync EXCEPT ![c] = s]
    BY <1>4, SyncEffect
  <2>2. sync'[c] = s /\ \A b \in Calls : b # c => sync'[b] = sync[b]
    BY <2>1 DEF Types
  <2>3. FetchStep
    BY <2>1, <2>2 DEF FetchStep, Present
  <2> QED BY <1>3, <1>4, <2>3, SyncEffect
<1>5. ASSUME NEW c \in Calls, Vote(c) PROVE DataStep
  <2>1. PICK n \in Nodes : n = sync[c].at
    BY SyncedType
  <2>2. /\ log' = [log EXCEPT ![n] = MergeEvents(log[n], sync[c].fetched)]
        /\ UNCHANGED <<checkpoint, generator>>
    BY <1>5, <2>1 DEF Vote, Synced
  <2>3. Merging(n, sync[c].fetched)
    BY <2>2 DEF Merging, Present
  <2> QED BY <2>3, SyncedType DEF DataStep
<1>6. ASSUME NEW c \in Calls, NEW n \in Nodes, Propagate(c, n) PROVE DataStep
  <2>1. Told(c) \in log[Home[c]] /\ Told(c) \in Event
    BY <1>6, ToldExists DEF Propagate
  <2>2. log' = [log EXCEPT ![n] = MergeEvents(log[n], {Told(c)})]
    <3>1. log[n] \in SUBSET Event
      BY DEF Types
    <3>2. AddEvent(log[n], Told(c)) = MergeEvents(log[n], {Told(c)})
      BY <2>1, <3>1, AddIsMerge
    <3> QED BY <1>6, <3>2 DEF Propagate
  <2>3. Merging(n, {Told(c)})
    BY <1>6, <2>1, <2>2, HomeIsNode DEF Merging, Present, Propagate
  <2>4. {Told(c)} \in SUBSET Event
    BY <2>1
  <2> QED BY <2>3, <2>4 DEF DataStep
<1>7. ASSUME NEW n \in Nodes, GetBalance(n) PROVE DataStep
  <2> DEFINE remote == UNION {GetEventsAfter(log[m], checkpoint[n].last) : m \in Peers(n)}
  <2>1. remote \in SUBSET Event /\ \A e \in remote : Present(e)
    BY FetchedType
  <2>2. /\ log' = [log EXCEPT ![n] = MergeEvents(log[n], remote)]
        /\ UNCHANGED <<checkpoint, generator>>
    BY <1>7 DEF GetBalance
  <2> HIDE DEF remote
  <2>3. Merging(n, remote)
    BY <2>1, <2>2 DEF Merging
  <2> QED BY <2>1, <2>3 DEF DataStep
<1>8. ASSUME NEW c \in Calls, Withdraw(c) \/ Apply(c) PROVE DataStep /\ FetchStep
  BY <1>1, <1>8, FinishData, FinishEffect
<1>9. ASSUME NEW c \in Calls,
             \/ BeginPlain(c) \/ BeginQuorum(c) \/ BeginTimeout(c) \/ Reject(c) \/ End(c)
      PROVE  DataStep /\ FetchStep
  <2>1. UNCHANGED nodeVars
    BY <1>9 DEF BeginPlain, BeginQuorum, BeginTimeout, Reject, End
  <2>2. CASE BeginPlain(c)
    BY <1>2, <1>3, <2>1, <2>2, HomeIsNode DEF BeginPlain
  <2>3. CASE ~BeginPlain(c)
    BY <1>1, <1>3, <1>9, <2>1, <2>3 DEF BeginQuorum, BeginTimeout, Reject, End
  <2> QED BY <2>2, <2>3
<1>10. ASSUME NEW c \in Calls, NEW n \in Nodes,
              VoteEnter(c, n) \/ VoteTimeout(c, n) \/ PropagateTimeout(c, n)
       PROVE  DataStep /\ FetchStep
  BY <1>1, <1>2, <1>3, <1>10 DEF VoteEnter, VoteTimeout, PropagateTimeout
<1>11. ASSUME NEW d \in Deposits, Deposit(d) PROVE DataStep /\ FetchStep
  BY <1>1, <1>11, DepositData DEF Deposit
<1>12. CASE Tick \/ UNCHANGED vars
  BY <1>1, <1>3, <1>12 DEF Tick, vars, nodeVars
<1>13. ASSUME NEW c \in Calls, Vote(c) PROVE FetchStep
  BY <1>1, <1>13 DEF Vote
<1>14. ASSUME NEW c \in Calls, NEW n \in Nodes, Propagate(c, n) PROVE FetchStep
  BY <1>1, <1>14 DEF Propagate
<1>15. ASSUME NEW n \in Nodes, GetBalance(n) PROVE FetchStep
  BY <1>1, <1>15 DEF GetBalance
<1> QED
  BY <1>4, <1>5, <1>6, <1>7, <1>8, <1>9, <1>10, <1>11, <1>12, <1>13, <1>14, <1>15
  DEF Next, Step

\* Every step keeps the counters below the bound.
LEMMA CountersStep ==
  Types /\ Locks /\ Counters /\ Checkpoints /\ Types' /\ [Next]_vars => Counters'
<1> SUFFICES ASSUME Types, Types', Locks, Counters, Checkpoints, [Next]_vars
             PROVE  Counters'
  OBVIOUS
<1>1. now \in Nat /\ now' \in Nat /\ now <= now'
  <2>1. ASSUME NEW c \in Calls, Withdraw(c) \/ Apply(c) PROVE now' = now
    BY <2>1, FinishEffect
  <2>2. ASSUME NEW c \in Calls, NEW m \in Nodes, SyncEvents(c, m) PROVE now' = now
    BY <2>2, SyncEffect
  <2>3. now' = now \/ now' = now + 1
    BY <2>1, <2>2
    DEF Next, Step, BeginPlain, BeginQuorum, BeginTimeout, Vote, Reject, End, VoteEnter,
        VoteTimeout, Propagate, PropagateTimeout, Deposit, GetBalance, Tick, vars
  <2> QED BY <2>3 DEF Types
<1>2. /\ Cardinality(Spent) \in Nat /\ Cardinality(Spent') \in Nat
      /\ Cardinality(Spent) <= Cardinality(Spent')
  <2>1. Spent \subseteq Spent' /\ Spent' \subseteq Calls
    BY SpentGrows DEF Spent
  <2>2. IsFiniteSet(Spent')
    BY <2>1, SlotsSuffice, FS_Subset
  <2> QED BY <2>1, <2>2, FS_Subset, FS_CardinalityType
<1>3. MaxPerMs \in Nat
  BY CallsAssumption
<1>4. ASSUME NEW n \in Nodes, Advances(n) PROVE Counters'
  <2>1. generator'[n] = NextStamp(n) /\ \A m \in Nodes : m # n => generator'[m] = generator[m]
    BY <1>4 DEF Advances, Types
  <2>2. NextStamp(n).ms = now /\ NextStamp(n).counter <= MaxPerMs + Cardinality(Spent')
    BY <1>4, NextStampType DEF Advances
  <2>3. \A m \in Nodes : /\ generator[m].ms \in Nat /\ generator[m].counter \in Nat
                         /\ generator[m].ms <= now
                         /\ generator[m].counter <= MaxPerMs + Cardinality(Spent)
    BY DEF Types, Counters
  <2>4. ASSUME NEW m \in Nodes
        PROVE  /\ generator'[m].ms <= now'
               /\ generator'[m].counter <= MaxPerMs + Cardinality(Spent')
    <3>1. CASE m = n
      BY <1>1, <2>1, <2>2, <3>1
    <3>2. CASE m # n
      BY <1>1, <1>2, <1>3, <2>1, <2>3, <3>2
    <3> QED BY <3>1, <3>2
  <2> QED BY <2>4 DEF Counters
<1>5. ASSUME UNCHANGED generator PROVE Counters'
  <2>1. \A m \in Nodes : /\ generator[m].ms \in Nat /\ generator[m].counter \in Nat
                         /\ generator[m].ms <= now
                         /\ generator[m].counter <= MaxPerMs + Cardinality(Spent)
    BY DEF Types, Counters
  <2>2. \A m \in Nodes : /\ generator[m].ms <= now'
                         /\ generator[m].counter <= MaxPerMs + Cardinality(Spent')
    BY <1>1, <1>2, <1>3, <2>1
  <2> QED BY <1>5, <2>2 DEF Counters
<1> QED BY <1>4, <1>5, DataSteps DEF DataStep, Merging, Creating, nodeVars

-----------------------------------------------------------------------------
(* Events.                                                                 *)

\* The counter of a generator that gives out an id has not wrapped.
LEMMA CounterFits ==
  ASSUME Types, Types', NEW n \in Nodes, Advances(n)
  PROVE  NextStamp(n).counter \in 0..(Slots - 1)
<1>1. Spent' \subseteq Calls
  BY DEF Spent
<1>2. IsFiniteSet(Spent') /\ Cardinality(Spent') <= Cardinality(Calls)
  BY <1>1, SlotsSuffice, FS_Subset
<1>3. Cardinality(Spent') \in Nat /\ Cardinality(Calls) \in Nat /\ MaxPerMs \in Nat
  BY <1>2, SlotsSuffice, CallsAssumption, FS_CardinalityType
<1>4. NextStamp(n).counter \in Nat
  BY NextStampType
<1>5. Slots \in Nat /\ Slots > MaxPerMs + Cardinality(Calls)
  BY HashAssumption, IdsAssumption
<1> QED BY <1>2, <1>3, <1>4, <1>5 DEF Advances

\* So the id is larger than every id the node gave out, and no other node's.
LEMMA NewIdIsNew ==
  ASSUME Types, Types', Origins, Counters, NEW n \in Nodes, Advances(n),
         NEW f \in Event, Present(f)
  PROVE  f.id # EventId(n) /\ (f.node = n => f.id < EventId(n))
<1> DEFINE k == NextStamp(n).counter
<1>1. k \in 0..(Slots - 1) /\ k % Slots = k
  <2>1. k \in 0..(Slots - 1)
    BY CounterFits
  <2> HIDE DEF k
  <2>2. k % Slots = k
    BY <2>1, SlotsSuffice
  <2> QED BY <2>1, <2>2
<1>2. EventId(n) = Stamp(n, now, k)
  BY <1>1, NextStampType DEF EventId, IdOf, Stamp
<1>3. PICK ms \in Nat, j \in 0..(Slots - 1) :
        /\ f.id = Stamp(f.node, ms, j)
        /\ \/ ms < generator[f.node].ms
           \/ ms = generator[f.node].ms /\ j <= generator[f.node].counter
  BY DEF Origins, Stamped
<1>4. f.node \in Nodes /\ f.id \in Nat /\ now \in Nat /\ EventId(n) \in Nat
  BY NextStampType DEF Event, Types
<1>5. ASSUME f.node = n PROVE f.id < EventId(n)
  <2>1. /\ generator[n].ms \in Nat /\ generator[n].counter \in Nat
        /\ generator[n].ms <= now
        /\ now = generator[n].ms => k = generator[n].counter + 1
    BY NextStampType DEF Types, Counters
  <2>2. ms < now \/ (ms = now /\ j < k)
    BY <1>3, <1>4, <1>5, <2>1
  <2>3. Stamp(n, ms, j) < Stamp(n, now, k)
    BY <1>1, <1>4, <2>2, StampsGrow
  <2> QED BY <1>2, <1>3, <1>5, <2>3
<1>6. ASSUME f.node # n PROVE f.id # EventId(n)
  <2>1. Stamp(f.node, ms, j) # Stamp(n, now, k)
    BY <1>1, <1>4, <1>6, StampsTellNodes
  <2> QED BY <1>2, <1>3, <2>1
<1> HIDE DEF k
<1> QED BY <1>4, <1>5, <1>6

\* An id that was given out stays so when time passes.
LEMMA StampedStays ==
  ASSUME Types, Types', Counters, UNCHANGED generator \/ \E n \in Nodes : Advances(n),
         NEW e \in Event, Stamped(e)
  PROVE  Stamped(e)'
<1>1. PICK ms \in Nat, j \in 0..(Slots - 1) :
        /\ e.id = Stamp(e.node, ms, j)
        /\ \/ ms < generator[e.node].ms
           \/ ms = generator[e.node].ms /\ j <= generator[e.node].counter
  BY DEF Stamped
<1>2. \/ ms < generator'[e.node].ms
      \/ ms = generator'[e.node].ms /\ j <= generator'[e.node].counter
  <2>1. CASE UNCHANGED generator
    BY <1>1, <2>1
  <2>2. ASSUME NEW n \in Nodes, Advances(n)
        PROVE  \/ ms < generator'[e.node].ms
               \/ ms = generator'[e.node].ms /\ j <= generator'[e.node].counter
    <3>1. CASE e.node # n
      BY <1>1, <2>2, <3>1 DEF Advances, Types
    <3>2. CASE e.node = n
      <4>1. generator'[n] = NextStamp(n)
        BY <2>2 DEF Advances, Types
      <4>2. /\ generator[n].ms \in Nat /\ generator[n].counter \in Nat
            /\ generator[n].ms <= now /\ now \in Nat
            /\ NextStamp(n).ms = now
            /\ now = generator[n].ms => NextStamp(n).counter = generator[n].counter + 1
        BY NextStampType DEF Types, Counters
      <4> QED BY <1>1, <3>2, <4>1, <4>2
    <3> QED BY <3>1, <3>2
  <2> QED BY <2>1, <2>2
<1> QED BY <1>1, <1>2 DEF Stamped, Stamp

\* The own events of a node are not touched by what others send: they are there.
LEMMA MergeKeepsOwn ==
  ASSUME Types, Origins, NEW n \in Nodes, NEW remote \in SUBSET Event,
         \A e \in remote : Present(e)
  PROVE  /\ \A e \in MergeEvents(log[n], remote) : e \in Event /\ Present(e)
         /\ \A e \in MergeEvents(log[n], remote) : e.node = n => e \in log[n]
         /\ log[n] \subseteq MergeEvents(log[n], remote)
<1>1. \A e \in MergeEvents(log[n], remote) : e \in Event /\ Present(e)
  BY MergeBounds DEF Types, Present
<1>2. \A e \in MergeEvents(log[n], remote) : e.node = n => e \in log[n]
  BY <1>1 DEF Origins
<1> QED BY <1>1, <1>2, MergeBounds

\* The own events of every node stay, or one node has one more; and its logs gain
\* only what there was before, but for that one.
KeepsOwn ==
  /\ \A m \in Nodes : Own(m)' = Own(m) /\ log[m] \subseteq log'[m]
  /\ \A m \in Nodes : \A e \in log'[m] : e \in Event /\ Present(e)
  /\ UNCHANGED checkpoint
  /\ UNCHANGED generator \/ \E n \in Nodes : Advances(n)

AddsOwn(n, new) ==
  /\ \E remote \in SUBSET Event : Creating(n, remote, new)
  /\ Own(n)' = Own(n) \cup {new} /\ new \notin Own(n)
  /\ \A m \in Nodes \ {n} : Own(m)' = Own(m)
  /\ \A m \in Nodes : log[m] \subseteq log'[m]
  /\ \A m \in Nodes : \A e \in log'[m] : e # new => e \in Event /\ Present(e)

\* The three kinds of steps are two for the own events of the nodes.
LEMMA OwnStep ==
  ASSUME Types, Types', Origins, Counters, DataStep
  PROVE  KeepsOwn \/ \E n \in Nodes, new \in Event : AddsOwn(n, new)
<1>1. CASE UNCHANGED nodeVars
  BY <1>1 DEF nodeVars, Own, Types, Present, KeepsOwn
<1>2. ASSUME NEW n \in Nodes, NEW remote \in SUBSET Event, Merging(n, remote)
      PROVE  KeepsOwn
  <2>1. /\ log'[n] = MergeEvents(log[n], remote)
        /\ \A m \in Nodes : m # n => log'[m] = log[m]
    BY <1>2 DEF Merging, Types
  <2>2. /\ \A e \in log'[n] : e \in Event /\ Present(e)
        /\ \A e \in log'[n] : e.node = n => e \in log[n]
        /\ log[n] \subseteq log'[n]
    <3>1. \A e \in remote : Present(e)
      BY <1>2 DEF Merging
    <3>2. /\ \A e \in MergeEvents(log[n], remote) : e \in Event /\ Present(e)
          /\ \A e \in MergeEvents(log[n], remote) : e.node = n => e \in log[n]
          /\ log[n] \subseteq MergeEvents(log[n], remote)
      BY <3>1, MergeKeepsOwn
    <3> QED BY <2>1, <3>2
  <2>3. \A m \in Nodes : \A e \in log[m] : e \in Event /\ Present(e)
    BY DEF Types, Present
  <2>4. \A m \in Nodes : Own(m)' = Own(m) /\ log[m] \subseteq log'[m]
    BY <2>1, <2>2 DEF Own
  <2> QED BY <1>2, <2>1, <2>2, <2>3, <2>4 DEF Merging, KeepsOwn
<1>3. ASSUME NEW n \in Nodes, NEW remote \in SUBSET Event, NEW new \in Event,
             Creating(n, remote, new)
      PROVE  AddsOwn(n, new)
  <2> DEFINE known == MergeEvents(log[n], remote)
  <2>1. /\ log'[n] = known \cup {new} /\ new.node = n
        /\ \A m \in Nodes : m # n => log'[m] = log[m]
    BY <1>3 DEF Creating, Types
  <2>2. /\ \A e \in known : e \in Event /\ Present(e)
        /\ \A e \in known : e.node = n => e \in log[n]
        /\ log[n] \subseteq known
    BY <1>3, MergeKeepsOwn DEF Creating
  <2>3. new \notin known
    BY <1>3 DEF Creating, Accepts
  <2>4. \A m \in Nodes : \A e \in log[m] : e \in Event /\ Present(e)
    BY DEF Types, Present
  <2> HIDE DEF known
  <2>5. Own(n)' = Own(n) \cup {new} /\ new \notin Own(n)
    BY <2>1, <2>2, <2>3 DEF Own
  <2>6. \A m \in Nodes \ {n} : Own(m)' = Own(m)
    BY <2>1 DEF Own
  <2>7. \A m \in Nodes : log[m] \subseteq log'[m]
    BY <2>1, <2>2
  <2>8. \A m \in Nodes : \A e \in log'[m] : e # new => e \in Event /\ Present(e)
    BY <2>1, <2>2, <2>4
  <2> QED BY <1>3, <2>5, <2>6, <2>7, <2>8 DEF AddsOwn
<1> QED BY <1>1, <1>2, <1>3 DEF DataStep

\* Every step keeps the origins.
LEMMA OriginsStep ==
  ASSUME Types, Types', Origins, Counters, DataStep, FetchStep
  PROVE  Origins'
<1>1. CASE KeepsOwn
  <2> USE DEF KeepsOwn
  <2>1. ASSUME NEW e \in Event, Present(e)' PROVE e \in log'[e.node] /\ Stamped(e)'
    <3>1. Present(e)
      BY <1>1, <2>1 DEF Present, FetchStep
    <3>2. e \in log[e.node] /\ Stamped(e) /\ e.node \in Nodes
      BY <3>1 DEF Origins, Event
    <3> QED BY <1>1, <3>2, StampedStays
  <2>2. \A n \in Nodes : \A e, f \in Own(n)' : e.id = f.id => e = f
    BY <1>1 DEF Origins
  <2> QED BY <2>1, <2>2 DEF Origins
<1>2. ASSUME NEW n \in Nodes, NEW new \in Event, AddsOwn(n, new)
      PROVE  Origins'
  <2> USE DEF AddsOwn
  <2>1. Advances(n) /\ new.node = n /\ new.id = EventId(n)
    BY <1>2 DEF Creating
  <2>2. new \in log'[n]
    BY <1>2 DEF Own
  <2>3. Stamped(new)'
    <3> DEFINE k == NextStamp(n).counter
    <3>1. k \in 0..(Slots - 1) /\ k % Slots = k
      <4>1. k \in 0..(Slots - 1)
        BY <2>1, CounterFits
      <4> HIDE DEF k
      <4>2. k % Slots = k
        BY <4>1, SlotsSuffice
      <4> QED BY <4>1, <4>2
    <3>2. new.id = Stamp(n, now, k)
      BY <2>1, <3>1, NextStampType DEF EventId, IdOf, Stamp
    <3>3. generator'[n].ms = now /\ generator'[n].counter = k
      BY <2>1, NextStampType DEF Advances, Types
    <3>4. now \in Nat /\ k <= k
      BY <3>1 DEF Types
    <3> HIDE DEF k
    <3> QED BY <2>1, <3>1, <3>2, <3>3, <3>4 DEF Stamped, Stamp
  <2>4. ASSUME NEW e \in Event, Present(e)' PROVE e \in log'[e.node] /\ Stamped(e)'
    <3>1. CASE e = new
      BY <2>1, <2>2, <2>3, <3>1
    <3>2. CASE e # new
      <4>1. Present(e)
        BY <1>2, <2>4, <3>2 DEF Present, FetchStep
      <4>2. e \in log[e.node] /\ Stamped(e) /\ e.node \in Nodes
        BY <4>1 DEF Origins, Event
      <4> QED BY <1>2, <2>1, <4>2, StampedStays
    <3> QED BY <3>1, <3>2
  <2>5. ASSUME NEW m \in Nodes, NEW e \in Own(m)', NEW f \in Own(m)', e.id = f.id
        PROVE  e = f
    <3>1. ASSUME NEW g \in Own(n) PROVE g.id # new.id
      <4>1. g \in Event /\ Present(g)
        BY DEF Own, Types, Present
      <4> QED BY <2>1, <4>1, NewIdIsNew
    <3>2. CASE m # n
      BY <1>2, <2>5, <3>2 DEF Origins
    <3>3. CASE m = n
      BY <1>2, <2>5, <3>1, <3>3 DEF Origins
    <3> QED BY <3>2, <3>3
  <2> QED BY <2>4, <2>5 DEF Origins
<1> QED BY <1>1, <1>2, OwnStep

\* Merging keeps requests apart: the events of one request that others may send were
\* made by one node, whose log has one of them.
LEMMA MergeKeepsRequests ==
  ASSUME Types, Origins, OneEventPerRequest, NEW n \in Nodes,
         NEW remote \in SUBSET Event, \A e \in remote : Present(e),
         NEW e \in MergeEvents(log[n], remote), NEW f \in MergeEvents(log[n], remote),
         e.rid = f.rid, e.rid # NoRequest
  PROVE  e = f
<1>1. CASE e \in log[n] /\ f \in log[n]
  BY <1>1 DEF OneEventPerRequest
<1>2. CASE e \in log[n] /\ f \notin log[n]
  BY <1>2 DEF MergeEvents, Accepts
<1>3. CASE e \notin log[n] /\ f \in log[n]
  BY <1>3 DEF MergeEvents, Accepts
<1>4. CASE e \notin log[n] /\ f \notin log[n]
  <2>1. e \in remote /\ f \in remote /\ e.id <= f.id /\ f.id <= e.id
    BY <1>4 DEF MergeEvents
  <2>2. e.id = f.id /\ e.node \in Nodes /\ f.node \in Nodes
    BY <2>1 DEF Event
  <2>3. e \in log[e.node] /\ f \in log[f.node] /\ Stamped(e) /\ Stamped(f)
    BY <2>1 DEF Origins
  <2>4. e.node = f.node
    <3>1. PICK a \in Nat, j \in 0..(Slots - 1) : e.id = Stamp(e.node, a, j)
      BY <2>3 DEF Stamped
    <3>2. PICK b \in Nat, k \in 0..(Slots - 1) : f.id = Stamp(f.node, b, k)
      BY <2>3 DEF Stamped
    <3>3. Stamp(e.node, a, j) = Stamp(f.node, b, k)
      BY <2>2, <3>1, <3>2
    <3> HIDE DEF Stamp
    <3> QED BY <2>2, <3>3, StampsTellNodes
  <2> QED BY <2>2, <2>3, <2>4 DEF OneEventPerRequest
<1> QED BY <1>1, <1>2, <1>3, <1>4

\* Every step keeps requests apart.
LEMMA RequestsStep ==
  ASSUME Types, Types', Origins, OneEventPerRequest, DataStep
  PROVE  OneEventPerRequest'
<1>1. CASE UNCHANGED nodeVars
  BY <1>1 DEF nodeVars, OneEventPerRequest
<1>2. ASSUME NEW n \in Nodes, NEW remote \in SUBSET Event, Merging(n, remote)
      PROVE  OneEventPerRequest'
  <2>1. /\ log'[n] = MergeEvents(log[n], remote)
        /\ \A m \in Nodes : m # n => log'[m] = log[m]
        /\ \A e \in remote : Present(e)
    BY <1>2 DEF Merging, Types
  <2>2. \A e, f \in log'[n] : e.rid = f.rid /\ e.rid # NoRequest => e = f
    <3> SUFFICES ASSUME NEW e \in MergeEvents(log[n], remote),
                        NEW f \in MergeEvents(log[n], remote),
                        e.rid = f.rid, e.rid # NoRequest
                 PROVE  e = f
      BY <2>1
    <3> QED BY <2>1, MergeKeepsRequests
  <2> QED BY <2>1, <2>2 DEF OneEventPerRequest
<1>3. ASSUME NEW n \in Nodes, NEW remote \in SUBSET Event, NEW new \in Event,
             Creating(n, remote, new)
      PROVE  OneEventPerRequest'
  <2> DEFINE known == MergeEvents(log[n], remote)
  <2>1. /\ log'[n] = known \cup {new} /\ Accepts(known, new)
        /\ \A m \in Nodes : m # n => log'[m] = log[m]
        /\ \A e \in remote : Present(e)
    BY <1>3 DEF Creating, Types
  <2>2. \A e, f \in known : e.rid = f.rid /\ e.rid # NoRequest => e = f
    BY <2>1, MergeKeepsRequests
  <2> HIDE DEF known
  <2>3. \A e, f \in log'[n] : e.rid = f.rid /\ e.rid # NoRequest => e = f
    BY <2>1, <2>2 DEF Accepts
  <2> QED BY <2>1, <2>3 DEF OneEventPerRequest
<1> QED BY <1>1, <1>2, <1>3 DEF DataStep

-----------------------------------------------------------------------------
(* Checkpoints, and refused calls.                                         *)

\* One more event adds its amount to the total of its type, and to no other.
LEMMA TotalAdd ==
  ASSUME NEW S \in SUBSET Event, IsFiniteSet(S), NEW new \in Event, new \notin S,
         NEW type \in EventTypes
  PROVE  Total(S \cup {new}, type)
           = Total(S, type) + (IF new.type = type THEN new.amount ELSE 0)
<1> DEFINE T == {e \in S : e.type = type}
<1>1. IsFiniteSet(T) /\ new \notin T /\ \A e \in T \cup {new} : e.amount \in Int
  <2>1. IsFiniteSet(T)
    BY FS_Subset
  <2> QED BY <2>1 DEF Event
<1>2. Total(S, type) = AmountSum(T)
  BY DEF Total, AmountSum
<1>3. CASE new.type = type
  <2>1. {e \in S \cup {new} : e.type = type} = T \cup {new}
    BY <1>3
  <2>2. Total(S \cup {new}, type) = AmountSum({e \in S \cup {new} : e.type = type})
    BY DEF Total, AmountSum
  <2> HIDE DEF T
  <2>3. AmountSum(T \cup {new}) = AmountSum(T) + new.amount
    BY <1>1, AmountsAdd
  <2> QED BY <1>2, <1>3, <2>1, <2>2, <2>3
<1>4. CASE new.type # type
  <2>1. {e \in S \cup {new} : e.type = type} = T
    BY <1>4
  <2>2. Total(S \cup {new}, type) = AmountSum({e \in S \cup {new} : e.type = type})
    BY DEF Total, AmountSum
  <2> HIDE DEF T
  <2>3. AmountSum(T) \in Int
    <3>1. IsFiniteSet(T) /\ \A e \in T : e.amount \in Int
      BY <1>1
    <3> QED BY <3>1, AmountsInt
  <2>4. Total(S \cup {new}, type) = AmountSum(T)
    BY <2>1, <2>2
  <2>5. Total(S \cup {new}, type) = Total(S, type) + 0
    BY <1>2, <2>3, <2>4
  <2> QED BY <1>4, <2>5
<1> QED BY <1>3, <1>4

\* Only a withdrawal at home makes a call tell others, or fail as a duplicate.
LEMMA Finishers ==
  ASSUME Types, Locks, [Next]_vars, NEW c \in Calls, phase'[c] # phase[c],
         phase'[c] \in {"tell", "duplicate"}
  PROVE  Withdraw(c) \/ Apply(c)
<1>1. ASSUME NEW b \in Calls, NEW p, phase' = [phase EXCEPT ![b] = p],
             p \notin {"tell", "duplicate"}
      PROVE  FALSE
  BY <1>1 DEF Types
<1>2. ASSUME NEW b \in Calls, Withdraw(b) \/ Apply(b) PROVE Withdraw(c) \/ Apply(c)
  <2>1. \E p : phase' = [phase EXCEPT ![b] = p]
    BY <1>2, FinishEffect DEF Recorded, Duplicated, Declined
  <2>2. b = c
    BY <2>1 DEF Types
  <2> QED BY <1>2, <2>2
<1>3. ASSUME NEW b \in Calls, BeginPlain(b) PROVE FALSE
  BY <1>1, <1>3 DEF BeginPlain, StartSync
<1>4. ASSUME NEW b \in Calls, BeginQuorum(b) PROVE FALSE
  <2>1. \E p \in {"ask", "refused"} : phase' = [phase EXCEPT ![b] = p]
    BY <1>4 DEF BeginQuorum
  <2> QED BY <1>1, <2>1
<1>5. ASSUME NEW b \in Calls, BeginTimeout(b) PROVE FALSE
  BY <1>1, <1>5 DEF BeginTimeout
<1>6. ASSUME NEW b \in Calls, Vote(b) PROVE FALSE
  BY <1>1, <1>6 DEF Vote
<1>7. ASSUME NEW b \in Calls, Reject(b) PROVE FALSE
  BY <1>1, <1>7 DEF Reject
<1>8. ASSUME NEW b \in Calls, End(b) PROVE FALSE
  BY <1>1, <1>8 DEF End
<1>9. ASSUME NEW b \in Calls, NEW n \in Nodes, VoteEnter(b, n) PROVE FALSE
  BY <1>1, <1>9 DEF VoteEnter, StartSync
<1>10. phase' # phase
  OBVIOUS
<1> QED
  BY <1>2, <1>3, <1>4, <1>5, <1>6, <1>7, <1>8, <1>9, <1>10
  DEF Next, Step, SyncEvents, VoteTimeout, Propagate, PropagateTimeout, Deposit,
      GetBalance, Tick, vars

\* A new event is the newest, and its amount goes into the totals.
LEMMA CheckpointMoves ==
  ASSUME Types, Types', Origins, Counters, Checkpoints,
         NEW n \in Nodes, NEW new \in Event, AddsOwn(n, new)
  PROVE  /\ checkpoint'[n].deposits = Total(Own(n)', "deposit")
         /\ checkpoint'[n].withdrawals = Total(Own(n)', "withdraw")
         /\ \A e \in Own(n)' : e.id <= checkpoint'[n].last
         /\ \E e \in Own(n)' : e.id = checkpoint'[n].last
         /\ \A m \in Nodes \ {n} : checkpoint'[m] = checkpoint[m]
<1>1. /\ Own(n)' = Own(n) \cup {new} /\ new \notin Own(n)
      /\ Advances(n) /\ new.id = EventId(n)
  BY DEF AddsOwn, Creating
<1>2. IsFiniteSet(Own(n)) /\ Own(n) \in SUBSET Event
  BY DEF Checkpoints, Own, Types
<1>3. /\ checkpoint[n].deposits = Total(Own(n), "deposit")
      /\ checkpoint[n].withdrawals = Total(Own(n), "withdraw")
  BY DEF Checkpoints, CheckpointCoversOwnEvents
<1>4. /\ Total(Own(n)', "deposit") = Total(Own(n), "deposit")
           + (IF new.type = "deposit" THEN new.amount ELSE 0)
      /\ Total(Own(n)', "withdraw") = Total(Own(n), "withdraw")
           + (IF new.type = "withdraw" THEN new.amount ELSE 0)
  BY <1>1, <1>2, TotalAdd DEF EventTypes
<1>5. Total(Own(n), "deposit") \in Int /\ Total(Own(n), "withdraw") \in Int
  <2>1. ASSUME NEW type PROVE Total(Own(n), type) \in Int
    <3> DEFINE T == {e \in Own(n) : e.type = type}
    <3>1. IsFiniteSet(T) /\ \A e \in T : e.amount \in Int
      BY <1>2, FS_Subset DEF Event
    <3> HIDE DEF T
    <3>2. AmountSum(T) \in Int
      BY <3>1, AmountsInt
    <3> QED BY <3>2 DEF Total, AmountSum, T
  <2> QED BY <2>1
<1>6. /\ checkpoint'[n].last = new.id
      /\ checkpoint'[n].deposits = checkpoint[n].deposits
           + (IF new.type = "deposit" THEN new.amount ELSE 0)
      /\ checkpoint'[n].withdrawals = checkpoint[n].withdrawals
           + (IF new.type = "withdraw" THEN new.amount ELSE 0)
      /\ \A m \in Nodes \ {n} : checkpoint'[m] = checkpoint[m]
  <2>1. DOMAIN checkpoint = Nodes
    BY DEF Types
  <2>2. new.amount \in Int
    BY DEF Event
  <2>3. CASE /\ new.type = "deposit"
             /\ checkpoint' = [checkpoint EXCEPT ![n] = Deposited(checkpoint[n], new)]
    <3>1. /\ checkpoint'[n] = Deposited(checkpoint[n], new)
          /\ \A m \in Nodes \ {n} : checkpoint'[m] = checkpoint[m]
      BY <2>1, <2>3
    <3> QED BY <1>3, <1>5, <2>3, <3>1 DEF Deposited
  <2>4. ASSUME NEW balance, new.type = "withdraw",
               checkpoint' = [checkpoint EXCEPT ![n] = Withdrawn(checkpoint[n], new, balance)]
        PROVE  /\ checkpoint'[n].last = new.id
               /\ checkpoint'[n].deposits = checkpoint[n].deposits
                    + (IF new.type = "deposit" THEN new.amount ELSE 0)
               /\ checkpoint'[n].withdrawals = checkpoint[n].withdrawals
                    + (IF new.type = "withdraw" THEN new.amount ELSE 0)
               /\ \A m \in Nodes \ {n} : checkpoint'[m] = checkpoint[m]
    <3>1. /\ checkpoint'[n] = Withdrawn(checkpoint[n], new, balance)
          /\ \A m \in Nodes \ {n} : checkpoint'[m] = checkpoint[m]
      BY <2>1, <2>4
    <3> QED BY <1>3, <1>5, <2>4, <3>1 DEF Withdrawn
  <2> QED BY <2>3, <2>4 DEF AddsOwn, Creating
<1>7. ASSUME NEW e \in Own(n) PROVE e.id < new.id
  <2>1. e \in Event /\ Present(e) /\ e.node = n
    BY <1>2 DEF Own, Present
  <2> QED BY <1>1, <2>1, NewIdIsNew
<1>8. \A e \in Own(n)' : e.id <= new.id
  <2>1. new.id \in Nat /\ \A e \in Own(n) : e.id \in Nat
    BY <1>2 DEF Event
  <2> QED BY <1>1, <1>7, <2>1
<1> QED BY <1>1, <1>3, <1>4, <1>6, <1>8

\* Every step keeps what the checkpoints cover.
LEMMA CheckpointsStep ==
  Types /\ Types' /\ Locks /\ Origins /\ Counters /\ Checkpoints /\ [Next]_vars
    => Checkpoints'
<1> SUFFICES ASSUME Types, Types', Locks, Origins, Counters, Checkpoints, [Next]_vars
             PROVE  Checkpoints'
  OBVIOUS
<1>1. KeepsOwn \/ \E n \in Nodes, new \in Event : AddsOwn(n, new)
  BY DataSteps, OwnStep
<1>2. \A n \in Nodes : IsFiniteSet(Own(n)')
  <2>1. CASE KeepsOwn
    BY <2>1 DEF KeepsOwn, Checkpoints
  <2>2. ASSUME NEW n \in Nodes, NEW new \in Event, AddsOwn(n, new)
        PROVE  \A m \in Nodes : IsFiniteSet(Own(m)')
    <3>1. IsFiniteSet(Own(n) \cup {new})
      BY FS_AddElement DEF Checkpoints
    <3> QED BY <2>2, <3>1 DEF AddsOwn, Checkpoints
  <2> QED BY <1>1, <2>1, <2>2
<1>3. CheckpointCoversOwnEvents'
  <2>1. CASE KeepsOwn
    BY <2>1 DEF KeepsOwn, Checkpoints, CheckpointCoversOwnEvents
  <2>2. ASSUME NEW n \in Nodes, NEW new \in Event, AddsOwn(n, new)
        PROVE  CheckpointCoversOwnEvents'
    <3>1. \A m \in Nodes \ {n} : Own(m)' = Own(m) /\ checkpoint'[m] = checkpoint[m]
      BY <2>2, CheckpointMoves DEF AddsOwn
    <3>2. /\ checkpoint'[n].deposits = Total(Own(n)', "deposit")
          /\ checkpoint'[n].withdrawals = Total(Own(n)', "withdraw")
          /\ \A e \in Own(n)' : e.id <= checkpoint'[n].last
          /\ \E e \in Own(n)' : e.id = checkpoint'[n].last
      BY <2>2, CheckpointMoves
    <3> QED BY <3>1, <3>2 DEF Checkpoints, CheckpointCoversOwnEvents
  <2> QED BY <1>1, <2>1, <2>2
<1>4. ASSUME NEW c \in Calls, phase'[c] = "tell" PROVE Own(Home[c])' # {}
  <2>1. Home[c] \in Nodes
    BY HomeIsNode
  <2>2. CASE phase[c] = "tell"
    <3>1. Own(Home[c]) # {} /\ Own(Home[c]) \subseteq Own(Home[c])'
      BY <1>1, <2>1, <2>2 DEF Checkpoints, KeepsOwn, AddsOwn
    <3> QED BY <3>1
  <2>3. CASE phase[c] # "tell"
    <3>1. PICK known \in SUBSET Event : Recorded(c, known)
      <4>1. Withdraw(c) \/ Apply(c)
        BY <1>4, <2>3, Finishers
      <4>2. PICK known \in SUBSET Event :
              Recorded(c, known) \/ Duplicated(c, known) \/ Declined(c, known)
        BY <4>1, FinishEffect
      <4> QED BY <1>4, <4>2 DEF Recorded, Duplicated, Declined, Types
    <3>2. Withdrawal(c) \in log'[Home[c]] /\ Withdrawal(c).node = Home[c]
      BY <2>1, <3>1 DEF Recorded, Types, Withdrawal, NewEvent
    <3> QED BY <3>2 DEF Own
  <2> QED BY <2>2, <2>3
<1> QED BY <1>2, <1>3, <1>4 DEF Checkpoints

\* Every step keeps the reason of a refusal: the request is in the log.
LEMMA RefusedStep ==
  Types /\ Types' /\ Locks /\ Origins /\ Counters /\ Checkpoints
    /\ RefusedOnlyAsDuplicate /\ [Next]_vars => RefusedOnlyAsDuplicate'
<1> SUFFICES ASSUME Types, Types', Locks, Origins, Counters, Checkpoints,
                    RefusedOnlyAsDuplicate, [Next]_vars,
                    NEW c \in Calls, phase'[c] = "duplicate"
             PROVE  \E e \in log'[Home[c]] : e.rid = Request[c] /\ e.rid # NoRequest
  BY DEF RefusedOnlyAsDuplicate
<1>1. Home[c] \in Nodes
  BY HomeIsNode
<1>2. CASE phase[c] = "duplicate"
  <2>1. PICK e \in log[Home[c]] : e.rid = Request[c] /\ e.rid # NoRequest
    BY <1>2 DEF RefusedOnlyAsDuplicate
  <2>2. log[Home[c]] \subseteq log'[Home[c]]
    BY <1>1, DataSteps, OwnStep DEF KeepsOwn, AddsOwn
  <2> QED BY <2>1, <2>2
<1>3. CASE phase[c] # "duplicate"
  <2>1. Withdraw(c) \/ Apply(c)
    BY <1>3, Finishers
  <2>2. PICK remote \in SUBSET sync[c].fetched, known \in SUBSET Event :
          /\ known = MergeEvents(log[Home[c]], remote)
          /\ Recorded(c, known) \/ Duplicated(c, known) \/ Declined(c, known)
    BY <2>1, FinishEffect
  <2>3. Duplicated(c, known)
    BY <2>2 DEF Recorded, Declined, Types
  <2>4. phase[c] \in {"sync", "ask"}
    BY <2>1, FinishEffect
  <2>5. Advances(Home[c])
    BY <2>3, <2>4, SpentByFinish DEF Duplicated
  <2>6. \A f \in known : f \in Event /\ Present(f)
    <3>1. remote \in SUBSET Event /\ \A e \in remote : Present(e)
      BY SyncedType DEF Present
    <3> QED BY <1>1, <2>2, <3>1, MergeKeepsOwn
  <2>7. \A f \in known : f.id # EventId(Home[c])
    BY <1>1, <2>5, <2>6, NewIdIsNew
  <2>8. /\ ~Accepts(known, Withdrawal(c))
        /\ Withdrawal(c).id = EventId(Home[c]) /\ Withdrawal(c).rid = Request[c]
    BY <2>3 DEF Duplicated, Withdrawal, NewEvent
  <2>9. \E f \in known : f.rid = Request[c] /\ f.rid # NoRequest
    BY <2>7, <2>8 DEF Accepts
  <2>10. log'[Home[c]] = known
    BY <1>1, <2>3 DEF Duplicated, Types
  <2> QED BY <2>9, <2>10
<1> QED BY <1>2, <1>3

-----------------------------------------------------------------------------
(* The theorems.                                                           *)

\* The nodes start with empty logs.
LEMMA QuorumInit == Init => QuorumInv
<1> SUFFICES ASSUME Init PROVE QuorumInv
  OBVIOUS
<1> USE HomeIsNode
<1>1. Types
  <2>1. \A c \in Calls : [at |-> Home[c], toRead |-> {}, fetched |-> {}] \in Syncs
    BY DEF Syncs
  <2> QED BY <2>1, CallsAssumption DEF Init, Types, Phases
<1>2. Locks /\ Accounts
  BY DEF Init, Locks, Running, Accounts, AccountLockTellsTheCall
<1>3. Counters
  <2>1. Cardinality(Spent) \in Nat /\ MaxPerMs \in Nat
    BY SlotsSuffice, CallsAssumption
  <2> QED BY <2>1 DEF Init, Counters
<1>4. Origins
  BY DEF Init, Origins, Present, Own
<1>5. Checkpoints
  <2>1. \A n \in Nodes : Own(n) = {} /\ checkpoint[n].deposits = 0 /\ checkpoint[n].withdrawals = 0
    BY DEF Init, Own
  <2>2. \A type : Total({}, type) = 0
    <3>1. \A type : {e \in {} : e.type = type} = {}
      OBVIOUS
    <3>2. \A type : Total({}, type) = AmountSum({e \in {} : e.type = type})
      BY DEF Total, AmountSum
    <3> QED BY <3>1, <3>2, AmountsEmpty
  <2>3. CheckpointCoversOwnEvents
    BY <2>1, <2>2 DEF CheckpointCoversOwnEvents
  <2> QED BY <2>1, <2>3, FS_EmptySet DEF Init, Checkpoints
<1>6. OneEventPerRequest /\ RefusedOnlyAsDuplicate
  BY DEF Init, OneEventPerRequest, RefusedOnlyAsDuplicate
<1> QED BY <1>1, <1>2, <1>3, <1>4, <1>5, <1>6 DEF QuorumInv

\* The invariant of the two withdrawals holds, however many nodes and calls there are.
THEOREM QuorumInvariant == Spec => []QuorumInv
<1>1. QuorumInv /\ [Next]_vars => QuorumInv'
  <2> SUFFICES ASSUME QuorumInv, [Next]_vars PROVE QuorumInv'
    OBVIOUS
  <2>1. Types'
    BY TypesStep DEF QuorumInv
  <2>2. Locks' /\ Accounts'
    BY LocksStep DEF QuorumInv
  <2>3. Counters'
    BY <2>1, CountersStep DEF QuorumInv
  <2>4. DataStep /\ FetchStep
    BY DataSteps DEF QuorumInv
  <2>5. Origins'
    BY <2>1, <2>4, OriginsStep DEF QuorumInv
  <2>6. Checkpoints'
    BY <2>1, CheckpointsStep DEF QuorumInv
  <2>7. OneEventPerRequest'
    BY <2>1, <2>4, RequestsStep DEF QuorumInv
  <2>8. RefusedOnlyAsDuplicate'
    BY <2>1, RefusedStep DEF QuorumInv
  <2> QED BY <2>1, <2>2, <2>3, <2>5, <2>6, <2>7, <2>8 DEF QuorumInv
<1> QED BY <1>1, QuorumInit, PTL DEF Spec

\* Two generated ids are the same exactly if the moments are, the hashes of the
\* nodes' names are and the counters differ by a multiple of Slots.  (The proof does
\* not use IdsAssumption, which rules the repeats out for the other theorems.)
THEOREM IdsRepeatTheorem ==
  ASSUME NEW n \in Nodes, NEW m \in Nodes,
         NEW s \in [ms : Nat, counter : Nat], NEW t \in [ms : Nat, counter : Nat]
  PROVE  IdOf(n, s) = IdOf(m, t) <=>
           /\ s.ms = t.ms
           /\ NodeHash[n] = NodeHash[m]
           /\ s.counter % Slots = t.counter % Slots
<1> DEFINE a == s.ms
           b == t.ms
           g == NodeHash[n]
           h == NodeHash[m]
           j == s.counter % Slots
           k == t.counter % Slots
<1>1. /\ g \in 0..(Slots - 1) /\ h \in 0..(Slots - 1) /\ Slots \in Nat
      /\ a \in Nat /\ b \in Nat
  BY HashAssumption
<1>2. j \in 0..(Slots - 1) /\ k \in 0..(Slots - 1)
  BY HashAssumption
<1>3. IdOf(n, s) = (a * Slots + g) * Slots + j /\ IdOf(m, t) = (b * Slots + h) * Slots + k
  BY DEF IdOf
<1> HIDE DEF a, b, g, h, j, k
<1>4. ASSUME IdOf(n, s) = IdOf(m, t) PROVE a = b /\ g = h /\ j = k
  <2>1. a * Slots + g \in Nat /\ b * Slots + h \in Nat
    BY <1>1
  <2>2. (a * Slots + g) * Slots + j = (b * Slots + h) * Slots + k
    BY <1>3, <1>4
  <2>3. a * Slots + g = b * Slots + h /\ j = k
    BY <1>1, <1>2, <2>1, <2>2, PartsAreUnique
  <2>4. a = b /\ g = h
    BY <1>1, <2>3, PartsAreUnique
  <2> QED BY <2>3, <2>4
<1>5. ASSUME a = b, g = h, j = k PROVE IdOf(n, s) = IdOf(m, t)
  BY <1>3, <1>5
<1> QED BY <1>4, <1>5 DEF a, b, g, h, j, k

\* The checkpoint of a node is as of its newest own event and has their totals.
THEOREM CheckpointTheorem == Spec => []CheckpointCoversOwnEvents
<1>1. QuorumInv => CheckpointCoversOwnEvents
  BY DEF QuorumInv, Checkpoints
<1> QED BY <1>1, QuorumInvariant, PTL

\* No log has two events of one request.
THEOREM QuorumRequestTheorem == Spec => []OneEventPerRequest
<1>1. QuorumInv => OneEventPerRequest
  BY DEF QuorumInv
<1> QED BY <1>1, QuorumInvariant, PTL

\* A locked account tells of a quorum call that runs, or failed as a duplicate.
THEOREM QuorumAccountTheorem == Spec => []AccountLockTellsTheCall
<1>1. QuorumInv => AccountLockTellsTheCall
  BY DEF QuorumInv, Accounts
<1> QED BY <1>1, QuorumInvariant, PTL
=============================================================================
