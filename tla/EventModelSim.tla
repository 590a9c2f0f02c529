----------------------------- MODULE EventModelSim -----------------------------
(***************************************************************************)
(* The simulation of the event model (src/event_model_sim): nodes that     *)
(* take deposits into their own log only, and withdraw after they have     *)
(* fetched what their checkpoint lacks from every peer.                    *)
(*                                                                         *)
(* The program is one thread, so an operation is one step, with the calls  *)
(* it makes on the peers.  Event ids come from one counter.  The balance   *)
(* of a checkpoint covers the events up to its last id, and advances only  *)
(* as far as no id is missing from the log.                                *)
(***************************************************************************)
EXTENDS Integers, Sequences, FiniteSets, FiniteSetsExt, SequencesExt

CONSTANTS
  NodeOrder,       \* the nodes, in the order in which they were registered
  Requests,        \* request ids
  Amounts,         \* what is paid in or out
  InitialBalance,  \* what every node starts from
  Operations       \* bound: how many operations the simulation does

ASSUME SimAssumption ==
  /\ IsInjective(NodeOrder)
  /\ Amounts \subseteq Nat \ {0} /\ InitialBalance \in Nat /\ Operations \in Nat

VARIABLES
  log,         \* events of each node: id, request and amount
  checkpoint,  \* of each node
  nextId,      \* of the allocator
  done,        \* operations so far
  synced       \* the final synchronisation is over

vars == <<log, checkpoint, nextId, done, synced>>

Nodes == Range(NodeOrder)

Ids(l) == {e.id : e \in l}

Sum(events) == MapThenSumSet(LAMBDA e : e.amount, events)

Init ==
  /\ log = [n \in Nodes |-> {}]
  /\ checkpoint = [n \in Nodes |-> [balance |-> InitialBalance, last |-> 0]]
  /\ nextId = 1 /\ done = 0 /\ synced = FALSE

\* add_event takes an event whose id and request are new to the log.
Fresh(l, e) == e.id \notin Ids(l) /\ \A f \in l : f.request # e.request

\* A bug variant of the definition that follows.
AdvanceToNewest(c, l) ==
  LET new == {e \in l : e.id > c.last}
  IN  IF new = {} THEN c
      ELSE [balance |-> c.balance + Sum(new), last |-> Max(Ids(new))]

\* The checkpoint goes on through the ids that follow each other in the log.
Advance(c, l) ==
  LET last == Max({k \in c.last..nextId : (c.last + 1)..k \subseteq Ids(l)})
  IN  [balance |-> c.balance + Sum({e \in l : e.id \in (c.last + 1)..last}), last |-> last]

\* merge_events: what a log takes of the events of another, in which no two have
\* one request.
Merge(state, events) ==
  LET l == state.log \cup {e \in events : Fresh(state.log, e)}
  IN  [log |-> l, checkpoint |-> Advance(state.checkpoint, l)]

Peers(n) == SelectSeq(NodeOrder, LAMBDA p : p # n)

\* A bug variant of the definition that follows.
SyncNearest(n, logs, state) ==
  Merge(state, {e \in logs[Head(Peers(n))] : e.id > state.checkpoint.last})

\* sync_all and recompute_from_checkpoint: from one peer after the other, what
\* is later than the checkpoint has become by then.
SyncAll(n, logs, state) ==
  FoldLeft(LAMBDA s, p : Merge(s, {e \in logs[p] : e.id > s.checkpoint.last}),
           state, Peers(n))

State(n) == [log |-> log[n], checkpoint |-> checkpoint[n]]

Operation == ~synced /\ done < Operations /\ done' = done + 1 /\ UNCHANGED synced

\* The event of a deposit stays on its node; a request that its log has had uses
\* up an id.
Deposit(n, r, amount) ==
  LET e == [id |-> nextId, request |-> r, amount |-> amount]
  IN  /\ Operation
      /\ nextId' = nextId + 1
      /\ IF Fresh(log[n], e)
           THEN /\ log' = [log EXCEPT ![n] = @ \cup {e}]
                /\ checkpoint' = [checkpoint EXCEPT ![n] = Advance(@, log'[n])]
           ELSE UNCHANGED <<log, checkpoint>>

\* A withdrawal that is not covered leaves what was synchronised.
Reject(n, amount) ==
  LET s == SyncAll(n, log, State(n))
  IN  /\ Operation
      /\ s.checkpoint.balance < amount
      /\ log' = [log EXCEPT ![n] = s.log]
      /\ checkpoint' = [checkpoint EXCEPT ![n] = s.checkpoint]
      /\ UNCHANGED nextId

\* A bug variant of the definition that follows.
WithdrawUnchecked(n, r, amount) ==
  LET s == SyncAll(n, log, State(n))
      e == [id |-> nextId, request |-> r, amount |-> -amount]
      After(m) == IF m = n THEN Merge(s, {e}) ELSE Merge(State(m), {e})
  IN  /\ Operation
      /\ checkpoint[n].balance >= amount
      /\ Fresh(s.log, e)
      /\ nextId' = nextId + 1
      /\ log' = [m \in Nodes |-> After(m).log]
      /\ checkpoint' = [m \in Nodes |-> After(m).checkpoint]

\* One that is covered is committed and at once received by every peer.
Withdraw(n, r, amount) ==
  LET s == SyncAll(n, log, State(n))
      e == [id |-> nextId, request |-> r, amount |-> -amount]
      After(m) == IF m = n THEN Merge(s, {e}) ELSE Merge(State(m), {e})
  IN  /\ Operation
      /\ s.checkpoint.balance >= amount
      /\ Fresh(s.log, e)
      /\ nextId' = nextId + 1
      /\ log' = [m \in Nodes |-> After(m).log]
      /\ checkpoint' = [m \in Nodes |-> After(m).checkpoint]

\* Its request has been in the log already: the id is used up.
WithdrawAgain(n, r, amount) ==
  LET s == SyncAll(n, log, State(n))
      e == [id |-> nextId, request |-> r, amount |-> -amount]
  IN  /\ Operation
      /\ s.checkpoint.balance >= amount /\ ~Fresh(s.log, e)
      /\ nextId' = nextId + 1
      /\ log' = [log EXCEPT ![n] = s.log]
      /\ checkpoint' = [checkpoint EXCEPT ![n] = s.checkpoint]

\* The simulation ends with every node synchronising, one after the other.
FinalSync ==
  LET all == FoldLeft(LAMBDA s, n : [s EXCEPT ![n] =
                        SyncAll(n, [m \in Nodes |-> s[m].log], @)],
                      [n \in Nodes |-> State(n)], NodeOrder)
  IN  /\ ~synced /\ synced' = TRUE
      /\ log' = [n \in Nodes |-> all[n].log]
      /\ checkpoint' = [n \in Nodes |-> all[n].checkpoint]
      /\ UNCHANGED <<nextId, done>>

Next ==
  \/ \E n \in Nodes, amount \in Amounts :
       \/ Reject(n, amount)
       \/ \E r \in Requests :
            Deposit(n, r, amount) \/ Withdraw(n, r, amount) \/ WithdrawAgain(n, r, amount)
  \/ FinalSync

Spec == Init /\ [][Next]_vars

-----------------------------------------------------------------------------
(* Properties.                                                             *)

Events == UNION {log[n] : n \in Nodes}

\* What the account holds, wherever its events are.
Total == InitialBalance + Sum(Events)

\* "Balance includes all events up to last_event_id" (checkpoint 10): those of
\* every node, also where requests were repeated (node 40-52).
CheckpointIsComplete ==
  \A n \in Nodes :
    /\ Ids(log[n]) \subseteq 1..(nextId - 1)
    /\ 1..checkpoint[n].last \subseteq Ids(log[n])
    /\ checkpoint[n].balance =
         InitialBalance + Sum({e \in log[n] : e.id <= checkpoint[n].last})

\* No operation was repeated: every id has its event and every event a request of
\* its own.
NoneRepeated ==
  /\ Ids(Events) = 1..(nextId - 1)
  /\ \A e, f \in Events : e.request = f.request => e = f

\* As long as no operation was repeated, the nodes act as one account: the
\* withdrawals of all of them together are covered by the deposits of all, though
\* a deposit is known to one node only (node 142-186).
NodesNeverOverdraw == NoneRepeated => Total >= 0

\* Then, too, the final synchronisation leaves every node with the balance of the
\* whole account (main 51-60).
SyncConverges ==
  synced /\ NoneRepeated => \A n \in Nodes : checkpoint[n].balance = Total
=============================================================================
