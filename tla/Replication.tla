----------------------------- MODULE Replication -----------------------------
(***************************************************************************)
(* Asynchronous replication of account balances between servers that each  *)
(* have a database of their own: operations queue events                   *)
(* (src/src/core/operations.py), the replication loop posts them in        *)
(* batches to the peers it believes alive, and the sync-state handler      *)
(* applies what it receives, the last writer winning                       *)
(* (src/src/distributed/replication_manager.py).                           *)
(*                                                                         *)
(* An operation awaits nothing that is not ready: it is one step.  So is   *)
(* the handling of a received batch, up to an event of a transfer on an    *)
(* account the receiver does not have.  Such an event does not carry the   *)
(* phone number a new row needs: the handler asks the origin, then other   *)
(* peers, for it, and meanwhile other batches and operations run.  The     *)
(* sender waits at most for its time limit, so a batch may still be on its *)
(* way, or half handled, while later ones are sent.                        *)
(*                                                                         *)
(* A batch is never sent again.  Its acknowledgement changes nothing:      *)
(* _update_replication_status looks for the sender's own events in the     *)
(* events table, where only received ones are.  Concurrency found in the   *)
(* vector clocks is only logged.                                           *)
(***************************************************************************)
EXTENDS Integers, FiniteSets, Functions, SequencesExt

CONSTANTS
  Servers,       \* server ids, ordered: a set of naturals
  Accounts,      \* account ids, as the database numbers them
  Phones,        \* phone numbers of customers
  UnknownPhone,  \* any number made up for an account nobody could name the owner of
  Seeded,        \* per server: balance of the accounts it has from the start
  SeededPhone,   \* per server: their phone numbers
  Amounts,       \* amounts of operations and initial balances
  BatchSize,     \* events per batch
  MaxTime,       \* bound: timestamps
  MaxOps,        \* bound: per server, its operations
  ClocksAgree,   \* BOOLEAN: timestamps follow the order of the operations
  MayFail        \* BOOLEAN: messages are lost, peers thought dead, servers stop

ASSUME ReplicationAssumption ==
  /\ Servers \subseteq Nat /\ IsFiniteSet(Servers)
  /\ Accounts \subseteq Nat \ {0}
  /\ UnknownPhone \notin Phones
  /\ \A s \in Servers :
       /\ DOMAIN Seeded[s] \subseteq Accounts
       /\ Seeded[s] \in [DOMAIN Seeded[s] -> Nat]
       /\ SeededPhone[s] \in [DOMAIN Seeded[s] -> Phones] /\ IsInjective(SeededPhone[s])
  /\ Amounts \subseteq Nat
  /\ BatchSize \in Nat \ {0}
  /\ MaxTime \in Nat /\ MaxOps \in [Servers -> Nat]
  /\ ClocksAgree \in BOOLEAN /\ MayFail \in BOOLEAN

VARIABLES
  balance,    \* accounts table of each server: a function on the ids it has
  phone,      \* its column phone_number, unique on each server
  rows,       \* events table of each server: the events it received and applied
  pending,    \* ReplicationManager.pending_replication (memory only)
  wire,       \* what is left of batches posted and not yet handled, each with its
              \* receiver, and whether that is asking for the account of the first event
  made,       \* history: events of the operations each server carried out
  disturbed   \* history: a batch was lost or never sent

vars == <<balance, phone, rows, pending, wire, made, disturbed>>

Kinds == {"deposit", "withdraw", "transfer_out", "transfer_in", "account_created"}

Events == [server : Servers, time : 1..MaxTime, kind : Kinds, acct : Accounts,
           before : Int, after : Int]

\* Event.request_id: the two events of a transfer have the same.
RequestOf(e) == <<e.server, e.time>>

EventsOn(a, E) == {e \in E : e.acct = a}

\* f with a new row.
Inserted(f, a, v) == [b \in DOMAIN f \cup {a} |-> IF b = a THEN v ELSE f[b]]

Init ==
  /\ balance = [s \in Servers |-> Seeded[s]]
  /\ phone = [s \in Servers |-> SeededPhone[s]]
  /\ rows = [s \in Servers |-> {}]
  /\ pending = [s \in Servers |-> << >>]
  /\ wire = {}
  /\ made = [s \in Servers |-> {}]
  /\ disturbed = FALSE
-----------------------------------------------------------------------------
(* Operations of the clients of a server. *)

Requests(s) == {RequestOf(e) : e \in made[s]}
AllMade == UNION {made[s] : s \in Servers}

\* datetime.utcnow() on server s.
Stamps(s) ==
  {t \in 1..MaxTime :
     \A e \in IF ClocksAgree THEN AllMade ELSE made[s] : e.time < t}

\* The event of an operation that changed account a by this much, to after.
Ev(s, t, kind, a, after, change) ==
  [server |-> s, time |-> t, kind |-> kind, acct |-> a,
   before |-> after - change, after |-> after]

\* The server carries the operation out, which leaves these balances, and queues
\* its events.
Record(s, after, events) ==
  /\ Cardinality(Requests(s)) < MaxOps[s]
  /\ balance' = [balance EXCEPT ![s] = after]
  /\ pending' = [pending EXCEPT ![s] = @ \o events]
  /\ made' = [made EXCEPT ![s] = @ \cup ToSet(events)]
  /\ UNCHANGED <<rows, wire, disturbed>>

\* A balance changes in the row of an account.
Moved(accounts, a, change) == [accounts EXCEPT ![a] = @ + change]

Deposit(s, a, m, t) ==
  /\ a \in DOMAIN balance[s]
  /\ m > 0
  /\ LET after == Moved(balance[s], a, m)
     IN Record(s, after, <<Ev(s, t, "deposit", a, after[a], m)>>)
  /\ UNCHANGED phone

Affordable(s, a, m) == balance[s][a] >= m

Withdraw(s, a, m, t) ==
  /\ a \in DOMAIN balance[s]
  /\ m > 0
  /\ Affordable(s, a, m)
  /\ LET after == Moved(balance[s], a, -m)
     IN Record(s, after, <<Ev(s, t, "withdraw", a, after[a], -m)>>)
  /\ UNCHANGED phone

\* Both events are computed from the balances both updates left, also when an
\* account pays itself.
Transfer(s, a, b, m, t) ==
  /\ {a, b} \subseteq DOMAIN balance[s]
  /\ m > 0
  /\ Affordable(s, a, m)
  /\ LET after == Moved(Moved(balance[s], a, -m), b, m)
     IN Record(s, after, <<Ev(s, t, "transfer_out", a, after[a], -m),
                           Ev(s, t, "transfer_in", b, after[b], m)>>)
  /\ UNCHANGED phone

\* create_account: the database gives the account its next number.
CreateAccount(s, a, m, t, p) ==
  /\ \A b \in DOMAIN balance[s] : b < a /\ phone[s][b] # p
  /\ \A b \in Accounts : b < a => \E c \in DOMAIN balance[s] : b <= c
  /\ Record(s, Inserted(balance[s], a, m), <<Ev(s, t, "account_created", a, m, m)>>)
  /\ phone' = [phone EXCEPT ![s] = Inserted(@, a, p)]
-----------------------------------------------------------------------------
(* The replication loop. *)

\* The peers that get_healthy_peers returns and whose post is not lost.
Reachable(s) == IF MayFail THEN SUBSET (Servers \ {s}) ELSE {Servers \ {s}}

\* _replicate_batch: without a healthy peer the batch is dropped.
Post(s, batch) ==
  \E peers \in Reachable(s) :
    /\ wire' = wire \cup [to : peers, batch : {batch}, asking : {FALSE}]
    /\ disturbed' = (disturbed \/ peers # Servers \ {s})

FirstBatch(q) == SubSeq(q, 1, IF Len(q) < BatchSize THEN Len(q) ELSE BatchSize)

\* A bug variant of the definition that follows.
RestSkippingOne(q) == SubSeq(q, BatchSize + 2, Len(q))
Rest(q) == SubSeq(q, BatchSize + 1, Len(q))

ReplicateBatch(s) ==
  /\ pending[s] # << >>
  /\ Post(s, FirstBatch(pending[s]))
  /\ pending' = [pending EXCEPT ![s] = Rest(@)]
  /\ UNCHANGED <<balance, phone, rows, made>>

\* stop(): one last batch with everything.  The next start finds nothing pending.
Stop(s) ==
  /\ MayFail
  /\ pending[s] # << >>
  /\ Post(s, pending[s])
  /\ pending' = [pending EXCEPT ![s] = << >>]
  /\ UNCHANGED <<balance, phone, rows, made>>

\* A crash loses what is pending and the batches the server has half handled.
Crash(s) ==
  LET halfHandled == {m \in wire : m.to = s /\ m.asking} IN
  /\ MayFail
  /\ pending[s] # << >> \/ halfHandled # {}
  /\ pending' = [pending EXCEPT ![s] = << >>]
  /\ wire' = wire \ halfHandled
  /\ disturbed' = TRUE
  /\ UNCHANGED <<balance, phone, rows, made>>
-----------------------------------------------------------------------------
(* The sync-state handler. *)

\* to_dict writes a zero amount as None, and the events table takes no None.
Serialisable(e) == e.before # 0 /\ e.after # 0

\* handle_replicated_event returns False and leaves the database as it was:
\* the event is a duplicate, or its row cannot be inserted.  (Nor can that of a
\* new account, if its id or its phone number is taken: see Stub.)
Refused(e, received) ==
  \/ e \in received
  \/ ~Serialisable(e)
  \/ \E r \in received : RequestOf(r) = RequestOf(e)

\* e wins against the last event received for its account.
Supersedes(e, last) ==
  \/ e.time > last.time
  \/ e.time = last.time /\ e.server >= last.server

\* A bug variant of the definition that follows: a later arrival always wins.
IsNewerAlways(e, received) == TRUE

\* Which of several last events the database would return is not specified, but
\* no three servers of the instances can have given out the same timestamp.
IsNewer(e, received) ==
  LET on == EventsOn(e.acct, received) IN
  on # {} => Supersedes(e, CHOOSE r \in on : \A q \in on : q.time <= r.time)

(* db is the receiver's [balance, phone, rows, rest]: its tables, and the   *)
(* events of the batch that must wait, because the first of them is asking. *)

\* A new account with the balance of the event and phone p; by the time the phone is
\* known the id may be taken.  A made-up number holds the id, so none is made up twice.
Stub(db, e, p) ==
  IF \/ Refused(e, db.rows)
     \/ e.acct \in DOMAIN db.balance
     \/ p # UnknownPhone /\ \E b \in DOMAIN db.phone : db.phone[b] = p
  THEN db
  ELSE [balance |-> Inserted(db.balance, e.acct, e.after),
        phone |-> Inserted(db.phone, e.acct, p),
        rows |-> db.rows \cup {e}, rest |-> db.rest]

\* An account that is there: the last writer wins.
Overwrite(db, e) ==
  IF Refused(e, db.rows) THEN db
  ELSE [balance |-> IF IsNewer(e, db.rows)
                    THEN [db.balance EXCEPT ![e.acct] = IF e.after < 0 THEN 0 ELSE e.after]
                    ELSE db.balance,
        phone |-> db.phone,
        rows |-> db.rows \cup {e}, rest |-> db.rest]

\* The phone number an event carries: no row of an account changes its own.
Carried(e) == phone[e.server][e.acct]

\* The events of a transfer carry none: if the account is missing, it is asked for.
Asks(e, db) ==
  /\ e.kind \in {"transfer_out", "transfer_in"}
  /\ e \notin db.rows
  /\ e.acct \notin DOMAIN db.balance

\* e is handled later.
Waits(db, e) ==
  [balance |-> db.balance, phone |-> db.phone, rows |-> db.rows, rest |-> Append(db.rest, e)]

\* One event of a batch: it is applied, unless an event before it, or itself, waits.
Handle(db, e) ==
  IF db.rest # << >> \/ Asks(e, db) THEN Waits(db, e)
  ELSE IF e.acct \in DOMAIN db.balance THEN Overwrite(db, e)
  ELSE Stub(db, e, Carried(e))

Database(s) == [balance |-> balance[s], phone |-> phone[s], rows |-> rows[s], rest |-> << >>]

\* The receiver of m goes on to this database, and waits if events are left.
Proceed(m, db) ==
  /\ balance' = [balance EXCEPT ![m.to] = db.balance]
  /\ phone' = [phone EXCEPT ![m.to] = db.phone]
  /\ rows' = [rows EXCEPT ![m.to] = db.rows]
  /\ wire' = (wire \ {m}) \cup
              {n \in [to : {m.to}, batch : {db.rest}, asking : {TRUE}] : db.rest # << >>}
  /\ UNCHANGED <<pending, made, disturbed>>

\* gossip_sync_state, from the arrival of the batch.
Deliver(m) ==
  /\ ~m.asking
  /\ Proceed(m, FoldLeft(Handle, Database(m.to), m.batch))

\* What the peers may say of the account: that of the origin; if it fails to
\* answer, what the first of the others has under this id, or nothing.
Answers(e, s) ==
  {Carried(e)} \cup
  {p \in Phones \cup {UnknownPhone} :
     /\ MayFail
     /\ \/ p = UnknownPhone
        \/ \E t \in Servers \ {s} : e.acct \in DOMAIN phone[t] /\ phone[t][e.acct] = p}

\* The answer arrives, or its time limit passes: the first event is done with, and
\* the handler goes on to the others.
Answer(m) ==
  /\ m.asking
  /\ \E p \in Answers(Head(m.batch), m.to) :
       Proceed(m, FoldLeft(Handle, Stub(Database(m.to), Head(m.batch), p), Tail(m.batch)))

Next ==
  \/ \E s \in Servers :
       \/ \E a \in Accounts, m \in Amounts, t \in Stamps(s) :
            \/ Deposit(s, a, m, t) \/ Withdraw(s, a, m, t)
            \/ \E b \in Accounts : Transfer(s, a, b, m, t)
            \/ \E p \in Phones : CreateAccount(s, a, m, t, p)
       \/ ReplicateBatch(s) \/ Stop(s) \/ Crash(s)
  \/ \E m \in wire : Deliver(m) \/ Answer(m)

Spec == Init /\ [][Next]_vars

\* The loop runs every batch_interval_sec, a post that is not lost arrives, and the
\* wait for an answer is limited by replicate_timeout_sec.
FairSpec ==
  /\ Spec
  /\ \A s \in Servers : WF_vars(ReplicateBatch(s))
  /\ WF_vars(\E m \in wire : Deliver(m) \/ Answer(m))
-----------------------------------------------------------------------------
\* What "the operation with later timestamp wins" means for a set of events.
LastWrite(E) == CHOOSE e \in E : \A f \in E : Supersedes(e, f)

\* In whatever order events arrive at a server that does not operate on the
\* account itself, it holds what the last of them by timestamp and server left.
ReplicaHoldsLastWrite ==
  \A s \in Servers : \A a \in DOMAIN balance[s] :
    EventsOn(a, made[s]) = {} /\ EventsOn(a, rows[s]) # {}
      => balance[s][a] = LastWrite(EventsOn(a, rows[s])).after

\* The customers' phones an event's account has on other servers than t.
PhonesOf(e, t) ==
  {p \in Phones : \E s \in Servers \ {t} : e.acct \in DOMAIN phone[s] /\ phone[s][e.acct] = p}

\* What may keep e from the accounts of t, when they do not have its account at
\* first: a phone number that is another customer's there, or, while t asks for that
\* of a transfer's account, another event or a customer of t that brings the account.
Excused(e, t) ==
  /\ e.acct \notin DOMAIN Seeded[t]
  /\ \/ \E b \in DOMAIN phone[t] \ {e.acct} :
          phone[t][b] \in PhonesOf(e, t)
     \/ /\ e.kind \in {"transfer_out", "transfer_in"}
        /\ \E f \in made[t] \cup rows[t] : f.acct = e.acct

\* If no batch is lost and no server stops, every operation with an event that can
\* be stored reaches every other server in the end, but for those Excused.
OperationsArrive ==
  <>[](disturbed \/ \A s, t \in Servers : s # t =>
         \A e \in made[s] : Serialisable(e) =>
           \/ \E r \in rows[t] : RequestOf(r) = RequestOf(e)
           \/ Excused(e, t))

Quiet == wire = {} /\ \A s \in Servers : pending[s] = << >>

\* Once nothing is under way and everything has arrived everywhere, the servers
\* that have an account agree on its balance.  They do not: a server's own
\* operations are not among the events its last-writer rule looks at.
ServersAgreeWhenQuiet ==
  Quiet /\ ~disturbed /\ (\A s \in Servers : rows[s] = AllMade \ made[s])
    => \A s, t \in Servers : \A a \in DOMAIN balance[s] \cap DOMAIN balance[t] :
         balance[s][a] = balance[t][a]
=============================================================================
