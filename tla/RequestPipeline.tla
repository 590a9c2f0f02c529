--------------------------- MODULE RequestPipeline ---------------------------
(***************************************************************************)
(* The request pipeline of one server: the HTTP handlers for withdrawal,   *)
(* deposit and transfer (src/src/api/routes.py), the idempotency table     *)
(* (idempotency.py), the in-memory queue with its workers                  *)
(* (async_messaging.py) and the account operations (operations.py).        *)
(*                                                                         *)
(* Handlers and workers are coroutines of one event loop, and none of them *)
(* awaits between its first database access and its last: the loop runs    *)
(* one of them at a time.  It may stop between any two of their commits,   *)
(* though, and a commit may fail; so each commit is a step of its own and  *)
(* "loop" says where the running coroutine is.                             *)
(*                                                                         *)
(* Amounts are integers of the smallest currency unit.  Every account is   *)
(* active: no code changes account_status.                                 *)
(***************************************************************************)
EXTENDS Integers, Sequences

CONSTANTS
  Accounts,        \* rows of the accounts table
  NoAccount,       \* a phone number without an account; the "to" of a non-transfer
  InitialBalance,  \* balances at the start (the API accepts negative ones too)
  Submissions,     \* what clients may send, and send again
  RequestIds,      \* the ids generate_request_id gives the submissions
  TxIds,           \* ids of rows of the transactions table
  InLeg,           \* f"{request_id}_to": id of the credit row of a transfer
  PeerBalances,    \* balances that events replicated from peers may carry
  MaxJournal,      \* bound: no replicated write to an account with so many rows
  NoJob            \* the event loop is idle

Kinds == {"withdraw", "deposit", "transfer"}

ASSUME PipelineAssumption ==
  /\ NoAccount \notin Accounts
  /\ InitialBalance \in [Accounts -> Int]
  /\ NoJob \notin Submissions
  /\ RequestIds \subseteq TxIds
  /\ InLeg \in [RequestIds -> TxIds]
  /\ \A r \in RequestIds : InLeg[r] # r
  /\ \A r1, r2 \in RequestIds : InLeg[r1] = InLeg[r2] => r1 = r2
  /\ PeerBalances \subseteq Int
  /\ MaxJournal \in Nat
  /\ Submissions \subseteq [rid : RequestIds, kind : Kinds, acct : Accounts,
                            to : Accounts \cup {NoAccount}, amount : Int]
  /\ \A s \in Submissions : s.kind # "transfer" => s.to = NoAccount

VARIABLES
  balance,     \* Account.balance
  journal,     \* per account: its Transaction rows and the replicated Event rows
               \* that overwrote its balance, in commit order
  accepted,    \* rows of the requests table: the submission each was created for
  status,      \* Request.status of each id, "absent" without a row
  queue,       \* AsyncOperationProcessor.queue (memory only)
  loop,        \* where the running handler or worker is
  job,         \* the submission it works for
  eventStore,  \* request ids with an event in the EventStore, marked applied and
               \* queued for replication (memory only)
  succeeded,   \* history: submissions a client was answered "success" for
  disturbed    \* history: the server has crashed or a commit has failed

vars == <<balance, journal, accepted, status, queue, loop, job, eventStore,
          succeeded, disturbed>>

Statuses == {"absent", "received", "processing", "completed", "failed"}
Steps    == {"idle", "enqueue", "operate", "confirm", "reject"}
RowKinds == {"withdraw", "deposit", "transfer_out", "transfer_in", "replicated"}

\* A row of the journal.  party is the other account of a transfer, which the
\* code keeps in the description; a replicated row has the id NoAccount.
Row == [kind : RowKinds, id : TxIds \cup {NoAccount}, amount : Int,
        before : Int, after : Int, party : Accounts \cup {NoAccount}]

-----------------------------------------------------------------------------
(* The transactions table.                                                 *)

RowsIn(j, a) == {j[a][i] : i \in DOMAIN j[a]}

Rows(a) == RowsIn(journal, a)

LocalRows(a) == {row \in Rows(a) : row.kind # "replicated"}

\* Transaction.request_id is unique.
UsedIds == UNION {{row.id : row \in LocalRows(a)} : a \in Accounts}

\* The row of the operation itself, as opposed to the credit leg of a transfer.
OwnRow(r, row) == row.id = r /\ row.kind \notin {"transfer_in", "replicated"}

PostedIn(j, r) == \E a \in Accounts : \E row \in RowsIn(j, a) : OwnRow(r, row)

Posted(r) == PostedIn(journal, r)

\* A bug variant (see below): request_id is not unique.
FreshIdsNotChecked(s) == TRUE

FreshIds(s) ==
  /\ s.rid \notin UsedIds
  /\ s.kind = "transfer" => InLeg[s.rid] \notin UsedIds

TxRow(kind, id, amount, before, after, party) ==
  [kind |-> kind, id |-> id, amount |-> amount, before |-> before,
   after |-> after, party |-> party]

AddRow(j, a, row) == [j EXCEPT ![a] = Append(@, row)]

-----------------------------------------------------------------------------
(* Variants of the definitions below, each as a plausible bug would make   *)
(* it; PROJECT.json pairs them with the property that rules them out.      *)

\* The balance check accepts what leaves the account negative.
AffordableOffByOne(s) == s.kind # "deposit" => balance[s.acct] + 1 >= s.amount

\* The debit leg of a transfer is recorded, the credit leg is forgotten.
TransferRowsDebitOnly(s) ==
  AddRow(journal, s.acct, TxRow("transfer_out", s.rid, s.amount, balance[s.acct],
                                balance[s.acct] - s.amount, s.to))

\* The transaction is recorded with the balances swapped.
OneRowSwapped(s) ==
  LET after == IF s.kind = "deposit" THEN balance[s.acct] + s.amount
                                     ELSE balance[s.acct] - s.amount
  IN  AddRow(journal, s.acct,
             TxRow(s.kind, s.rid, s.amount, after, balance[s.acct], NoAccount))

\* A retry of a request that is not completed is queued again.
DuplicateRequeues(s) ==
  /\ loop = "idle"
  /\ status[s.rid] # "absent"
  /\ IF status[s.rid] = "completed"
       THEN succeeded' = succeeded \cup {s} /\ UNCHANGED queue
       ELSE queue' = Append(queue, s) /\ UNCHANGED succeeded
  /\ UNCHANGED <<balance, journal, accepted, status, loop, job, eventStore,
                 disturbed>>

\* A retry is answered "success" as soon as the request is being processed.
DuplicateTooEager(s) ==
  /\ loop = "idle"
  /\ status[s.rid] # "absent"
  /\ succeeded' = IF status[s.rid] \in {"processing", "completed"}
                    THEN succeeded \cup {s} ELSE succeeded
  /\ UNCHANGED <<balance, journal, accepted, status, queue, loop, job,
                 eventStore, disturbed>>

\* The worker reports "completed" whatever the operation returned.
FinishAlwaysCompleted ==
  /\ loop \in {"confirm", "reject"}
  /\ status' = [status EXCEPT ![job.rid] = "completed"]
  /\ loop' = "idle" /\ job' = NoJob
  /\ UNCHANGED <<balance, journal, accepted, queue, eventStore, succeeded,
                 disturbed>>

\* The worker takes a message only while others wait behind it.
TakeUnlessLast ==
  /\ loop = "idle"
  /\ Len(queue) > 1
  /\ status' = [status EXCEPT ![Head(queue).rid] = "processing"]
  /\ job' = Head(queue) /\ queue' = Tail(queue) /\ loop' = "operate"
  /\ UNCHANGED <<balance, journal, accepted, eventStore, succeeded, disturbed>>

\* A restart re-queues the running job without looking whether there is one.
CrashRequeuing ==
  /\ queue' = Append(queue, job)
  /\ loop' = "idle" /\ job' = NoJob /\ eventStore' = {} /\ disturbed' = TRUE
  /\ UNCHANGED <<balance, journal, accepted, status, succeeded>>

-----------------------------------------------------------------------------
(* The account operations.  The UPDATE, the new rows and the commit are    *)
(* one database transaction.                                               *)

\* An account holds the amount (a deposit needs no funds).
Affordable(s) == s.kind # "deposit" => balance[s.acct] >= s.amount

\* The checks before the UPDATE.
Acceptable(s) ==
  /\ s.amount > 0
  /\ s.kind = "transfer" => s.to \in Accounts
  /\ Affordable(s)

Debit(a, x)  == [balance EXCEPT ![a] = @ - x]

\* withdraw and deposit: the balance and the row of the transaction.
OneBalance(s) ==
  IF s.kind = "deposit" THEN Debit(s.acct, -s.amount) ELSE Debit(s.acct, s.amount)

OneRow(s) ==
  LET after == OneBalance(s)[s.acct]
  IN  AddRow(journal, s.acct,
             TxRow(s.kind, s.rid, s.amount, balance[s.acct], after, NoAccount))

\* transfer: both UPDATEs, then both rows.  The balances of the rows are
\* computed back from the accounts as they are after both UPDATEs, also when
\* the two accounts are one.
TransferBalance(s) ==
  LET debited == Debit(s.acct, s.amount)
  IN  [debited EXCEPT ![s.to] = @ + s.amount]

TransferRows(s) ==
  LET out == TransferBalance(s)[s.acct]
      in  == TransferBalance(s)[s.to]
      outRow == TxRow("transfer_out", s.rid, s.amount, out + s.amount, out, s.to)
      inRow  == TxRow("transfer_in", InLeg[s.rid], s.amount, in - s.amount, in, s.acct)
  IN  AddRow(AddRow(journal, s.acct, outRow), s.to, inRow)

PostTransaction(s) ==
  IF s.kind = "transfer"
    THEN balance' = TransferBalance(s) /\ journal' = TransferRows(s)
    ELSE balance' = OneBalance(s) /\ journal' = OneRow(s)

-----------------------------------------------------------------------------
(* The handlers and the worker.                                            *)

Init ==
  /\ balance = InitialBalance
  /\ journal = [a \in Accounts |-> <<>>]
  /\ accepted = {}
  /\ status = [r \in RequestIds |-> "absent"]
  /\ queue = <<>>
  /\ loop = "idle"
  /\ job = NoJob
  /\ eventStore = {}
  /\ succeeded = {}
  /\ disturbed = FALSE

\* A handler creates the entry of a new request.  A withdrawal or deposit is
\* queued next, a transfer is executed by the handler.  (When the commit
\* fails the client gets a conflict and nothing has changed.)
Create(s) ==
  /\ loop = "idle"
  /\ status[s.rid] = "absent"
  /\ accepted' = accepted \cup {s}
  /\ status' = [status EXCEPT ![s.rid] = "received"]
  /\ job' = s
  /\ loop' = IF s.kind = "transfer" THEN "operate" ELSE "enqueue"
  /\ UNCHANGED <<balance, journal, queue, eventStore, succeeded, disturbed>>

\* A handler finds an entry with the request's id: it answers with the cached
\* response of a completed request, and otherwise that the request is queued
\* or in conflict.
Duplicate(s) ==
  /\ loop = "idle"
  /\ status[s.rid] # "absent"
  /\ succeeded' = IF status[s.rid] = "completed" THEN succeeded \cup {s}
                                                 ELSE succeeded
  /\ UNCHANGED <<balance, journal, accepted, status, queue, loop, job,
                 eventStore, disturbed>>

\* The handler's await of enqueue: the queue is unbounded, so it never blocks.
Enqueue ==
  /\ loop = "enqueue"
  /\ queue' = Append(queue, job)
  /\ loop' = "idle" /\ job' = NoJob
  /\ UNCHANGED <<balance, journal, accepted, status, eventStore, succeeded,
                 disturbed>>

\* A worker gets a message and marks its request; it goes on when that fails.
Take ==
  /\ loop = "idle"
  /\ queue # <<>>
  /\ \/ /\ status' = [status EXCEPT ![Head(queue).rid] = "processing"]
        /\ UNCHANGED disturbed
     \/ disturbed' = TRUE /\ UNCHANGED status
  /\ job' = Head(queue)
  /\ queue' = Tail(queue)
  /\ loop' = "operate"
  /\ UNCHANGED <<balance, journal, accepted, eventStore, succeeded>>

\* The operation's checks refuse it.
Decline ==
  /\ loop = "operate"
  /\ ~Acceptable(job)
  /\ loop' = "reject"
  /\ UNCHANGED <<balance, journal, accepted, status, queue, job, eventStore,
                 succeeded, disturbed>>

\* The operation commits.
Apply ==
  /\ loop = "operate"
  /\ Acceptable(job)
  /\ FreshIds(job)
  /\ PostTransaction(job)
  /\ eventStore' = eventStore \cup {job.rid}
  /\ loop' = "confirm"
  /\ UNCHANGED <<accepted, status, queue, job, succeeded, disturbed>>

\* The commit fails, always so when a row's id is taken: the database
\* transaction is rolled back, the event is not.
RollBack ==
  /\ loop = "operate"
  /\ Acceptable(job)
  /\ disturbed' \in {disturbed, TRUE}
  /\ FreshIds(job) => disturbed'
  /\ eventStore' = eventStore \cup {job.rid}
  /\ loop' = "reject"
  /\ UNCHANGED <<balance, journal, accepted, status, queue, job, succeeded>>

\* The final status is written, or its commit fails and is ignored.  The
\* client of a transfer gets its answer here.
Finish ==
  /\ loop \in {"confirm", "reject"}
  /\ \/ /\ status' = [status EXCEPT ![job.rid] =
                        IF loop = "confirm" THEN "completed" ELSE "failed"]
        /\ UNCHANGED disturbed
     \/ disturbed' = TRUE /\ UNCHANGED status
  /\ succeeded' = IF loop = "confirm" /\ job.kind = "transfer"
                    THEN succeeded \cup {job} ELSE succeeded
  /\ loop' = "idle" /\ job' = NoJob
  /\ UNCHANGED <<balance, journal, accepted, queue, eventStore>>

\* The server stops and starts again: the database remains, memory is lost.
\* A graceful shutdown cancels the workers and loses the queue as well.
Crash ==
  /\ queue' = <<>>
  /\ loop' = "idle" /\ job' = NoJob
  /\ eventStore' = {}
  /\ disturbed' = TRUE
  /\ UNCHANGED <<balance, journal, accepted, status, succeeded>>

\* An event replicated from a peer wins over the local state and overwrites
\* the balance, never with a negative one.
ReplicatedWrite(a, v) ==
  /\ loop = "idle"
  /\ Len(journal[a]) < MaxJournal
  /\ LET new == IF v < 0 THEN 0 ELSE v
     IN  /\ balance' = [balance EXCEPT ![a] = new]
         /\ journal' = AddRow(journal, a, TxRow("replicated", NoAccount, 0,
                                                balance[a], new, NoAccount))
  /\ UNCHANGED <<accepted, status, queue, loop, job, eventStore, succeeded,
                 disturbed>>

Client == \E s \in Submissions : Create(s) \/ Duplicate(s)

Server == Enqueue \/ Take \/ Decline \/ Apply \/ RollBack \/ Finish

Peer == \E a \in Accounts, v \in PeerBalances : ReplicatedWrite(a, v)

Next == Client \/ Server \/ Peer \/ Crash

\* The event loop runs every ready coroutine, in FIFO order: a coroutine that
\* has started goes on, and a worker with a message gets its turn however
\* many requests arrive.
Fairness ==
  /\ WF_vars(Enqueue) /\ WF_vars(Decline) /\ WF_vars(Apply \/ RollBack)
  /\ WF_vars(Finish)
  /\ SF_vars(Take)

Spec == Init /\ [][Next]_vars

FairSpec == Spec /\ Fairness

-----------------------------------------------------------------------------
(* Properties.                                                             *)

\* The variables keep their types, and a coroutine runs for some submission.
TypeOK ==
  /\ balance \in [Accounts -> Int]
  /\ journal \in [Accounts -> Seq(Row)]
  /\ accepted \subseteq Submissions
  /\ status \in [RequestIds -> Statuses]
  /\ queue \in Seq(Submissions)
  /\ loop \in Steps
  /\ job \in Submissions \cup {NoJob}
  /\ loop = "idle" <=> job = NoJob
  /\ eventStore \subseteq RequestIds
  /\ succeeded \subseteq Submissions
  /\ disturbed \in BOOLEAN

\* The row that says the operation of s was carried out.
Records(s, row) ==
  /\ OwnRow(s.rid, row)
  /\ row.kind = IF s.kind = "transfer" THEN "transfer_out" ELSE s.kind
  /\ row.amount = s.amount
  /\ row.party = s.to

CarriedOutIn(j, s) == \E row \in RowsIn(j, s.acct) : Records(s, row)

CarriedOut(s) == CarriedOutIn(journal, s)

\* What a client learns by polling its request agrees with the ledger, through
\* crashes, failed commits and retries: "completed" only when the operation the
\* entry was created for has been carried out, "failed" only when the request
\* moved no money (routes 587-604 reports what async_messaging 99-166 wrote).
StatusAgreesWithJournal ==
  \A s \in accepted :
    /\ status[s.rid] = "completed" => CarriedOut(s)
    /\ status[s.rid] = "failed" => ~Posted(s.rid)

\* A request that waits, or that is about to be carried out, has not been
\* carried out already, and no request waits twice: what makes the unique
\* transaction id the last line of defence and not the first.
WaitingRequestsAreOpen ==
  /\ \A i \in DOMAIN queue :
       /\ queue[i] \in accepted
       /\ status[queue[i].rid] = "received"
       /\ ~Posted(queue[i].rid)
       /\ \A j \in DOMAIN queue : queue[i].rid = queue[j].rid => i = j
       /\ job # NoJob => job.rid # queue[i].rid
  /\ loop \in {"enqueue", "operate"} => ~Posted(job.rid)

\* A transfer between an account and itself: both UPDATEs hit the same row.
SelfTransfer(a, row) == row.kind \in {"transfer_out", "transfer_in"} /\ row.party = a

\* The balance before the i-th of some rows of account a.
PreviousAfter(a, rows, i) == IF i = 1 THEN InitialBalance[a] ELSE rows[i - 1].after

Explains(a, rows, b) ==
  /\ b = PreviousAfter(a, rows, Len(rows) + 1)
  /\ \A i \in DOMAIN rows :
       ~SelfTransfer(a, rows[i]) => rows[i].before = PreviousAfter(a, rows, i)

\* The statement of an account explains its balance: each transaction starts
\* from the balance the previous row ended with, and the last row ends with the
\* balance of the account.  (A transfer from an account to itself is recorded
\* with balances that never existed; such rows are left out.)
JournalExplainsBalance == \A a \in Accounts : Explains(a, journal[a], balance[a])

\* The two legs of a transfer stand or fall together, with the same amount,
\* whatever stops the server (operations 598-664: two UPDATEs, two rows, one
\* commit).
TransferLegsPaired ==
  \A a, b \in Accounts :
    /\ \A out \in Rows(a) :
         out.kind = "transfer_out" /\ out.party = b
           => \E in \in Rows(b) : /\ in.kind = "transfer_in"
                                  /\ in.id = InLeg[out.id]
                                  /\ in.party = a
                                  /\ in.amount = out.amount
    /\ \A in \in Rows(b) :
         in.kind = "transfer_in" /\ in.party = a
           => \E out \in Rows(a) : /\ out.kind = "transfer_out"
                                   /\ in.id = InLeg[out.id]
                                   /\ out.party = b
                                   /\ in.amount = out.amount

\* A client that got a success answer, at once or from the cache on a retry, is
\* not told so in vain: its request has moved money (routes 461-468, 742-748).
SuccessMeansPosted == \A s \in succeeded : Posted(s.rid)

\* No step of this server takes an account below zero, whatever it starts with
\* and whatever waits in the queue (operations 223-240, 542-555).
NoOverdraft ==
  [][\A a \in Accounts : balance'[a] < balance[a] => balance'[a] >= 0]_vars

\* Without crashes and failing commits every accepted request is decided, so
\* that polling for it ends (async_messaging 77-97).
RequestsResolve ==
  \A r \in RequestIds :
    status[r] = "received" ~> (status[r] \in {"completed", "failed"} \/ disturbed)

\* README.md 546 tells clients to poll until the request is completed or
\* failed, and line 24 that no money is lost due to crashes: every accepted
\* request is decided, crashes or not.
EveryRequestResolves ==
  \A r \in RequestIds :
    status[r] = "received" ~> status[r] \in {"completed", "failed"}

\* The parts that make the properties above inductive: a request id has one
\* entry, and the running coroutine knows what became of its request so far.
EntriesAreUnique ==
  /\ \A s, t \in accepted : s.rid = t.rid => s = t
  /\ \A r \in RequestIds : status[r] # "absent" <=> \E s \in accepted : s.rid = r
  /\ \A r \in RequestIds : Posted(r) => status[r] # "absent"

RunningJobIsOpen ==
  loop # "idle" =>
    /\ job \in accepted
    /\ status[job.rid] \in {"received", "processing"}
    /\ loop = "enqueue" => status[job.rid] = "received"
    /\ loop = "confirm" => CarriedOut(job)
    /\ loop = "reject" => ~Posted(job.rid)

PipelineInv ==
  /\ TypeOK
  /\ EntriesAreUnique
  /\ RunningJobIsOpen
  /\ WaitingRequestsAreOpen
  /\ StatusAgreesWithJournal
  /\ SuccessMeansPosted

-----------------------------------------------------------------------------
(* Refinement: the pipeline implements the ledger it stands for.           *)

Postings(a) ==
  {[id |-> row.id, leg |-> IF row.kind = "transfer_in" THEN "credit" ELSE "own"] :
     row \in LocalRows(a)}

Outcome ==
  [r \in RequestIds |-> CASE status[r] = "completed" -> "confirmed"
                          [] status[r] = "failed"    -> "rejected"
                          [] OTHER                   -> "open"]

Ledger == INSTANCE PaymentLedger
            WITH posted  <- UNION {Postings(a) : a \in Accounts},
                 outcome <- Outcome

\* Every request moves its money at most once, atomically and before it is
\* confirmed, and never once it is rejected: see PaymentLedger.
ImplementsLedger == Ledger!LedgerSpec
=============================================================================
