# Verification of the mobile money simulator

TLA+ modules for the parts of this repository that hold or move money, the TLC
configurations that check them on small instances, and TLAPS proofs about all of
them but the simulation. Paths such as `operations.py 223` are files under `src/` of the repository
(`src/core/operations.py` and so on); `PROJECT.json` lists every definition with
the lines it stands for, every run, every hazard and every finding.

## 1. The system

### Parts, their state and their operations

| Part | State | Operations | Module |
|---|---|---|---|
| HTTP handlers, `api/routes.py` | none of their own | withdraw, deposit, transfer, account creation, request status, USSD gateway, gossip endpoints, routing, start and stop | RequestPipeline, USSDSession, Replication, ClientFailover, Membership |
| Idempotency table, `core/idempotency.py` | rows of `requests` (database) | create an entry, look it up, update its status | RequestPipeline |
| Operation processor, `core/async_messaging.py` | a queue in memory, worker tasks | enqueue, process, start, stop | RequestPipeline |
| Account operations, `core/operations.py`, `models/` | `accounts`, `transactions` (database) | withdraw, deposit, transfer, balance, mini statement | RequestPipeline |
| Event store, `core/events.py` | events in memory | add, mark applied, serialise | RequestPipeline, Replication |
| Replication manager, `distributed/replication_manager.py` | pending events in memory, `events` (database) | queue, post a batch, apply a peer's event | Replication |
| USSD protocol, `ussd/protocol.py` | `ussd_sessions` (database) | get or create, update, delete a session, menus | USSDSession |
| In-process node, `core/distributed_node.py`, `checkpoint.py`, `distributed_system.py` | event log, checkpoint, locks | deposit, withdraw, coordinated and quorum withdrawal, balance | CoordinatedWithdraw, QuorumWithdraw |
| Event log, `core/event_log.py` | events by id | add, merge, select, compute balances | EventLog |
| Two-phase commit, `core/coordinated_commit.py` | transactions, votes, account locks | create, vote, decide, finalise | CoordinatedWithdraw |
| Peer-to-peer quorum, `core/quorum_replication.py` | transactions, votes, account locks | initiate, vote, decide, apply, reject | QuorumWithdraw |
| Gossip node, heartbeats, discovery registry, `distributed/gossip.py`, `heartbeat_worker.py`, `discovery_registry.py` | peers and their last contact, a registry file all servers share, the peers the worker knows | start, stop, register, fetch and merge, heartbeat, answer | Membership |
| Consistent hashing, `distributed/hashing.py` | the ring and its nodes | add, remove, look up, failover order | HashRing |
| Clients, `client/`, client discovery | the list of servers, the call in progress | discover, balance, create an account, deposit, withdraw, poll | ClientFailover |
| `event_model_sim/` | logs and contiguous checkpoints of its own nodes | deposit, withdraw, synchronise | EventModelSim |
| Write-ahead log, quorum writer, conflict resolver (`core/`) | lists in memory | constructed at the start, never called by a handler | not modelled |
| `config/`, `scripts/`, `docker-compose.yml`, seed data | none that is shared | | not modelled |

### How they interact

A client's request reaches a handler, which looks the request id up in the
idempotency table and creates an entry. A withdrawal or a deposit is put in the
queue and carried out later by a worker; a transfer is carried out by its
handler. The operation changes the account, writes rows of the transactions
table, puts an event in the event store and gives it to the replication manager.
The replication loop posts batches of events to the peers gossip believes alive;
a peer's sync-state handler overwrites its own balance with the one in the event
if no later event on that account was received. The USSD gateway keeps a session
per phone and, at a confirmation, submits to the same queue. All of this runs as
coroutines of one event loop per server, with one SQLite file per server.

Servers find each other through one registry file: the discovery worker of each
writes its own row, reads the others and calls back into the gossip node and the
hash ring when a peer has come or gone. The heartbeat worker posts to gossip's
peers and notes which of them answer; replication posts to those alone. A client
asks any server for the servers its phone number is routed to, then goes round
that list, one attempt after the other, and polls the first server of the list for
the outcome. Requests are in the database of the server that took them: only
balances are replicated.

The in-process nodes are a second, separate system: objects that call each other
directly, one thread per client call, a reentrant lock per node. The event model simulation
is a third, of one thread.

### What is hard

* commits that fail, and a process that stops, between two commits of one operation;
* retries in every state of the first attempt, and request ids that two operations share;
* values read before and used after other operations have run (balances, sessions,
  votes, checkpoints);
* calls that hold one lock while they wait for another, with timeouts that give up;
* events that arrive late, in other orders, or not at all;
* peers that are removed while a heartbeat to them is under way, rows written again
  after a stop has deleted them;
* posts that a server takes although the client has given them up.

The hazards of `PROJECT.json` give the line of each and the property about it.

### What makes each part correct

* Pipeline: money moves at most once per request and in one step; what a client is
  told agrees with the ledger; every statement explains its balance; no step
  overdraws; an undisturbed server decides every accepted request.
* USSD: what is queued is what its caller was last asked to confirm, unless that
  question was lost; it is queued once per session.
* Replication: a replica holds the last write it has received; what is not lost or
  refused arrives.
* Two-phase commit: replicas decide alike and only after all agreed; reservations
  last until they are settled; every call returns.
* Quorum withdrawal: while ids do not repeat, no event is refused for its id;
  checkpoints agree with the log, a request is in a log once, account locks belong to a
  call, every call returns.
* Membership: nobody who was removed comes back by an old answer; rings with the same
  members agree, however they came about, and numbers move no more than they must;
  when nothing changes, every server knows those that run and no others.
* Clients: an operation is repeated only after a post that was taken and not heard
  of, what the user is told is true, every call returns.
* Simulation: a checkpoint covers every event up to its id; while no request is
  repeated the nodes act as one account and agree in the end.

## 2. Modules

| Module | Models | Composes |
|---|---|---|
| PaymentLedger | what one server promises its clients: the abstract specification | |
| RequestPipeline | handlers, idempotency, queue, workers and operations of one server | refines PaymentLedger |
| MCRequestPipeline | two accounts, submissions that compete and collide | |
| RequestPipelineProofs | theorems about RequestPipeline | uses SumTheorems |
| USSDSession, MCUSSDSession | the session table and the menu dialogue | |
| USSDSessionProofs | theorems about USSDSession | |
| Replication, MCReplication | servers exchanging balance events | |
| ReplicationProofs | theorems about Replication | uses SumTheorems |
| EventLog | the log of an in-process node and its balances, as operators | |
| AtomicCommit | what a two-phase commit promises: the abstract specification | |
| CoordinatedWithdraw, MCCoordinatedWithdraw | coordinated withdrawals | uses EventLog, refines AtomicCommit |
| CoordinatedWithdrawProofs | theorems about CoordinatedWithdraw | uses SumTheorems |
| QuorumWithdraw, MCQuorumWithdraw | plain and quorum withdrawals, event ids, checkpoints | uses EventLog |
| QuorumWithdrawProofs | theorems about QuorumWithdraw | uses SumTheorems |
| SumTheorems | lemmas about sums over finite sets: amounts of events, values of a function | |
| HashRing | the ring of a server, as operators | |
| Membership, MCMembership | registry, discovery workers, gossip peers, heartbeats and rings | uses HashRing |
| MembershipProofs | theorems about Membership and its rings | |
| ClientFailover, MCClientFailover | one client and the servers it turns to | what RequestPipeline has in detail, in one step each |
| ClientFailoverProofs | theorems about ClientFailover | |
| EventModelSim, MCEventModelSim | the simulation of the event model | |

In every module a block "bug variants" or a comment "A bug variant of the
definition that follows" marks a definition nothing uses: it is the following
definition with a plausible mistake. Putting it in place of the real one must
make a property fail; `PROJECT.json` names the pairs under "mutants", one for
each property of each passing run.

### RequestPipeline

| Variable | Code |
|---|---|
| `balance` | `Account.balance` |
| `journal` | per account, its `Transaction` rows and the replicated events that overwrote the balance, in commit order |
| `accepted`, `status` | rows of `requests`: what they were created for, `Request.status` |
| `queue` | `AsyncOperationProcessor.queue` |
| `loop`, `job` | where the running coroutine is, and the submission it works for |
| `eventStore` | request ids with an event marked applied |
| `succeeded`, `disturbed` | history variables: success answers given; whether something crashed or failed |

| Action | Code |
|---|---|
| `Create`, `Duplicate` | the lookup and the creation of an entry, routes 428-482, 694-755, idempotency 42-151 |
| `Enqueue`, `Take` | async_messaging 61-110 |
| `Decline`, `Apply`, `RollBack` | the early returns, the commit and the rollback of an operation, operations 199-664 |
| `Finish` | the final status update, async_messaging 112-166, routes 720-755 |
| `Crash` | stop and start: memory is lost, the database stays |
| `ReplicatedWrite` | a peer's event overwrites a balance, replication_manager 247-393 |

No handler or worker awaits anything that is not ready between its first and its
last database access, so the event loop runs them one at a time. They are still
split into one step per commit, because each commit may fail and the server may
stop between any two.

### USSDSession

`row` is the `ussd_sessions` table, `phone` what each caller has before him (the
prompt and the session id), `queued` what each session has submitted, `unclosed` the
sessions whose deletion failed after a confirmation. A handler is one step; between two
of its look-ups the session may expire, and its commits may fail. A reply may be lost,
after which the same key may be sent again. What a caller knows is not what the server
sent: `quoted` is the order in the last question to confirm, and `Unheard` if that
question did not reach the phone (`ReplyAsking`); `astray` are the phones whose prompt
is not the state of their session, because the last reply was lost or they dialled again
into a dialogue that had begun.

`QueuedAsAsked` relates them. It does not say that nothing unconfirmed is queued, which
is false: menu keys are valid amounts, so a key sent three times because its replies
were lost chooses a deposit, enters the amount 1 and confirms it. It says that this
takes a lost question (`Unheard`); that whatever is queued otherwise is the order the
caller was last asked about; and that the prompt he confirms at is the question itself
unless he is `astray`. Without either exception TLC finds the property violated.

### Replication

`balance` and `phone` are two columns of the accounts table of each server, `rows` its
events table, `pending` its queue, `wire` what is left of the batches posted and not yet
handled. An operation and the posting of a batch are one step each. So is the handling
of a batch (`Deliver`) up to an event of a transfer on an account the receiver does not
have. The events of a transfer carry no phone number (operations 593-611): the handler
has looked the account up (replication_manager 278) and asks its origin, then other
peers, for the number (285-317), before it inserts a row (325-333). In the model the rest
of the batch stays in `wire`, marked `asking`; other batches and operations go on; and
`Answer` inserts the row with what was answered, or a made-up number, and goes on with
the events that follow, until the next one that must ask.

`Stub` is that insertion. It fails, and the event is lost, if the id has been taken in
the meantime or the phone number is another account's (it is unique, models 20); so does
that of an account whose number the event carries. A batch whose sender has stopped
waiting is still handled, after later ones perhaps; one half handled is lost when its
receiver crashes. What an event looks like once serialised matters (a zero balance
becomes None, both events of a transfer have one request id) and is in `Serialisable` and
`RequestOf`.

`OperationsArrive` has to except the operations lost this way (`Excused`): with an account
the receiver did not have from the start, either a phone number taken there, or a
transfer that another event or a customer of the receiver overtook while it was asking.
TLC finds the property violated without each of them, and an operation that is not
excused arrives.

### CoordinatedWithdraw and QuorumWithdraw

A call is a thread. `lock` is each node's reentrant lock, held by the call on its
own node from beginning to end; `phase` and `todo` say where the call is and which
nodes it has yet to contact; `sync` is a fetch of events in progress, one node
after another and without their locks. Each acquisition of another node's lock has
a timeout action, enabled whenever another thread holds the lock. Everything a node
does under its lock without looking at others is one step.

`EventLog` computes balances exactly as the code does. The "optimized" balance
subtracts the last withdrawal again and ignores others, and a commit subtracts its
amount from a balance that has it already; the models inherit both.

In QuorumWithdraw `QuorumSize` is 1, since every manager is made with
`total_nodes=1` and nothing changes it (distributed_node 79-83): one accepted vote,
the caller's own perhaps, is a quorum. Event ids come from a shared clock, the
node's hash and a counter, as in `EventIDGenerator`; CoordinatedWithdraw simply
takes the next number.

### HashRing and Membership

A ring is a function from the taken positions to their owners; SHA-1 is a constant.
`Place` tries salts until a position is free, `RemoveNode` deletes the positions of
the unsalted keys, as the code does.

| Variable | Code |
|---|---|
| `registry` | the rows of `registry` in the shared file: the age of each server's `last_seen` |
| `loop`, `snapshot`, `known` | the discovery worker: where it is, what the read has returned, `_known_peers` |
| `writing` | a registration whose thread goes on after the stop has cancelled its task |
| `peers` | `GossipNode.peers`: the age of each last contact |
| `ring`, `nodes` | `hash_ring` and `nodes` of the consistent hash |
| `beats` | the heartbeats of a round that have not ended |

| Action | Code |
|---|---|
| `Start`, `Stop`, `Deregister`, `Crash` | routes 142-178 and 258-273, discovery_registry 178-201 |
| `Register`, `Fetch`, `Merge`, `RoundFails` | a round of the worker, from one await to the next, discovery_registry 203-240, with the callbacks of routes 191-201 |
| `RegisterLate` | the thread that a stop leaves behind |
| `SendHeartbeats`, `HandleHeartbeat`, `HeartbeatAnswered`, `HeartbeatFailed` | heartbeat_worker 64-166, gossip 343-366 |
| `Tick` | time |

Ages are counted up to where they make no difference any more (`Gone` and `TTL`), so
that time needs no bound.

### ClientFailover

The client has `urls`, `op`, `call`, `phase`, `attempt` and what it polls for; a server
has its `requests`, its `queue`, the `account` and what it has `charged`. A post travels
(`Send`, then `TakeOperation`, `RefuseOperation`, `TakeAccount` or `RefuseAccount`, then
`Receive`), and the client may give it up at any moment (`Timeout`), after which it may
be handled late. A query changes nothing on a server, so it is one step (`Query`), or
fails (`Refused`). `Work` is a worker that carries a request out or refuses it;
RequestPipeline has what happens inside. `unheard` counts the posts that a server took
and the client gave up on, the only excuse for a repetition. The user's session is a
search for a server, a balance, perhaps a new account, and one operation; the
operations are those of the client library, with the wait of the phone's own handlers
(ussd_phone_client 351-480); the phone's main loop uses the USSD gateway for them, which
USSDSession has.

### EventModelSim

One thread, so each operation is one step with the calls it makes on the peers.
`Advance` takes a checkpoint through the ids that follow each other in the log;
`SyncAll` fetches from one peer after the other, each time from the checkpoint as it
has become.

## 3. Runs

Passing runs:

| Run | Instance | Shows |
|---|---|---|
| `request_pipeline` | two accounts (balances 2 and 0), five submissions: a transfer, a withdrawal that competes with it, a deposit whose id is the transfer's credit leg, a transfer to oneself and one to nobody; peers write -1 or 1 into an account without rows; commits fail and the server stops anywhere (about 306,000 states) | statuses, journal and balances agree; `ImplementsLedger`; `RequestsResolve` |
| `coordinated_withdraw` | three nodes that hold 2, calls for 1 and 2 on different coordinators, up to two event ids spent on deposits before the calls' own (about 274,000 states) | decisions are atomic, `ImplementsAtomicCommit`; reservations hold and are covered (`PromisesAreCovered`); calls return |
| `ussd_session` | one phone, two sessions, two operations per session at most, lost replies, expiry and failing commits (about 1,155,000 states) | what is queued is what the phone was last asked about, unless the question was lost, and once; sessions do not come back |
| `replication` | three servers with different accounts and phone numbers, two operations on one and one on another, two timestamps, batches of two, unordered clocks, losses, stops, crashes, handlers that ask peers (about 312,000 states) | replicas hold the last write received; what is not lost, nor kept out by a taken number or id, arrives |
| `quorum_withdraw` | two nodes, a quorum withdrawal on each, a plain retry of the first on the other node, at most one deposit per node and millisecond, two milliseconds (about 169,000 states) | with distinct hashes no event is refused for its id; checkpoints agree with logs, calls return |
| `membership` | two servers that start, stop and crash, each with a bootstrap peer, and the row of a third that has crashed (about 212,000 states) | late answers revive nobody; rings agree; who runs is known in the end |
| `client_failover` | two servers, one with the customer's account, an operation with a reference or without, a crash, late and lost posts (about 1,000,000 states) | repetitions only after posts that were taken and not heard of; the phone tells the truth; calls return |
| `event_model_sim` | three nodes, four operations under at most four requests, and the final synchronisation (about 37,000 states) | checkpoints are complete; the nodes act as one account and agree |

Violation runs, each a disagreement between the code and a text of the repository
(`findings` in `PROJECT.json` quotes both):

| Run | Property | What happens |
|---|---|---|
| `pipeline_crash_strands` | `EveryRequestResolves` | a crash empties the queue; accepted requests stay received for ever |
| `coordinated_all_or_nothing` | `AllOrNothing` | a commit that cannot get a replica's lock is dropped, and the call reports success |
| `replication_diverges` | `ServersAgreeWhenQuiet` | two servers exchange their balances and stay apart |
| `client_charged_once` | `ReferenceChargedOnce` | the answer of one server is lost, the next does not know the reference and charges again |

What the models contain besides, and no run states as wrong:

* A deposit under the reference of an earlier withdrawal is answered with that
  withdrawal's status, and nothing is deposited; `SuccessMeansPosted` speaks of the
  submission an entry was created for.
* The event of an operation whose commit fails stays in the event store, applied and
  queued for replication.
* A deposit between prepare and commit of a coordinated withdrawal is counted twice
  afterwards: the condition of `PromisesAreCovered` is that no deposit in the node's
  log is younger than a withdrawal.
* A coordinated withdrawal without a request id (SYSTEM_OVERVIEW.md 249 shows such a
  call; the tests give an id) is in a log once for each replica's own event that a
  merge brings there, and counts as often. `PromisesAreCovered` fails for it, and
  `OneEventPerRequest` speaks of given ids only.
* Redialling shows the main menu over a session that waits for a confirmation.
* A key sent again because its reply was lost may confirm an order nobody was shown
  (section 2, USSDSession); and after a session's deletion has failed, the answer that
  queued its operation queues it again, as often as it is sent. `QueuedAsAsked` and
  `QueuedOnce` except these.
* An event is lost, with no batch lost, if it has a zero balance, if it is the second of a
  transfer, or if its account cannot be inserted (section 2, Replication).
* One accepted vote is a quorum.
* Creating an account that exists is answered with a server error, so that a client
  goes on to the next server (`RefuseAccount`).
* In the simulation a repeated request uses up an id for which there is never an
  event, and no checkpoint advances beyond it; hence `NoneRepeated`.

### Bounds, and why they are enough

* `MaxJournal = 1`: a peer overwrites an account before or after one local row. What
  matters is an overwrite before, between or after the steps of an operation; later
  overwrites meet the same code with another journal prefix, and the proofs, which
  have no such bound on operations, cover the journal.
* Five submissions give every pair that can interfere: same funds, same row id, same
  account, retries of each in every status. Submitting again is unbounded.
* `MaxEvents = 2`: a deposit may fall before, between and after the phases of a call.
* `MaxSessions = 2`, `MaxQueued = 2`: an expired or closed session and its successor, and
  one operation more than a session may queue. Phones share no state.
* `MaxTime = 2`, `MaxOps = <<2, 1, 0>>` in `replication`: equal and different timestamps, a
  transfer, which takes two events, with another operation, so that `BatchSize = 2` is
  exceeded and a rest must wait; the third server only receives, with batches of both
  others that arrive in any order or while it asks. Server 1 has two accounts, server 2
  the first of them, and server 3 the first number for the customer of server 1's second,
  so that ids are taken and missing, and numbers free and taken.
* `MaxPerMs = 0`: deposits of a node stop once it has generated an id in the
  millisecond; with the calls it still generates several ids in one. `Slots = 5`
  stands for 256 and is larger than anything the counter reaches (`IdsAssumption`).
* Two nodes in `quorum_withdraw`: each is caller, voter and receiver at once, and the
  two quorum calls wait for each other's votes. Three nodes are in `coordinated_withdraw`.
* `InitialBalance = 2` in `coordinated_withdraw`: each call is covered, both are not.
* `MaxChanges = 3` in `membership`: two servers start, and one of them stops, crashes or
  misses a round; or one starts, stops and starts again while its registration is under
  way. The third server only has a row that ages: it is a bootstrap peer that never
  answers, and a peer that is found and lost. Heartbeats of one server (`Beating`) meet
  every change of its peers. `TTL = 1` is one tick between fresh and expired; ticks are
  unbounded. Two virtual nodes per server lie between each other's, and of two numbers
  one hashes to a position of the ring itself. `Salts = 0`: no two positions coincide.
* `MaxRetries = 2`, `MaxPolls = 2`, two servers: a list is gone round twice, and the same
  server may take a post, lose the answer and get it again. `Funds = 2` per server: an
  operation can be repeated wherever it can be sent. `MaxLate = 1`: one given-up post at
  a time is late, which may be of an earlier attempt or call.
* Four operations on three nodes: two deposits on two nodes, a withdrawal that needs
  both and a later one that is checked against what is left. Requests are symmetric.

`CHECK_DEADLOCK FALSE` where a system may stop: calls are finite (coordinated and
quorum withdrawal, client), and sessions, times and operations are bounded (USSD,
replication, simulation). In `membership` time always passes, so that a deadlock could
not occur. The pipeline is checked for deadlock.

### Fairness

* Pipeline: the steps of a running coroutine are weakly fair, and a worker's taking of a
  message is strongly fair: the event loop runs ready coroutines in turn, so a worker
  that waits is not passed over however many requests arrive. Clients, peers and
  crashes have no fairness. `RequestsResolve` excepts runs that a crash or a failing commit has
  disturbed.
* Withdrawals: each call's thread is weakly fair. A timed wait for a lock ends, so one
  of its two outcomes is always enabled.
* Replication: the loop of every server and the handling of some posted batch are
  weakly fair, the latter as the wait for an answer has a time limit; `OperationsArrive`
  excepts runs in which a batch was lost or never sent, or a crash took what was pending
  or half handled.
* Membership: each server's own steps, the end of its posts and time are weakly fair.
  Nothing makes a server start, stop or crash, nor a heartbeat arrive. Convergence
  is asked of behaviours in which, from some time on, running servers renew their rows
  before these expire; the settings renew a row every 5 seconds and let it live for 15.
* Client: its thread goes on and its timeouts run out, `WF_vars(Progress)`; nothing
  makes a server answer, so that calls return because attempts and polls are counted.
* USSD and the simulation have only safety properties: callers may hang up, and the
  simulation is a straight program.

## 4. Proofs

Each theorem is about the specification without fairness, for every value of the
constants that satisfies the module's assumption (`PipelineAssumption`,
`CallsAssumption` and so on, which say of the constants what the code makes sure
of), without symmetry and with any number of accounts, nodes, calls, servers, phones
and operations. These assumptions are made besides, named in the theorems themselves:

* `IdsAssumption` (quorum withdrawal, an assumption of the module): the names of the
  nodes hash differently, and no node generates 256 ids in one millisecond. The code does
  not see to it: the hash has 8 bits. `IdsRepeatTheorem` alone does not use it, and says
  when ids are the same without it.
* `PositionsDiffer` (rings): no two virtual nodes hash to the same position. This is
  so for the names `server_1` to `server_100` with 150 virtual nodes each; without it
  `RouteNamesMembers` is false, as the hazard at hashing 105 says.
* `Cardinality(Servers) <= 3` (replication): as many servers as `docker-compose.yml`
  starts. The rule for late events takes any one of the latest events of an account
  when several have one timestamp; with a fourth server the database may return one
  that a new event wins against, although it loses against another. The repository's
  README tells how a fourth server is added (1182-1201, 1342): nothing is claimed of
  such a cluster, by the theorems or by the runs.
* `RequestsGiven` (coordinated withdrawal, `PromisesTheorem` only): calls have request
  ids, as in all tests; without them the property is false, as said in section 3.
* `IsFiniteSet(Accounts)` (pipeline, `PipelineConservesMoney` only), so that there is a sum.

An invariant the runs check is seldom inductive. Each proof module states the
invariant that is (`...Inv`), shows in one lemma for each action, or for the few ways
in which actions change the state, that steps keep it, and derives the others
from it.

### RequestPipelineProofs

| Theorem | States |
|---|---|
| `PipelineTypeOK` | the type invariant |
| `PipelineJournalExplainsBalance` | the rows of an account explain its balance |
| `PipelineNoOverdraft` | no step takes an account below zero |
| `PipelineInvariant` | the inductive invariant `PipelineInv` |
| `PipelineStatusAgreesWithJournal` | completed requests were carried out, failed ones moved no money |
| `PipelineWaitingRequestsAreOpen` | nothing that waits was carried out, and nothing waits twice |
| `PipelineSuccessMeansPosted` | a success answer is about money that moved |
| `PipelineTransferLegsPaired` | the rows of a transfer are there together or not at all |
| `PipelineImplementsLedger` | refinement: every step is a step of PaymentLedger, or none |
| `PipelineConservesMoney` | the accounts together gain or lose only what an operation brings or takes, or a peer overwrites |

`TypeOK` and `JournalExplainsBalance` are inductive, the second relative to the
first. `StatusAgreesWithJournal` is not: that `Finish` may write "completed" needs to
know that the running job was carried out (`RunningJobIsOpen`), that a retry cannot
queue a second copy needs one entry per request id (`EntriesAreUnique`), and that the
operation about to run has not run needs the queue (`WaitingRequestsAreOpen`). The
conjunction is `PipelineInv`; the proof has one lemma per action, over two lemmas
about which rows an operation adds (`PostRows`, `PostPosted`). The refinement needs
it too: that an operation is carried out by the ledger at most once is what
`RunningJobIsOpen` says. `PipelineConservesMoney` is about the same operations as sums:
a transfer debits first and credits what it reads then, so that it conserves money
also from an account to itself.

### CoordinatedWithdrawProofs

| Theorem | States |
|---|---|
| `CommitInvariant` | the inductive invariant `CommitInv` |
| `ReservationsTheorem` | a reservation has its one prepared event until its own call settles it |
| `AppliedTheorem` | money leaves a log only after a decision to commit |
| `RequestTheorem` | a request is in a log once |
| `AccountLockTheorem` | an account is locked by the running call that has the node's lock |
| `CommitRefinement` | refinement: the nodes implement AtomicCommit |
| `AgreementTheorem` | no replica drops a withdrawal that another has applied |
| `CoverInvariant` | the inductive invariant `CommitInv /\ CoverInv` |
| `PromisesTheorem` | what a node has spent or promised is covered by what it received |
| `MergeAddsInOrder` | merging sets of events is the code's loop, which adds them one by one by id |

`CommitInv` has layers. `Locks` says what is behind a held lock: a running call, on its
own node or at the one it asks. `VotesTell` ties a call's votes to the nodes it has yet
to contact. `Reservations` ties what a node keeps to the vote it gave, so that a second
call or a late timeout cannot take it away. `LogsFollowDecisions` follows events also
while they are fetched without a lock, which `AppliedOnlyWhenDecided` by itself does not
see; and `IdsAreUnique` is what makes each replica's own event for a call a different
one, of which a merge keeps the oldest.

`AllOrNothing` fails because a replica may keep a prepared event for ever; what remains
of it is `AgreementTheorem`, a consequence of the votes that stand behind a decision.

`PromisesAreCovered` compares sums, and what a node grants it computes from its
checkpoint, whose balance is a figure that commits have changed and not a sum of the
log. `Covered` relates them in two inequalities. The first: the balance of the
checkpoint and what the settled calls of the log have taken are no more than the
initial balance and the deposits up to the checkpoint. With it a commit, which moves the
checkpoint and subtracts once more, cannot raise what is granted next. The second is the
property, with the settled calls counted instead of their events. Both are asked only of
a node whose log is `InOrder`, without a deposit younger than a withdrawal. Logs only
grow, so a log that is out of order stays so, and an invariant with this premise can be
kept step by step; what a commit puts in the log is older than a deposit made since the
prepare, so such a node loses the premise with the commit. That events are finitely many is part of
`CommitInv` (`IdsAreUnique`), as sums need it. At the end `WeightsRename` turns the sum
over the calls into that over their events, for which each call must have one:
`OneEventPerRequest`, hence `RequestsGiven`.

### QuorumWithdrawProofs

| Theorem | States |
|---|---|
| `QuorumInvariant` | the inductive invariant `QuorumInv` |
| `IdsRepeatTheorem` | two generated ids are equal exactly if their milliseconds, hashes and counters modulo 256 are |
| `CheckpointTheorem` | a checkpoint is as of the newest own event and has the totals of the own events |
| `QuorumRequestTheorem` | a request is in a log once |
| `QuorumAccountTheorem` | a locked account tells of a running call or of a duplicate |

`QuorumInv` includes `RefusedOnlyAsDuplicate`, that an event is refused for its request
and not for its id. This holds under `IdsAssumption`; a theorem of it would say no more
than that the repeats it rules out are the only ones, which `IdsRepeatTheorem` says
without it. The proof needs three facts: `Counters` bounds what a generator counts
in one millisecond by the deposits and calls there are, `Origins` says that every event
anywhere has an id its own node has given out, and the arithmetic of `Stamp` that ids
of different nodes, milliseconds or counts differ. That an event is always in the log
of its own node as well (`Origins`) also makes checkpoints right: no merge brings a node an
event of its own that it lacks. Checkpoints hold totals, sums over the own events of a
log (SumTheorems).

### USSDSessionProofs

| Theorem | States |
|---|---|
| `SessionInvariant` | the inductive invariant `SessionInv` |
| `PendingOrderTheorem` | a session that asks for a confirmation has a complete order |
| `ActiveSessionTheorem` | a phone has one session alive |
| `QueuedOnceTheorem` | a session whose deletion did not fail queues one operation at most |
| `QueuedAsAskedTheorem` | every step that queues an operation queues the order its phone was last asked about, unless that question was lost, and at the question unless the phone is `astray` |
| `ExpiredTheorem` | a session that is over stays so and queues nothing |

`SessionInv` adds whose a session is (`SessionsAreOwn`), that an order which waits is the
one its phone was last asked about or one whose question was lost (`PendingIsQuoted`),
that a phone which is not astray sees the state of its session (`InStep`), and that a
session which can still be confirmed for the first time has queued nothing.

### ReplicationProofs

| Theorem | States |
|---|---|
| `ReplicationInvariant` | the inductive invariant `ReplicationInv` |
| `LastWriteTheorem` | a replica holds what the last write it has received left |

A batch is handled by a fold, an event at a time, over the tables and the events that
must wait; `Sound` says what is kept of these (`HandleKeeps`, `BatchKeeps`), so that it
does not matter where a handler stops to ask and what runs meanwhile. `StoredKeeps` is
about one row: the rule for late events compares it with one of the latest, and
`LatestWillDo` shows that the comparison comes out as with the last. This needs rows to be
of other servers and one of each request, and so what is queued and under way to be of
its sender, which the rest of `ReplicationInv` says. Accounts the server operates on
itself are left out, as in the property: there the rule fails (`replication_diverges`).

### MembershipProofs

| Theorem | States |
|---|---|
| `PeersTheorem` | gossip's peers are those discovery knows and bootstrap ones |
| `RingInvariant` | the inductive invariant `RingInv` |
| `RoutesAgreeTheorem` | servers with the same members route alike, however their rings came about |
| `RouteTheorem` | a route names every member, each once, and the ring's answer first |
| `AssignmentTheorem` | a change of members moves a number only to a newcomer or away from one that left |

`RingInv` says that the ring of a server is `RingOf` its nodes, a function of the set: no
order of arrivals and departures is left in it. This follows from `AddNodeIs` and
`RemoveNodeIs`, and from `PositionsDiffer`, by which a salt is never needed. That a
server stays on its own ring needs that discovery never lists it. The walk of a
look-up with failover meets the positions in the order of their distance (`RanksFill`,
`WalkIs`), so that it ends with every node met.

### ClientFailoverProofs

| Theorem | States |
|---|---|
| `ClientInvariant` | the inductive invariant `ClientInv` |
| `ReferenceTheorem` | an operation with a reference is charged once by each server |
| `UnheardTheorem` | an operation is repeated only for posts that were taken and not heard of |
| `TruthTheorem` | what the user is told is true, but for such posts |

The proof counts. Each request a server has is owed to a post of its own; `Counted` says
that these are no more than the posts the client gave up on, and one that it waits for
or has heard of (`Settled`). `AnswersTell` keeps the post and its answer from counting
twice.

### Folds, chains and sums

Sums over a set are folds in an order that `CHOOSE` decides. SumTheorems shows that it
does not matter: what adding, removing or renaming elements does to a sum, that sums of
disjoint sets add up and that those of natural numbers grow with the set. Its sums are of
events' amounts (`AmountSum`, the totals of EventLog) or of any function's values
(`WeightSum`, for calls and accounts). ReplicationProofs takes from it that subsets of a
finite set are well founded.

Induction over data is out of the provers' reach, as the library's induction theorems
take an operator as a parameter. Where a fact about a fold or a chain was needed for
every input, it is proved by the least counterexample: the sets of natural numbers and
the subsets of a finite set are well founded, a theorem without such a parameter, so a
set of counterexamples that is not empty has a least one, which contradicts the step
(`LeastSubset`, `LeastNatural`).

### Model-checked only

* Liveness: `RequestsResolve`, the return of calls (coordinated, quorum, client),
  `OperationsArrive`, the convergence of membership. The provers have no rule for
  fairness and `ENABLED`.
* `CheckpointIsComplete`, `NodesNeverOverdraw` and `SyncConverges` of the simulation: they
  need folds of folds and sums over them, for a program of one thread.

## 5. Assumptions of the models

* A commit may fail, a read of the local database may not. Every account is active
  (no code changes `account_status`). Phones of sessions have accounts.
* Amounts are integers of the smallest unit.
* Event ids in CoordinatedWithdraw are unique and grow; in QuorumWithdraw the node
  names hash differently and the clock does not go back, so that what a repeated id does
  is not modelled.
* A deposit or a balance query of an in-process node is one step: while it holds the
  lock it looks at others' logs only to copy them.
* Positions of servers on the ring are distinct. With 32 bits of SHA-1 and 150 virtual
  nodes those of `server_1` to `server_100` are; after a collision, removing a server
  could take a position of another.
* A server that restarts keeps its address within the time to live of its row.
* The customer of ClientFailover has one account; accounts reach other servers by
  replication, requests and later balances are not followed from server to server.
* Functions nobody calls are left out: `cleanup_expired_requests`, `is_duplicate_request`,
  `acquire_lock`, `release_lock`, `cleanup_expired_sessions`,
  `request_withdrawal_from_peer`.

## 6. Not modelled, and why

* The write-ahead log, the quorum writer and the conflict resolver are constructed at
  the start (routes 157, 158, 185) and no handler calls them: no behaviour of a server
  depends on them.
* Rendezvous hashing, which `HASH_STRATEGY` may choose. With it a server cannot answer a
  discovery: `route_request` asks for `_hash` (hashing 286), which that class lacks, and
  the statuses ask for its `get_status`. The routing of a server is modelled with the
  default, the ring.
* The vector clock of the gossip node is incremented and reported and decides nothing.
* Which peers are healthy is a free choice in Replication, wider than what Membership
  allows; the two are not composed.
* The saved copies of checkpoints are loaded by nothing that runs.
* Balance, account and statement queries only read. Configuration, migrations, logging,
  seed data, console scripts and the menus of the clients have no behaviour of their
  own to check.

## 7. Plan

In this order:

1. Theorems about the simulation: `CheckpointIsComplete` first, over SumTheorems, then
   what the nodes have together.
2. A property about owners of accounts in Replication, which has their phone numbers now:
   each server numbers its accounts itself, and the events of one customer's account may
   reach another's.
3. The write-ahead log and the conflict resolver, should a handler come to call them.
