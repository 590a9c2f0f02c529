---------------------------- MODULE ClientFailover ----------------------------
(***************************************************************************)
(* A client and the servers it may turn to: MobileMoneyClient with its     *)
(* retries on other servers (src/client/mobile_money_client.py), the phone *)
(* that polls for the result (ussd_phone_client.py), and on each server    *)
(* the withdrawal handler, the status query and the worker                 *)
(* (src/src/api/routes.py, core/async_messaging.py), which RequestPipeline *)
(* has in detail.                                                          *)
(*                                                                         *)
(* The client is one thread: a call goes round its list of servers, one    *)
(* attempt after the other, until one of them is answered for good.  A     *)
(* post may reach its server after the client has given up waiting, and an *)
(* answer may be lost.  Each server has a database of its own: requests    *)
(* are not replicated.                                                     *)
(***************************************************************************)
EXTENDS Integers, Sequences, FiniteSets

CONSTANTS
  Servers,
  DefaultUrls,    \* the servers the client is made with
  Routes,         \* the orders of servers a server may answer a discovery with
  Listings,       \* what the registry may list
  HasAccount,     \* servers that have the customer's account at the start
  Funds,          \* how many operations the account covers on each server
  Operations,     \* what the user may do, one of them
  Reference,      \* client_reference of each operation
  NoReference, NoOperation,
  MaxRetries,     \* max_retries: attempts for each server of the list
  MaxPolls,       \* status queries before the phone's 20 seconds are over
  MaxLate,        \* bound: posts that are late at a time, more are lost
  MaxCrashes,     \* bound: how often a server crashes
  Nothing         \* no answer

ASSUME ClientAssumption ==
  /\ DefaultUrls \in Seq(Servers)
  /\ Listings \subseteq Seq(Servers)
  /\ Routes \in [Servers -> SUBSET Seq(Servers)]
  /\ HasAccount \subseteq Servers /\ NoOperation \notin Operations
  /\ DOMAIN Reference = Operations
  /\ {Funds, MaxRetries, MaxPolls, MaxLate, MaxCrashes} \subseteq Nat

VARIABLES
  up,        \* servers that run
  requests,  \* rows of the requests table: status of each id of each server
  queue,     \* ids that wait for a worker, in memory
  charged,   \* ids whose operation a server has carried out
  account,   \* servers that have the customer's account
  created,   \* history: those that created it for this client
  posts,     \* posts that have not reached their server yet
  urls,      \* server_urls of the client
  op,        \* the operation
  call,      \* what the client calls for, or has called for last
  phase,     \* where the call is
  attempt,   \* attempts of the call that have failed
  answer,    \* the answer to the attempt, on its way
  polled,    \* the request id the phone polls for
  polls,     \* status queries so far
  told,      \* what the user was told of it
  taken,     \* history: a server has done something for the post of the attempt
  unheard,   \* history: how many such posts, of each call, the client gave up on
  crashes

clientVars == <<urls, op, call, phase, attempt, answer, polled, polls, told>>
serverVars == <<up, requests, queue, charged, account, created, crashes>>
netVars == <<posts, taken, unheard>>
vars == <<serverVars, clientVars, netVars>>

\* The server of the present attempt.
Target == urls[(attempt % Len(urls)) + 1]

\* A call that changes something on a server.
Posting == call \in {"create", "operation"}

Message == [op |-> op, call |-> call, attempt |-> attempt, to |-> Target]

\* A bug variant of the definition that follows.
RequestIdTimed(m) == <<m.to, m.op, m.attempt>>

\* generate_request_id: the reference, or an id nobody has had before.
RequestId(m) ==
  IF Reference[m.op] = NoReference THEN <<m.to, m.op, m.attempt>> ELSE <<Reference[m.op]>>

Known(s, id) == id \in DOMAIN requests[s]

Init ==
  /\ up = Servers
  /\ requests = [s \in Servers |-> <<>>]
  /\ queue = [s \in Servers |-> {}]
  /\ charged = [s \in Servers |-> {}]
  /\ account = HasAccount /\ created = {}
  /\ posts = {}
  /\ urls = DefaultUrls
  /\ op = NoOperation /\ call = "none" /\ phase = "idle" /\ attempt = 0
  /\ answer = Nothing /\ polled = Nothing /\ polls = 0
  /\ told = "nothing"
  /\ taken = FALSE /\ unheard = [c \in {"create", "operation"} |-> 0] /\ crashes = 0

-----------------------------------------------------------------------------
(* The client.                                                             *)

\* The order in which a user of the phone comes to the calls.
Rank == [c \in {"none", "discover", "balance", "create", "operation", "status"} |->
           CASE c = "none" -> 0 [] c = "discover" -> 1 [] c = "balance" -> 2
             [] c = "create" -> 3 [] OTHER -> 4]

Begin(what) ==
  /\ phase = "idle" /\ Rank[call] < Rank[what]
  /\ call' = what /\ phase' = "send" /\ attempt' = 0
  /\ UNCHANGED <<serverVars, netVars, urls, answer, polled, polls>>

\* The session of the phone begins with the search for a server and for the
\* account; without one it may be created.
Discover     == Begin("discover") /\ told' = "nothing" /\ UNCHANGED op
CheckBalance == Begin("balance") /\ told' = "nothing" /\ UNCHANGED op

CreateAccount ==
  /\ Begin("create")
  /\ call = "balance" /\ told # "found"
  /\ told' = "nothing" /\ UNCHANGED op

\* deposit or withdraw of the client.
Operate == Begin("operation") /\ told' = "nothing" /\ op' \in Operations

\* A call ends and the user is told what came of the operation.
Tell(what) ==
  /\ phase' = "idle" /\ attempt' = 0
  /\ told' = what
  /\ UNCHANGED call

\* The attempt has failed: the next server of the list, or the end.
NextAttempt ==
  IF attempt + 1 < Len(urls) * MaxRetries
    THEN attempt' = attempt + 1 /\ phase' = "send" /\ UNCHANGED <<call, told>>
    ELSE Tell("unavailable")

Send ==
  /\ phase = "send" /\ Posting /\ Target \in up
  /\ phase' = "wait"
  /\ posts' = posts \cup {Message}
  /\ taken' = FALSE
  /\ UNCHANGED <<serverVars, unheard, urls, op, call, attempt, answer, polled, polls, told>>

\* No server listens there, or a query gets no answer or a server error.
Refused ==
  /\ phase = "send" /\ (Target \notin up \/ ~Posting)
  /\ NextAttempt
  /\ UNCHANGED <<serverVars, netVars, urls, op, answer, polled, polls>>

\* A post that no server has got yet may be late, or lost.
Abandon ==
  /\ unheard' = IF taken THEN [unheard EXCEPT ![call] = @ + 1] ELSE unheard
  /\ taken' = FALSE
  /\ posts' \in {posts, posts \ {Message}}
  /\ Cardinality(posts') <= MaxLate

\* A bug variant of the definition that follows.
TimeoutOnlyWhenDown ==
  /\ phase = "wait" /\ Target \notin up
  /\ Abandon
  /\ answer' = Nothing
  /\ NextAttempt
  /\ UNCHANGED <<serverVars, urls, op, polled, polls>>

\* The answer does not come in time, or the connection breaks.
Timeout ==
  /\ phase = "wait"
  /\ Abandon
  /\ answer' = Nothing
  /\ NextAttempt
  /\ UNCHANGED <<serverVars, urls, op, polled, polls>>

\* The phone asks for the status of its request, from the first server on.
Poll(id) ==
  /\ call' = "status" /\ phase' = "send" /\ attempt' = 0
  /\ polled' = id /\ polls' = polls + 1
  /\ UNCHANGED told

Done(what) == Tell(what) /\ UNCHANGED <<polled, polls>>

\* A bug variant of the definition that follows.
PostAnsweredRetrying ==
  CASE answer.code \in {"accepted", "error"} -> NextAttempt /\ UNCHANGED <<polled, polls>>
    [] OTHER -> Done(answer.code)

\* A bug variant of the definition that follows.
PostAnsweredNotWaiting ==
  CASE answer.code = "accepted" -> Done("completed")
    [] answer.code = "error"    -> NextAttempt /\ UNCHANGED <<polled, polls>>
    [] OTHER                    -> Done(answer.code)

\* A request that was accepted, or had been before, is polled for; a conflict
\* or an unknown account ends the call, a server error goes to the next server.
PostAnswered ==
  CASE answer.code = "accepted" -> Poll(answer.id)
    [] answer.code = "error"    -> NextAttempt /\ UNCHANGED <<polled, polls>>
    [] OTHER                    -> Done(answer.code)

Receive ==
  /\ phase = "wait" /\ answer # Nothing
  /\ answer' = Nothing
  /\ PostAnswered
  /\ taken' = FALSE
  /\ UNCHANGED <<serverVars, posts, unheard, urls, op>>

\* A query changes nothing on the server, so that its answer counts as heard at
\* once.  The route replaces the client's list.
AskRoute ==
  /\ call = "discover"
  /\ urls' \in Routes[Target]
  /\ Done("route")

AskBalance ==
  /\ call = "balance"
  /\ Done(IF Target \in account THEN "found" ELSE "missing")
  /\ UNCHANGED urls

\* The wait ends with the request, at the deadline, or at a server that does
\* not know the request.
AskStatus ==
  /\ call = "status"
  /\ IF ~Known(Target, polled) THEN Done("missing")
     ELSE IF requests[Target][polled] \in {"completed", "failed"}
            THEN Done(requests[Target][polled])
            ELSE (polls < MaxPolls /\ Poll(polled)) \/ Done("processing")
  /\ UNCHANGED urls

Query ==
  /\ phase = "send" /\ Target \in up
  /\ AskRoute \/ AskBalance \/ AskStatus
  /\ UNCHANGED <<serverVars, netVars, op, answer>>

\* Between calls the list may be read from the registry again.
RefreshServers ==
  /\ phase = "idle"
  /\ urls' \in Listings /\ urls' # urls
  /\ UNCHANGED <<serverVars, netVars, op, call, phase, attempt, answer, polled, polls, told>>

-----------------------------------------------------------------------------
(* The servers.                                                            *)

\* Only an attempt that is still waited for hears the answer.
Awaited(m) == phase = "wait" /\ Posting /\ m = Message

Answer(m, reply) == answer' = IF Awaited(m) THEN reply ELSE answer

Taken(m) ==
  IF Awaited(m) THEN taken' = TRUE /\ UNCHANGED unheard
                ELSE unheard' = [unheard EXCEPT ![m.call] = @ + 1] /\ UNCHANGED taken

\* What a handler of a post leaves alone.
HandlerKeeps ==
  UNCHANGED <<up, charged, crashes, urls, op, call, phase, attempt, polled, polls, told>>

\* A server takes a new request and queues it, a worker will find it.
TakeOperation(m) ==
  LET id == RequestId(m)
  IN  /\ m \in posts /\ m.call = "operation"
      /\ m.to \in up \cap account /\ ~Known(m.to, id)
      /\ posts' = posts \ {m}
      /\ requests' = [requests EXCEPT ![m.to] =
                        [i \in DOMAIN @ \cup {id} |-> IF i = id THEN "received" ELSE @[i]]]
      /\ queue' = [queue EXCEPT ![m.to] = @ \cup {id}]
      /\ Taken(m)
      /\ Answer(m, [code |-> "accepted", id |-> id])
      /\ HandlerKeeps /\ UNCHANGED <<account, created>>

\* It knows the request already, not the account, or it fails.
RefuseOperation(m) ==
  LET id == RequestId(m)
  IN  /\ m \in posts /\ m.call = "operation" /\ m.to \in up
      /\ posts' = posts \ {m}
      /\ \/ m.to \notin account /\ Answer(m, [code |-> "missing"])
         \/ /\ m.to \in account /\ Known(m.to, id)
            /\ Answer(m, IF requests[m.to][id] = "failed" THEN [code |-> "conflict"]
                         ELSE [code |-> "accepted", id |-> id])
         \/ Answer(m, [code |-> "error"])
      /\ HandlerKeeps /\ UNCHANGED <<requests, queue, account, created, taken, unheard>>

\* The account is created.  Where there is one, the handler turns the refusal it
\* has raised itself into a server error.
TakeAccount(m) ==
  /\ m \in posts /\ m.call = "create" /\ m.to \in up \ account
  /\ posts' = posts \ {m}
  /\ account' = account \cup {m.to} /\ created' = created \cup {m.to}
  /\ Taken(m)
  /\ Answer(m, [code |-> "created"])
  /\ HandlerKeeps /\ UNCHANGED <<requests, queue>>

RefuseAccount(m) ==
  /\ m \in posts /\ m.call = "create" /\ m.to \in up
  /\ posts' = posts \ {m}
  /\ Answer(m, [code |-> "error"])
  /\ HandlerKeeps /\ UNCHANGED <<requests, queue, account, created, taken, unheard>>

\* A worker carries out a request, or refuses it.
Work(s, id) ==
  /\ s \in up /\ id \in queue[s]
  /\ queue' = [queue EXCEPT ![s] = @ \ {id}]
  /\ \/ /\ Cardinality(charged[s]) < Funds
        /\ charged' = [charged EXCEPT ![s] = @ \cup {id}]
        /\ requests' = [requests EXCEPT ![s][id] = "completed"]
     \/ /\ requests' = [requests EXCEPT ![s][id] = "failed"]
        /\ UNCHANGED charged
  /\ UNCHANGED <<up, account, created, crashes, clientVars, netVars>>

\* The database stays.
Crash(s) ==
  /\ s \in up /\ crashes < MaxCrashes
  /\ crashes' = crashes + 1
  /\ up' = up \ {s}
  /\ queue' = [queue EXCEPT ![s] = {}]
  /\ posts' = {m \in posts : m.to # s}
  /\ UNCHANGED <<requests, charged, account, created, clientVars, taken, unheard>>

Restart(s) ==
  /\ s \notin up
  /\ up' = up \cup {s}
  /\ UNCHANGED <<requests, queue, charged, account, created, crashes, clientVars, netVars>>

\* The event of the account arrives from a server that has it.
AccountReplicated(s) ==
  /\ s \in up /\ s \notin account /\ account # {}
  /\ account' = account \cup {s}
  /\ UNCHANGED <<up, requests, queue, charged, created, crashes, clientVars, netVars>>

Client == Discover \/ CheckBalance \/ CreateAccount \/ Operate \/ RefreshServers

Progress == Send \/ Refused \/ Timeout \/ Receive \/ Query

Server ==
  \/ \E m \in posts : TakeOperation(m) \/ RefuseOperation(m)
                      \/ TakeAccount(m) \/ RefuseAccount(m)
  \/ \E s \in Servers : \E id \in queue[s] : Work(s, id)
  \/ \E s \in Servers : Crash(s) \/ Restart(s) \/ AccountReplicated(s)

Next == Client \/ Progress \/ Server

\* The client's thread goes on and its timeouts run out; nothing makes a server
\* answer.
Spec == Init /\ [][Next]_vars /\ WF_vars(Progress)

-----------------------------------------------------------------------------
(* Properties.                                                             *)

\* Where and under which ids the operation was carried out.
Charges == UNION {{s} \X charged[s] : s \in Servers}

\* However often an operation with a reference is sent to a server, it is
\* carried out there once at most (idempotency 33-35, 70-77).
ReferenceChargedOnceByServer ==
  op # NoOperation /\ Reference[op] # NoReference =>
    \A s \in Servers : Cardinality(charged[s]) <= 1

\* An operation is carried out once more for each post that a server took and
\* the client gave up on, at most, and otherwise once; so is the account created
\* (mobile_money_client 148-191).
DoneAgainOnlyUnheard ==
  /\ Cardinality(Charges) <= 1 + unheard["operation"]
  /\ Cardinality(created) <= 1 + unheard["create"]

\* What the phone tells the user of a finished operation: "completed" is true,
\* and "failed" is unless the client gave up on a post that a server took
\* (ussd_phone_client 366-386).
PhoneTellsTheTruth ==
  /\ told = "completed" => Charges # {}
  /\ told \in {"failed", "conflict"} /\ Charges # {} => unheard["operation"] > 0

\* README.md 851 and 157: an operation with a reference is charged only once
\* however often the client retries, also on another server.
ReferenceChargedOnce ==
  op # NoOperation /\ Reference[op] # NoReference => Cardinality(Charges) <= 1

\* Every call of the user returns (mobile_money_client 148-196,
\* ussd_phone_client 351-392).
CallsReturn == phase # "idle" ~> phase = "idle"
=============================================================================
