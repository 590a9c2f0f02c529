------------------------- MODULE ClientFailoverProofs -------------------------
(***************************************************************************)
(* The proofs about ClientFailover: for any number of servers, retries and *)
(* crashes, what a post that no client heard of can do, and what the phone *)
(* says of it.                                                             *)
(*                                                                         *)
(* The argument counts.  Every request a server has, and every account it  *)
(* created, is owed to a post of its own; of these posts the client has    *)
(* given up on the ones it counts in unheard, and of the others there is   *)
(* one at most, the one it waits for or has heard of (Settled).            *)
(***************************************************************************)
EXTENDS ClientFailover, FiniteSetTheorems, TLAPS

Calls == {"none", "discover", "balance", "create", "operation", "status"}
Posts == {"create", "operation"}

Types ==
  /\ up \subseteq Servers
  /\ DOMAIN requests = Servers /\ DOMAIN queue = Servers /\ DOMAIN charged = Servers
  /\ \A m \in posts : m.call \in Posts /\ m.to \in Servers
  /\ call \in Calls /\ phase \in {"idle", "send", "wait"}
  /\ taken \in BOOLEAN
  /\ unheard \in [Posts -> Nat]

\* A request is completed where it was charged; it waits for a worker, at most,
\* while it is neither completed nor failed.
RequestsTell ==
  \A s \in Servers :
    /\ \A id \in queue[s] : id \in DOMAIN requests[s] /\ requests[s][id] = "received"
    /\ \A id : id \in charged[s] <=>
                 id \in DOMAIN requests[s] /\ requests[s][id] = "completed"

\* The requests the servers have had.
Taking == UNION {{s} \X DOMAIN requests[s] : s \in Servers}

SomeFailed == \E s \in Servers : \E id \in DOMAIN requests[s] : requests[s][id] = "failed"

Operated == call \in {"operation", "status"}

\* Before the operation no server has heard of it; after it, of no other.
OneOperation ==
  /\ ~Operated => Taking = {} /\ \A m \in posts : m.call # "operation"
  /\ Operated =>
       /\ \A m \in posts : m.call = "operation" => m.op = op
       /\ Reference[op] # NoReference =>
            \A s \in Servers : \A id \in DOMAIN requests[s] : id = <<Reference[op]>>

\* Only a call that waits has an answer, and what a server did for its post it
\* did once: the post is gone, and the answer says so.
AnswersTell ==
  /\ phase # "wait" => answer = Nothing /\ ~taken
  /\ phase = "wait" => Posting
  /\ taken => Message \notin posts
  /\ answer # Nothing =>
       /\ call = "operation" => answer.code \in {"accepted", "missing", "conflict", "error"}
       /\ call = "create" => answer.code \in {"created", "error"}
       /\ taken => answer.code \in {"accepted", "created"}
       /\ answer.code = "conflict" => SomeFailed

\* What the user was told has happened on some server.
ToldIsSo ==
  /\ told = "completed" => Charges # {}
  /\ told \in {"failed", "conflict"} => SomeFailed

\* A post of this call is the client's own: heard of, or taken and waited for.
Settled(c) ==
  \/ c = "operation" /\ (call = "status" \/ (call = "operation" /\ taken))
  \/ c = "create" /\ (Operated \/ (call = "create" /\ (phase = "idle" \/ taken)))

Allowance(c) == unheard[c] + (IF Settled(c) THEN 1 ELSE 0)

\* What the servers did is owed to posts nobody heard of, and to one other.
Counted ==
  /\ IsFiniteSet(Taking) /\ Cardinality(Taking) <= Allowance("operation")
  /\ IsFiniteSet(created) /\ Cardinality(created) <= Allowance("create")

ClientInv ==
  /\ Types
  /\ RequestsTell
  /\ OneOperation
  /\ AnswersTell
  /\ ToldIsSo
  /\ Counted
-----------------------------------------------------------------------------
(* The operators. *)

\* The ranks of the calls.
LEMMA RankIs ==
  /\ Rank["none"] = 0 /\ Rank["discover"] = 1 /\ Rank["balance"] = 2
  /\ Rank["create"] = 3 /\ Rank["operation"] = 4 /\ Rank["status"] = 4
BY DEF Rank

\* What Charges and Taking are made of.
LEMMA ChargesTell ==
  \A c : c \in Charges <=> \E s \in Servers : \E id \in charged[s] : c = <<s, id>>
BY DEF Charges

\* The members of Taking.
LEMMA TakingTell ==
  \A c : c \in Taking <=> \E s \in Servers : \E id \in DOMAIN requests[s] : c = <<s, id>>
BY DEF Taking

\* What was charged was taken.
LEMMA ChargesWereTaken ==
  ASSUME RequestsTell
  PROVE  Charges \subseteq Taking
BY ChargesTell, TakingTell DEF RequestsTell

\* One more element counts for one more, at most.
LEMMA OneMore ==
  ASSUME NEW S, NEW x, IsFiniteSet(S)
  PROVE  /\ IsFiniteSet(S \cup {x})
         /\ Cardinality(S) \in Nat /\ Cardinality(S \cup {x}) \in Nat
         /\ Cardinality(S \cup {x}) <= Cardinality(S) + 1
<1>1. IsFiniteSet(S \cup {x}) /\ Cardinality(S) \in Nat
  BY FS_AddElement, FS_CardinalityType
<1>2. Cardinality(S \cup {x}) = IF x \in S THEN Cardinality(S) ELSE Cardinality(S) + 1
  BY FS_AddElement
<1> QED
  BY <1>1, <1>2

\* A settled post counts as one.
LEMMA AllowanceIs ==
  ASSUME Types, NEW c \in Posts
  PROVE  /\ unheard[c] \in Nat
         /\ Settled(c) => Allowance(c) = unheard[c] + 1
         /\ ~Settled(c) => Allowance(c) = unheard[c]
         /\ Allowance(c) \in Nat
BY DEF Types, Allowance
-----------------------------------------------------------------------------
(* What the steps of the client, and of the network, leave as it is. *)

\* Where no request changes, what the user is told need only be so.
LEMMA RequestsKeep ==
  ASSUME ClientInv, UNCHANGED <<requests, queue, charged>>,
         told' = "completed" => told = "completed" \/ Charges # {},
         told' \in {"failed", "conflict"} => told \in {"failed", "conflict"} \/ SomeFailed
  PROVE  RequestsTell' /\ ToldIsSo' /\ Taking' = Taking /\ SomeFailed' = SomeFailed
<1>1. Charges' = Charges /\ SomeFailed' = SomeFailed /\ Taking' = Taking
  BY DEF Charges, SomeFailed, Taking
<1>2. RequestsTell'
  BY DEF ClientInv, RequestsTell
<1>3. ToldIsSo'
  BY <1>1 DEF ClientInv, ToldIsSo
<1> QED
  BY <1>1, <1>2, <1>3

\* The operation stays the one, and new posts are of it.
LEMMA OperationKeeps ==
  ASSUME ClientInv, requests' = requests,
         Operated => Operated' /\ op' = op,
         \A m \in posts' : m \in posts \/ (m.call = "operation" => Operated /\ m.op = op)
  PROVE  OneOperation'
<1>1. Taking' = Taking
  BY DEF Taking
<1>2. CASE ~Operated
  <2>1. Taking = {} /\ \A m \in posts' : m.call # "operation"
    BY <1>2 DEF ClientInv, OneOperation
  <2>2. \A s \in Servers : DOMAIN requests'[s] = {}
    BY <2>1, TakingTell
  <2> QED
    BY <1>1, <2>1, <2>2 DEF OneOperation
<1>3. CASE Operated
  BY <1>1, <1>3 DEF ClientInv, OneOperation
<1> QED
  BY <1>2, <1>3

\* The servers do nothing and the client owes no less.
LEMMA CountKeeps ==
  ASSUME ClientInv, Types', requests' = requests, created' = created,
         \A c \in Posts : \/ unheard'[c] = unheard[c] /\ (Settled(c) => Settled(c)')
                          \/ unheard'[c] = unheard[c] + 1
  PROVE  Counted'
<1>1. Taking' = Taking
  BY DEF Taking
<1>2. ASSUME NEW c \in Posts
      PROVE  Allowance(c) \in Nat /\ Allowance(c)' \in Nat /\ Allowance(c) <= Allowance(c)'
  <2>1. /\ unheard[c] \in Nat
        /\ Settled(c) => Allowance(c) = unheard[c] + 1
        /\ ~Settled(c) => Allowance(c) = unheard[c]
    BY <1>2, AllowanceIs DEF ClientInv
  <2>2. /\ unheard'[c] \in Nat
        /\ Settled(c)' => Allowance(c)' = unheard'[c] + 1
        /\ ~Settled(c)' => Allowance(c)' = unheard'[c]
    BY <1>2 DEF Types, Allowance
  <2> QED
    BY <2>1, <2>2
<1>3. "operation" \in Posts /\ "create" \in Posts
  BY DEF Posts
<1>4. /\ IsFiniteSet(Taking) /\ Cardinality(Taking) <= Allowance("operation")
      /\ IsFiniteSet(created) /\ Cardinality(created) <= Allowance("create")
      /\ Cardinality(Taking) \in Nat /\ Cardinality(created) \in Nat
  BY FS_CardinalityType DEF ClientInv, Counted
<1> QED
  BY <1>1, <1>2, <1>3, <1>4 DEF Counted

\* A step of the client alone that neither leaves nor enters a wait, nor gives
\* up a post.
LEMMA ClientStepKeeps ==
  ASSUME ClientInv, UNCHANGED <<serverVars, netVars, answer>>,
         phase # "wait", phase' \in {"idle", "send"}, call' \in Calls,
         Operated => Operated' /\ op' = op,
         call = "create" => Operated' \/ (call' = "create" /\ (phase = "idle" => phase' = "idle")),
         call = "status" => call' = "status",
         told' = "completed" => told = "completed" \/ Charges # {},
         told' \in {"failed", "conflict"} => told \in {"failed", "conflict"} \/ SomeFailed
  PROVE  ClientInv'
<1>1. ~taken /\ answer = Nothing /\ Types
  BY DEF ClientInv, AnswersTell
<1>2. Types'
  BY <1>1 DEF Types, serverVars, netVars
<1>3. RequestsTell' /\ ToldIsSo'
  BY RequestsKeep DEF serverVars
<1>4. OneOperation'
  BY OperationKeeps DEF serverVars, netVars
<1>5. AnswersTell'
  BY <1>1 DEF AnswersTell, netVars
<1>6. \A c \in Posts : Settled(c) => Settled(c)'
  BY <1>1 DEF Settled, netVars, Operated
<1>7. Counted'
  BY <1>2, <1>6, CountKeeps DEF serverVars, netVars
<1> QED
  BY <1>2, <1>3, <1>4, <1>5, <1>7 DEF ClientInv

\* What the end of an attempt does to the call.
LEMMA NextAttemptEffect ==
  ASSUME NextAttempt
  PROVE  call' = call /\ phase' \in {"idle", "send"} /\ told' \in {told, "unavailable"}
BY DEF NextAttempt, Tell

\* The calls the user begins.
LEMMA BeginKeeps ==
  ASSUME ClientInv, Discover \/ CheckBalance \/ CreateAccount \/ Operate
  PROVE  ClientInv'
<1>1. PICK what \in {"discover", "balance", "create", "operation"} :
        /\ Begin(what) /\ told' = "nothing"
        /\ what # "operation" => op' = op
        /\ what = "create" => call = "balance"
  BY DEF Discover, CheckBalance, CreateAccount, Operate
<1>2. /\ phase = "idle" /\ phase' = "send" /\ call' = what
      /\ Rank[call] < Rank[what]
      /\ UNCHANGED <<serverVars, netVars, answer>>
  BY <1>1 DEF Begin
<1>3. call \in Calls
  BY DEF ClientInv, Types
<1>4. call \notin {"operation", "status"} /\ (call = "create" => what = "operation")
  BY <1>2, <1>3, RankIs
<1>5. call' \in Calls /\ ~Operated /\ (what = "operation" => Operated')
  BY <1>2, <1>4 DEF Calls, Operated
<1> QED
  BY <1>1, <1>2, <1>4, <1>5, ClientStepKeeps

\* A server that is down, or answers no query.
LEMMA RefusedKeeps ==
  ASSUME ClientInv, Refused
  PROVE  ClientInv'
<1>1. phase = "send" /\ UNCHANGED <<serverVars, netVars, answer, op>>
  BY DEF Refused
<1>2. call' = call /\ phase' \in {"idle", "send"} /\ told' \in {told, "unavailable"}
  BY NextAttemptEffect DEF Refused
<1>3. call \in Calls
  BY DEF ClientInv, Types
<1> QED
  BY <1>1, <1>2, <1>3, ClientStepKeeps DEF Operated

\* The list is read again.
LEMMA RefreshKeeps ==
  ASSUME ClientInv, RefreshServers
  PROVE  ClientInv'
<1>1. phase = "idle" /\ UNCHANGED <<serverVars, netVars, answer, op, call, phase, told>>
  BY DEF RefreshServers
<1>2. call \in Calls
  BY DEF ClientInv, Types
<1> QED
  BY <1>1, <1>2, ClientStepKeeps DEF Operated

\* A query that is answered: what the status of a request says is so.
LEMMA QueryKeeps ==
  ASSUME ClientInv, Query
  PROVE  ClientInv'
<1>1. phase = "send" /\ Target \in up /\ UNCHANGED <<serverVars, netVars, op, answer>>
  BY DEF Query
<1>2. call \in Calls /\ Target \in Servers
  BY <1>1 DEF ClientInv, Types
<1>3. CASE AskRoute
  <2>1. call = "discover" /\ call' = call /\ phase' = "idle" /\ told' = "route"
    BY <1>3 DEF AskRoute, Done, Tell
  <2> QED
    BY <1>1, <1>2, <2>1, ClientStepKeeps DEF Operated
<1>4. CASE AskBalance
  <2>1. call = "balance" /\ call' = call /\ phase' = "idle" /\ told' \in {"found", "missing"}
    BY <1>4 DEF AskBalance, Done, Tell
  <2> QED
    BY <1>1, <1>2, <2>1, ClientStepKeeps DEF Operated
<1>5. CASE AskStatus
  <2>1. call = "status" /\ call' = "status" /\ phase' \in {"idle", "send"}
    BY <1>5 DEF AskStatus, Done, Tell, Poll
  <2>2. \/ told' \in {told, "missing", "processing"}
        \/ /\ Known(Target, polled)
           /\ requests[Target][polled] \in {"completed", "failed"}
           /\ told' = requests[Target][polled]
    BY <1>5 DEF AskStatus, Done, Tell, Poll
  <2>3. told' = "completed" => told = "completed" \/ Charges # {}
    <3>1. ASSUME Known(Target, polled), requests[Target][polled] = "completed"
          PROVE  Charges # {}
      <4>1. polled \in charged[Target]
        BY <1>2, <3>1 DEF ClientInv, RequestsTell, Known
      <4> QED
        BY <1>2, <4>1, ChargesTell DEF ClientInv
    <3> QED
      BY <2>2, <3>1
  <2>4. told' \in {"failed", "conflict"} => told \in {"failed", "conflict"} \/ SomeFailed
    BY <1>2, <2>2 DEF SomeFailed, Known
  <2> QED
    BY <1>1, <1>2, <2>1, <2>3, <2>4, ClientStepKeeps DEF Operated, Calls
<1> QED
  BY <1>3, <1>4, <1>5 DEF Query

\* A post is sent.
LEMMA SendKeeps ==
  ASSUME ClientInv, Send
  PROVE  ClientInv'
<1>1. /\ phase = "send" /\ Posting /\ Target \in up
      /\ phase' = "wait" /\ posts' = posts \cup {Message} /\ taken' = FALSE
      /\ UNCHANGED <<serverVars, unheard, urls, op, call, attempt, answer, told>>
  BY DEF Send
<1>2. ~taken /\ answer = Nothing /\ Types
  BY <1>1 DEF ClientInv, AnswersTell
<1>3. Message.call = call /\ Message.op = op /\ Message.to = Target
  BY DEF Message
<1>4. Types'
  BY <1>1, <1>2, <1>3 DEF Types, serverVars, Posting, Posts
<1>5. RequestsTell' /\ ToldIsSo'
  BY <1>1, RequestsKeep DEF serverVars
<1>6. OneOperation'
  <2>1. \A m \in posts' : m \in posts \/ (m.call = "operation" => Operated /\ m.op = op)
    BY <1>1, <1>3 DEF Operated
  <2> QED
    BY <1>1, <2>1, OperationKeeps DEF serverVars, Operated
<1>7. AnswersTell'
  BY <1>1, <1>2 DEF AnswersTell, Posting
<1>8. \A c \in Posts : Settled(c) => Settled(c)'
  BY <1>1, <1>2 DEF Settled, Operated
<1>9. Counted'
  BY <1>1, <1>4, <1>8, CountKeeps DEF serverVars
<1> QED
  BY <1>4, <1>5, <1>6, <1>7, <1>9 DEF ClientInv

\* A post is given up: if a server has done it the client does not know.
LEMMA TimeoutKeeps ==
  ASSUME ClientInv, Timeout
  PROVE  ClientInv'
<1>1. /\ phase = "wait" /\ answer' = Nothing /\ taken' = FALSE
      /\ unheard' = IF taken THEN [unheard EXCEPT ![call] = @ + 1] ELSE unheard
      /\ posts' \in {posts, posts \ {Message}}
      /\ UNCHANGED <<serverVars, urls, op>>
  BY DEF Timeout, Abandon
<1>2. call' = call /\ phase' \in {"idle", "send"} /\ told' \in {told, "unavailable"}
  BY NextAttemptEffect DEF Timeout
<1>3. Types /\ call \in Posts
  BY <1>1 DEF ClientInv, AnswersTell, Posting, Posts
<1>4. \A c \in Posts : \/ unheard'[c] = unheard[c] /\ (c # call \/ ~taken)
                       \/ unheard'[c] = unheard[c] + 1
  BY <1>1, <1>3 DEF Types
<1>5. Types'
  <2>1. unheard' \in [Posts -> Nat]
    BY <1>1, <1>3 DEF Types
  <2> QED
    BY <1>1, <1>2, <1>3, <2>1 DEF Types, serverVars
<1>6. RequestsTell' /\ ToldIsSo'
  BY <1>1, <1>2, RequestsKeep DEF serverVars
<1>7. OneOperation'
  BY <1>1, <1>2, OperationKeeps DEF serverVars, Operated
<1>8. AnswersTell'
  BY <1>1, <1>2 DEF AnswersTell
<1>9. \A c \in Posts : \/ unheard'[c] = unheard[c] /\ (Settled(c) => Settled(c)')
                       \/ unheard'[c] = unheard[c] + 1
  BY <1>1, <1>2, <1>3, <1>4 DEF Settled, Operated
<1>10. Counted'
  BY <1>1, <1>5, <1>9, CountKeeps DEF serverVars
<1> QED
  BY <1>5, <1>6, <1>7, <1>8, <1>10 DEF ClientInv

\* An answer arrives in time.
LEMMA ReceiveKeeps ==
  ASSUME ClientInv, Receive
  PROVE  ClientInv'
<1>1. /\ phase = "wait" /\ answer # Nothing /\ answer' = Nothing /\ taken' = FALSE
      /\ UNCHANGED <<serverVars, posts, unheard, urls, op>>
  BY DEF Receive
<1>2. Types /\ call \in Posts
  BY <1>1 DEF ClientInv, AnswersTell, Posting, Posts
<1>3. /\ call = "operation" => answer.code \in {"accepted", "missing", "conflict", "error"}
      /\ call = "create" => answer.code \in {"created", "error"}
      /\ taken => answer.code \in {"accepted", "created"}
      /\ answer.code = "conflict" => SomeFailed
  BY <1>1 DEF ClientInv, AnswersTell
<1>4. \/ /\ answer.code = "accepted" /\ call' = "status" /\ phase' = "send" /\ told' = told
      \/ /\ answer.code = "error" /\ call' = call /\ phase' \in {"idle", "send"}
         /\ told' \in {told, "unavailable"}
      \/ /\ answer.code \notin {"accepted", "error"}
         /\ call' = call /\ phase' = "idle" /\ told' = answer.code
  <2>1. CASE answer.code = "accepted"
    BY <2>1 DEF Receive, PostAnswered, Poll
  <2>2. CASE answer.code = "error"
    BY <2>2, NextAttemptEffect DEF Receive, PostAnswered
  <2>3. CASE answer.code \notin {"accepted", "error"}
    BY <2>3 DEF Receive, PostAnswered, Done, Tell
  <2> QED
    BY <2>1, <2>2, <2>3
<1>5. call' \in {call, "status"} /\ (call' = "status" => call = "operation")
  BY <1>2, <1>3, <1>4 DEF Posts
<1>6. Types'
  BY <1>1, <1>2, <1>4, <1>5 DEF Types, serverVars, Calls
<1>7. RequestsTell' /\ ToldIsSo'
  BY <1>1, <1>2, <1>3, <1>4, RequestsKeep DEF serverVars, Posts
<1>8. OneOperation'
  BY <1>1, <1>5, OperationKeeps DEF serverVars, Operated
<1>9. AnswersTell'
  BY <1>1, <1>4 DEF AnswersTell
<1>10. \A c \in Posts : Settled(c) => Settled(c)'
  BY <1>1, <1>2, <1>3, <1>4, <1>5 DEF Settled, Operated, Posts
<1>11. Counted'
  BY <1>1, <1>6, <1>10, CountKeeps DEF serverVars
<1> QED
  BY <1>6, <1>7, <1>8, <1>9, <1>11 DEF ClientInv
-----------------------------------------------------------------------------
(* The steps of the servers. *)

\* What every handler of a post leaves alone, seen from the client: the post is
\* gone, and so is the call's allowance where a server did something for it.
LEMMA HandlerTypes ==
  ASSUME ClientInv, HandlerKeeps, NEW m \in posts, posts' = posts \ {m},
         DOMAIN requests' = Servers, DOMAIN queue' = Servers,
         Taken(m) \/ UNCHANGED <<taken, unheard>>
  PROVE  Types'
<1>1. Types /\ m.call \in Posts
  BY DEF ClientInv, Types
<1>2. taken' \in BOOLEAN /\ unheard' \in [Posts -> Nat]
  <2>1. unheard[m.call] + 1 \in Nat /\ unheard \in [Posts -> Nat] /\ taken \in BOOLEAN
    BY <1>1 DEF Types
  <2>2. \/ unheard' = unheard /\ (taken' = taken \/ taken' = TRUE)
        \/ unheard' = [unheard EXCEPT ![m.call] = @ + 1] /\ taken' = taken
    BY DEF Taken
  <2> QED
    BY <2>1, <2>2
<1> QED
  BY <1>1, <1>2 DEF HandlerKeeps, Types

\* An answer that says what is so keeps AnswersTell.
LEMMA AnswerKeeps ==
  ASSUME ClientInv, HandlerKeeps, NEW m \in posts, posts' = posts \ {m},
         SomeFailed => SomeFailed',
         NEW reply, Answer(m, reply),
         \/ Taken(m) /\ reply.code \in {"accepted", "created"}
         \/ UNCHANGED <<taken, unheard>>,
         m.call = "operation" => reply.code \in {"accepted", "missing", "conflict", "error"},
         m.call = "create" => reply.code \in {"created", "error"},
         reply.code = "conflict" => SomeFailed'
  PROVE  AnswersTell'
<1>1. AnswersTell /\ UNCHANGED <<urls, op, call, phase, attempt>>
  BY DEF ClientInv, HandlerKeeps
<1>2. Message' = Message /\ Posting' = Posting
  BY <1>1 DEF Message, Posting, Target
<1>3. CASE Awaited(m)
  <2>1. m = Message /\ m.call = call /\ phase = "wait" /\ Posting /\ answer' = reply
    BY <1>3 DEF Awaited, Message, Answer
  <2>2. ~taken
    BY <1>1, <2>1 DEF AnswersTell
  <2> QED
    BY <1>1, <1>2, <2>1, <2>2 DEF AnswersTell
<1>4. CASE ~Awaited(m)
  <2>1. answer' = answer /\ taken' = taken
    BY <1>4 DEF Answer, Taken
  <2> QED
    BY <1>1, <1>2, <2>1 DEF AnswersTell
<1> QED
  BY <1>3, <1>4

\* What a server does for a post is paid for: the client waits for it, and had
\* nothing done for it before, or it is unheard.
LEMMA TakenPays ==
  ASSUME ClientInv, HandlerKeeps, NEW m \in posts, Taken(m)
  PROVE  /\ m.call \in Posts
         /\ Allowance(m.call) \in Nat
         /\ Allowance(m.call)' = Allowance(m.call) + 1
         /\ \A c \in Posts \ {m.call} : Allowance(c)' = Allowance(c)
<1>1. Types /\ AnswersTell /\ UNCHANGED <<call, phase>> /\ m.call \in Posts
  BY DEF ClientInv, HandlerKeeps, Types
<1>2. CASE Awaited(m)
  <2>1. /\ m = Message /\ m.call = call /\ phase = "wait"
        /\ taken' = TRUE /\ unheard' = unheard
    BY <1>2 DEF Awaited, Message, Taken
  <2>2. ~taken
    BY <1>1, <2>1 DEF AnswersTell
  <2>3. ~Settled(m.call) /\ Settled(m.call)'
    BY <1>1, <2>1, <2>2 DEF Settled, Operated, Posts
  <2>4. \A c \in Posts \ {m.call} : Settled(c)' = Settled(c)
    BY <1>1, <2>1, <2>2 DEF Settled, Operated, Posts
  <2> QED
    BY <1>1, <2>1, <2>3, <2>4 DEF Allowance, Types
<1>3. CASE ~Awaited(m)
  <2>1. taken' = taken /\ unheard' = [unheard EXCEPT ![m.call] = @ + 1]
    BY <1>3 DEF Taken
  <2>2. \A c : Settled(c)' = Settled(c)
    BY <1>1, <2>1 DEF Settled, Operated
  <2>3. /\ unheard'[m.call] = unheard[m.call] + 1 /\ unheard[m.call] \in Nat
        /\ \A c \in Posts \ {m.call} : unheard'[c] = unheard[c]
    BY <1>1, <2>1 DEF Types
  <2> QED
    BY <1>1, <2>2, <2>3 DEF Allowance
<1> QED
  BY <1>2, <1>3

\* Where a server takes no operation and creates no account the count stays.
LEMMA HandlerCountKeeps ==
  ASSUME ClientInv, HandlerKeeps, Types', UNCHANGED <<requests, created, taken, unheard>>
  PROVE  Counted'
<1>1. \A c : Settled(c)' = Settled(c)
  BY DEF HandlerKeeps, Settled, Operated
<1> QED
  BY <1>1, CountKeeps

\* A new request, which a worker will find.
LEMMA TakeOperationKeeps ==
  ASSUME ClientInv, NEW m \in posts, TakeOperation(m)
  PROVE  ClientInv'
<1> DEFINE id == RequestId(m)
<1> DEFINE s == m.to
<1>1. /\ m.call = "operation" /\ s \in up /\ ~Known(s, id)
      /\ posts' = posts \ {m}
      /\ requests' = [requests EXCEPT ![s] =
                        [i \in DOMAIN @ \cup {id} |-> IF i = id THEN "received" ELSE @[i]]]
      /\ queue' = [queue EXCEPT ![s] = @ \cup {id}]
      /\ Taken(m) /\ Answer(m, [code |-> "accepted", id |-> id])
      /\ HandlerKeeps /\ created' = created
  BY DEF TakeOperation
<1>2. /\ Types /\ s \in Servers /\ RequestsTell /\ OneOperation
      /\ UNCHANGED <<charged, op, call, told>>
  BY <1>1 DEF ClientInv, Types, HandlerKeeps
<1>3. id \notin DOMAIN requests[s]
  BY <1>1 DEF Known
<1> HIDE DEF id, s
<1>4. /\ DOMAIN requests' = Servers /\ DOMAIN queue' = Servers
      /\ DOMAIN requests'[s] = DOMAIN requests[s] \cup {id}
      /\ requests'[s][id] = "received"
      /\ \A i \in DOMAIN requests[s] : requests'[s][i] = requests[s][i]
      /\ queue'[s] = queue[s] \cup {id}
      /\ \A t \in Servers \ {s} : requests'[t] = requests[t] /\ queue'[t] = queue[t]
  BY <1>1, <1>2, <1>3 DEF Types
<1>5. Types'
  BY <1>1, <1>4, HandlerTypes
<1>6. RequestsTell'
  <2> SUFFICES ASSUME NEW t \in Servers
               PROVE  /\ \A i \in queue'[t] :
                           i \in DOMAIN requests'[t] /\ requests'[t][i] = "received"
                      /\ \A i : i \in charged'[t] <=>
                                  i \in DOMAIN requests'[t] /\ requests'[t][i] = "completed"
    BY DEF RequestsTell
  <2>1. CASE t = s
    BY <2>1, <1>2, <1>3, <1>4 DEF RequestsTell
  <2>2. CASE t # s
    BY <2>2, <1>2, <1>4 DEF RequestsTell
  <2> QED
    BY <2>1, <2>2
<1>7. Operated /\ m.op = op
  BY <1>1, <1>2 DEF OneOperation
<1>8. OneOperation'
  <2>1. Reference[op] # NoReference => id = <<Reference[op]>>
    BY <1>7 DEF RequestId, id
  <2>2. Operated' /\ \A n \in posts' : n.call = "operation" => n.op = op'
    BY <1>1, <1>2, <1>7 DEF OneOperation, Operated
  <2>3. ASSUME Reference[op] # NoReference, NEW t \in Servers, NEW i \in DOMAIN requests'[t]
        PROVE  i = <<Reference[op]>>
    <3>1. i \in DOMAIN requests[t] \/ i = id
      BY <1>4
    <3> QED
      BY <1>2, <1>7, <2>1, <2>3, <3>1 DEF OneOperation
  <2> QED
    BY <1>2, <2>2, <2>3 DEF OneOperation
<1>9. SomeFailed => SomeFailed'
  <2> SUFFICES ASSUME SomeFailed PROVE SomeFailed'
    OBVIOUS
  <2>1. PICK t \in Servers : \E i \in DOMAIN requests[t] : requests[t][i] = "failed"
    BY DEF SomeFailed
  <2>2. \E i \in DOMAIN requests'[t] : requests'[t][i] = "failed"
    BY <1>4, <2>1
  <2> QED
    BY <2>2 DEF SomeFailed
<1>10. AnswersTell'
  <2>1. [code |-> "accepted", id |-> id].code = "accepted"
    OBVIOUS
  <2> QED
    BY <1>1, <1>9, <2>1, AnswerKeeps
<1>11. ToldIsSo'
  <2>1. Charges' = Charges
    BY <1>2 DEF Charges
  <2> QED
    BY <1>2, <1>9, <2>1 DEF ClientInv, ToldIsSo
<1>12. Counted'
  <2>1. Taking' = Taking \cup {<<s, id>>}
    <3>1. \A c : c \in Taking' <=> \E t \in Servers : \E i \in DOMAIN requests'[t] : c = <<t, i>>
      BY DEF Taking
    <3>2. \A t \in Servers : \A i : i \in DOMAIN requests'[t] <=>
                                      i \in DOMAIN requests[t] \/ (t = s /\ i = id)
      BY <1>4
    <3> QED
      BY <1>2, <3>1, <3>2, TakingTell
  <2>2. IsFiniteSet(Taking) /\ Cardinality(Taking) <= Allowance("operation")
    BY DEF ClientInv, Counted
  <2>3. /\ IsFiniteSet(Taking') /\ Cardinality(Taking) \in Nat
        /\ Cardinality(Taking') \in Nat /\ Cardinality(Taking') <= Cardinality(Taking) + 1
    BY <2>1, <2>2, OneMore
  <2>4. /\ Allowance("operation") \in Nat
        /\ Allowance("operation")' = Allowance("operation") + 1
        /\ Allowance("create")' = Allowance("create")
    BY <1>1, TakenPays DEF Posts
  <2>5. Cardinality(Taking') <= Allowance("operation")'
    BY <2>2, <2>3, <2>4
  <2> QED
    BY <1>1, <2>3, <2>4, <2>5 DEF ClientInv, Counted
<1> QED
  BY <1>5, <1>6, <1>8, <1>10, <1>11, <1>12 DEF ClientInv

\* A request that is known, or of no account, or that fails.
LEMMA RefuseOperationKeeps ==
  ASSUME ClientInv, NEW m \in posts, RefuseOperation(m)
  PROVE  ClientInv'
<1>1. /\ m.call = "operation" /\ m.to \in up /\ posts' = posts \ {m}
      /\ HandlerKeeps /\ UNCHANGED <<requests, queue, account, created, taken, unheard>>
  BY DEF RefuseOperation
<1>2. Types /\ m.to \in Servers /\ UNCHANGED <<charged, op, call, told>>
  BY <1>1 DEF ClientInv, Types, HandlerKeeps
<1>3. Types'
  BY <1>1, <1>2, HandlerTypes DEF Types
<1>4. RequestsTell' /\ ToldIsSo' /\ SomeFailed' = SomeFailed
  BY <1>1, <1>2, RequestsKeep
<1>5. OneOperation'
  BY <1>1, <1>2, OperationKeeps DEF Operated
<1>6. \E reply : /\ Answer(m, reply)
                 /\ reply.code \in {"accepted", "missing", "conflict", "error"}
                 /\ reply.code = "conflict" => SomeFailed
  <2>1. CASE Answer(m, [code |-> "missing"])
    BY <2>1
  <2>2. CASE Answer(m, [code |-> "error"])
    BY <2>2
  <2>3. CASE /\ Known(m.to, RequestId(m))
             /\ Answer(m, IF requests[m.to][RequestId(m)] = "failed"
                          THEN [code |-> "conflict"]
                          ELSE [code |-> "accepted", id |-> RequestId(m)])
    <3>1. CASE requests[m.to][RequestId(m)] = "failed"
      <4>1. SomeFailed
        BY <1>2, <2>3, <3>1 DEF SomeFailed, Known
      <4> QED
        BY <2>3, <3>1, <4>1
    <3>2. CASE requests[m.to][RequestId(m)] # "failed"
      BY <2>3, <3>2
    <3> QED
      BY <3>1, <3>2
  <2> QED
    BY <2>1, <2>2, <2>3 DEF RefuseOperation
<1>7. AnswersTell'
  BY <1>1, <1>4, <1>6, AnswerKeeps
<1>8. Counted'
  BY <1>1, <1>3, HandlerCountKeeps
<1> QED
  BY <1>3, <1>4, <1>5, <1>7, <1>8 DEF ClientInv

\* An account is created.
LEMMA TakeAccountKeeps ==
  ASSUME ClientInv, NEW m \in posts, TakeAccount(m)
  PROVE  ClientInv'
<1>1. /\ m.call = "create" /\ m.to \in up /\ posts' = posts \ {m}
      /\ created' = created \cup {m.to}
      /\ Taken(m) /\ Answer(m, [code |-> "created"])
      /\ HandlerKeeps /\ UNCHANGED <<requests, queue>>
  BY DEF TakeAccount
<1>2. Types /\ UNCHANGED <<charged, op, call, told>>
  BY <1>1 DEF ClientInv, HandlerKeeps
<1>3. Types'
  BY <1>1, <1>2, HandlerTypes DEF Types
<1>4. RequestsTell' /\ ToldIsSo' /\ SomeFailed' = SomeFailed /\ Taking' = Taking
  BY <1>1, <1>2, RequestsKeep
<1>5. OneOperation'
  BY <1>1, <1>2, OperationKeeps DEF Operated
<1>6. [code |-> "created"].code = "created"
  OBVIOUS
<1>7. AnswersTell'
  BY <1>1, <1>4, <1>6, AnswerKeeps
<1>8. Counted'
  <2>1. /\ IsFiniteSet(created) /\ Cardinality(created) <= Allowance("create")
        /\ IsFiniteSet(Taking) /\ Cardinality(Taking) <= Allowance("operation")
    BY DEF ClientInv, Counted
  <2>2. /\ IsFiniteSet(created') /\ Cardinality(created) \in Nat
        /\ Cardinality(created') \in Nat /\ Cardinality(created') <= Cardinality(created) + 1
    BY <1>1, <2>1, OneMore
  <2>3. /\ Allowance("create") \in Nat
        /\ Allowance("create")' = Allowance("create") + 1
        /\ Allowance("operation")' = Allowance("operation")
    BY <1>1, TakenPays DEF Posts
  <2>4. Cardinality(created') <= Allowance("create")'
    BY <2>1, <2>2, <2>3
  <2> QED
    BY <1>4, <2>1, <2>2, <2>3, <2>4 DEF Counted
<1> QED
  BY <1>3, <1>4, <1>5, <1>7, <1>8 DEF ClientInv

\* An account there is, or that cannot be created.
LEMMA RefuseAccountKeeps ==
  ASSUME ClientInv, NEW m \in posts, RefuseAccount(m)
  PROVE  ClientInv'
<1>1. /\ m.call = "create" /\ posts' = posts \ {m} /\ Answer(m, [code |-> "error"])
      /\ HandlerKeeps /\ UNCHANGED <<requests, queue, account, created, taken, unheard>>
  BY DEF RefuseAccount
<1>2. Types /\ UNCHANGED <<charged, op, call, told>>
  BY <1>1 DEF ClientInv, HandlerKeeps
<1>3. Types'
  BY <1>1, <1>2, HandlerTypes DEF Types
<1>4. RequestsTell' /\ ToldIsSo' /\ SomeFailed' = SomeFailed
  BY <1>1, <1>2, RequestsKeep
<1>5. OneOperation'
  BY <1>1, <1>2, OperationKeeps DEF Operated
<1>6. [code |-> "error"].code = "error"
  OBVIOUS
<1>7. AnswersTell'
  BY <1>1, <1>4, <1>6, AnswerKeeps
<1>8. Counted'
  BY <1>1, <1>3, HandlerCountKeeps
<1> QED
  BY <1>3, <1>4, <1>5, <1>7, <1>8 DEF ClientInv

\* A worker carries out a request or refuses it.
LEMMA WorkKeeps ==
  ASSUME ClientInv, NEW s \in Servers, NEW id \in queue[s], Work(s, id)
  PROVE  ClientInv'
<1>1. /\ queue' = [queue EXCEPT ![s] = @ \ {id}]
      /\ \/ /\ charged' = [charged EXCEPT ![s] = @ \cup {id}]
            /\ requests' = [requests EXCEPT ![s][id] = "completed"]
         \/ /\ requests' = [requests EXCEPT ![s][id] = "failed"]
            /\ UNCHANGED charged
      /\ UNCHANGED <<up, account, created, crashes, clientVars, netVars>>
  BY DEF Work
<1>2. Types /\ RequestsTell /\ id \in DOMAIN requests[s] /\ requests[s][id] = "received"
  BY DEF ClientInv, RequestsTell
<1>3. /\ DOMAIN requests' = Servers /\ DOMAIN queue' = Servers /\ DOMAIN charged' = Servers
      /\ \A t \in Servers : DOMAIN requests'[t] = DOMAIN requests[t]
      /\ \A t \in Servers : \A i \in DOMAIN requests[t] :
           ~(t = s /\ i = id) => requests'[t][i] = requests[t][i]
      /\ queue'[s] = queue[s] \ {id}
      /\ \A t \in Servers \ {s} : queue'[t] = queue[t] /\ charged'[t] = charged[t]
      /\ \/ requests'[s][id] = "completed" /\ charged'[s] = charged[s] \cup {id}
         \/ requests'[s][id] = "failed" /\ charged'[s] = charged[s]
  BY <1>1, <1>2 DEF Types
<1>4. Types'
  BY <1>1, <1>2, <1>3 DEF Types, clientVars, netVars
<1>5. RequestsTell'
  <2> SUFFICES ASSUME NEW t \in Servers
               PROVE  /\ \A i \in queue'[t] :
                           i \in DOMAIN requests'[t] /\ requests'[t][i] = "received"
                      /\ \A i : i \in charged'[t] <=>
                                  i \in DOMAIN requests'[t] /\ requests'[t][i] = "completed"
    BY DEF RequestsTell
  <2>1. CASE t = s
    <3>1. \A i \in queue'[t] : i \in DOMAIN requests'[t] /\ requests'[t][i] = "received"
      BY <2>1, <1>2, <1>3 DEF RequestsTell
    <3>2. \A i : i \in charged[t] <=> i \in DOMAIN requests[t] /\ requests[t][i] = "completed"
      BY <1>2 DEF RequestsTell
    <3>3. ASSUME NEW i
          PROVE  i \in charged'[t] <=>
                   i \in DOMAIN requests'[t] /\ requests'[t][i] = "completed"
      <4>1. CASE i = id
        BY <2>1, <4>1, <1>2, <1>3, <3>2
      <4>2. CASE i # id
        BY <2>1, <4>2, <1>3, <3>2
      <4> QED
        BY <4>1, <4>2
    <3> QED
      BY <3>1, <3>3
  <2>2. CASE t # s
    <3>1. \A i \in DOMAIN requests[t] : requests'[t][i] = requests[t][i]
      BY <2>2, <1>3
    <3> QED
      BY <2>2, <3>1, <1>2, <1>3 DEF RequestsTell
  <2> QED
    BY <2>1, <2>2
<1>6. \A t \in Servers : charged[t] \subseteq charged'[t]
  BY <1>3
<1>7. Charges # {} => Charges' # {}
  <2>1. \A c : c \in Charges' <=> \E t \in Servers : \E i \in charged'[t] : c = <<t, i>>
    BY DEF Charges
  <2> QED
    BY <1>6, <2>1, ChargesTell
<1>8. SomeFailed => SomeFailed'
  <2> SUFFICES ASSUME SomeFailed PROVE SomeFailed'
    OBVIOUS
  <2>1. PICK t \in Servers : \E i \in DOMAIN requests[t] : requests[t][i] = "failed"
    BY DEF SomeFailed
  <2>2. \E i \in DOMAIN requests'[t] : requests'[t][i] = "failed"
    BY <1>2, <1>3, <2>1
  <2> QED
    BY <2>2 DEF SomeFailed
<1>9. ToldIsSo'
  BY <1>1, <1>7, <1>8 DEF ClientInv, ToldIsSo, clientVars
<1>10. Taking' = Taking
  <2>1. \A t \in Servers : {t} \X DOMAIN requests'[t] = {t} \X DOMAIN requests[t]
    BY <1>3
  <2> QED
    BY <2>1 DEF Taking
<1>11. OneOperation'
  BY <1>1, <1>3, <1>10 DEF ClientInv, OneOperation, Operated, clientVars, netVars
<1>12. AnswersTell'
  BY <1>1, <1>8 DEF ClientInv, AnswersTell, Posting, Message, Target, clientVars, netVars
<1>13. Counted'
  <2>1. \A c : Allowance(c)' = Allowance(c)
    BY <1>1 DEF Allowance, Settled, Operated, clientVars, netVars
  <2> QED
    BY <1>1, <1>10, <2>1 DEF ClientInv, Counted
<1> QED
  BY <1>4, <1>5, <1>9, <1>11, <1>12, <1>13 DEF ClientInv

\* A crash, a restart and an account that arrives from another server: the
\* database and the client stay.
LEMMA ServerStepKeeps ==
  ASSUME ClientInv, UNCHANGED <<requests, charged, created, clientVars, taken, unheard>>,
         up' \subseteq Servers, posts' \subseteq posts,
         DOMAIN queue' = Servers, \A t \in Servers : queue'[t] \subseteq queue[t]
  PROVE  ClientInv'
<1>1. Types'
  BY DEF ClientInv, Types, clientVars
<1>2. RequestsTell'
  BY DEF ClientInv, RequestsTell
<1>3. Charges' = Charges /\ SomeFailed' = SomeFailed
  BY DEF Charges, SomeFailed
<1>4. OneOperation'
  BY OperationKeeps DEF Operated, clientVars
<1>5. AnswersTell'
  BY <1>3 DEF ClientInv, AnswersTell, Posting, Message, Target, clientVars
<1>6. ToldIsSo'
  BY <1>3 DEF ClientInv, ToldIsSo, clientVars
<1>7. \A c \in Posts : unheard'[c] = unheard[c] /\ (Settled(c) => Settled(c)')
  BY DEF Settled, Operated, clientVars
<1>8. Counted'
  BY <1>1, <1>7, CountKeeps
<1> QED
  BY <1>1, <1>2, <1>4, <1>5, <1>6, <1>8 DEF ClientInv

\* Crashes, restarts and replicated accounts are such steps.
LEMMA CrashRestartKeep ==
  ASSUME ClientInv, NEW s \in Servers, Crash(s) \/ Restart(s) \/ AccountReplicated(s)
  PROVE  ClientInv'
<1>1. Types
  BY DEF ClientInv
<1>2. CASE Crash(s)
  <2>1. /\ UNCHANGED <<requests, charged, created, clientVars, taken, unheard>>
        /\ up' = up \ {s} /\ posts' = {m \in posts : m.to # s}
        /\ queue' = [queue EXCEPT ![s] = {}]
    BY <1>2 DEF Crash
  <2>2. DOMAIN queue' = Servers /\ \A t \in Servers : queue'[t] \subseteq queue[t]
    BY <1>1, <2>1 DEF Types
  <2> QED
    BY <1>1, <2>1, <2>2, ServerStepKeeps DEF Types
<1>3. CASE Restart(s) \/ AccountReplicated(s)
  <2>1. /\ UNCHANGED <<requests, charged, created, clientVars, posts, taken, unheard, queue>>
        /\ up' \subseteq Servers
    BY <1>1, <1>3 DEF Restart, AccountReplicated, netVars, Types
  <2> QED
    BY <1>1, <2>1, ServerStepKeeps DEF Types
<1> QED
  BY <1>2, <1>3
-----------------------------------------------------------------------------
(* The theorems. *)

\* At the start no server has been asked anything.
LEMMA InitClientInv == Init => ClientInv
<1> SUFFICES ASSUME Init PROVE ClientInv
  OBVIOUS
<1>1. Types
  BY DEF Init, Types, Calls, Posts
<1>2. \A s \in Servers : DOMAIN requests[s] = {} /\ queue[s] = {} /\ charged[s] = {}
  BY DEF Init
<1>3. Taking = {}
  BY <1>2, TakingTell
<1>4. RequestsTell
  BY <1>2 DEF RequestsTell
<1>5. OneOperation
  BY <1>3 DEF Init, OneOperation, Operated
<1>6. AnswersTell /\ ToldIsSo
  BY DEF Init, AnswersTell, ToldIsSo
<1>7. Counted
  <2>1. /\ IsFiniteSet(Taking) /\ Cardinality(Taking) = 0
        /\ IsFiniteSet(created) /\ Cardinality(created) = 0
    BY <1>3, FS_EmptySet DEF Init
  <2>2. \A c \in Posts : Allowance(c) \in Nat
    BY <1>1, AllowanceIs
  <2> QED
    BY <2>1, <2>2 DEF Counted, Posts
<1> QED
  BY <1>1, <1>4, <1>5, <1>6, <1>7 DEF ClientInv

\* Every step keeps the invariant, action by action.
LEMMA StepKeepsClientInv == ClientInv /\ [Next]_vars => ClientInv'
<1> SUFFICES ASSUME ClientInv, [Next]_vars PROVE ClientInv'
  OBVIOUS
<1>1. CASE UNCHANGED vars
  <2>1. UNCHANGED <<serverVars, clientVars, netVars>>
    BY <1>1 DEF vars
  <2> QED
    BY <2>1, ServerStepKeeps DEF ClientInv, Types, serverVars, netVars
<1>2. CASE Client
  BY <1>2, BeginKeeps, RefreshKeeps DEF Client
<1>3. CASE Progress
  BY <1>3, SendKeeps, RefusedKeeps, TimeoutKeeps, ReceiveKeeps, QueryKeeps DEF Progress
<1>4. CASE Server
  BY <1>4, TakeOperationKeeps, RefuseOperationKeeps, TakeAccountKeeps, RefuseAccountKeeps,
     WorkKeeps, CrashRestartKeep DEF Server
<1> QED
  BY <1>1, <1>2, <1>3, <1>4 DEF Next

\* The invariant of a client and its servers holds in every reachable state.
THEOREM ClientInvariant == Spec => []ClientInv
BY InitClientInv, StepKeepsClientInv, PTL DEF Spec

\* An operation with a reference is carried out once, at most, by a server that
\* is asked for it again and again.
THEOREM ReferenceTheorem == Spec => []ReferenceChargedOnceByServer
<1>1. ClientInv => ReferenceChargedOnceByServer
  <2> SUFFICES ASSUME ClientInv, op # NoOperation, Reference[op] # NoReference,
                      NEW s \in Servers
               PROVE  Cardinality(charged[s]) <= 1
    BY DEF ReferenceChargedOnceByServer
  <2>1. charged[s] \subseteq {<<Reference[op]>>}
    <3>1. charged[s] \subseteq DOMAIN requests[s]
      BY DEF ClientInv, RequestsTell
    <3>2. CASE Operated
      BY <3>1, <3>2 DEF ClientInv, OneOperation
    <3>3. CASE ~Operated
      <4>1. Taking = {}
        BY <3>3 DEF ClientInv, OneOperation
      <4> QED
        BY <3>1, <4>1, TakingTell
    <3> QED
      BY <3>2, <3>3
  <2>2. charged[s] = {} \/ charged[s] = {<<Reference[op]>>}
    BY <2>1
  <2>3. Cardinality({}) = 0 /\ Cardinality({<<Reference[op]>>}) = 1
    BY FS_EmptySet, FS_Singleton
  <2> QED
    BY <2>2, <2>3
<1> QED
  BY <1>1, ClientInvariant, PTL

\* The client's retries have an operation carried out, and an account created,
\* again only for posts it never heard of.
THEOREM UnheardTheorem == Spec => []DoneAgainOnlyUnheard
<1>1. ClientInv => DoneAgainOnlyUnheard
  <2> SUFFICES ASSUME ClientInv PROVE DoneAgainOnlyUnheard
    OBVIOUS
  <2>1. /\ IsFiniteSet(Taking) /\ Cardinality(Taking) <= Allowance("operation")
        /\ IsFiniteSet(created) /\ Cardinality(created) <= Allowance("create")
    BY DEF ClientInv, Counted
  <2>2. Cardinality(Charges) <= Cardinality(Taking) /\ IsFiniteSet(Charges)
    BY <2>1, ChargesWereTaken, FS_Subset DEF ClientInv
  <2>3. \A c \in Posts : /\ Allowance(c) <= 1 + unheard[c]
                         /\ Allowance(c) \in Nat /\ unheard[c] \in Nat
    BY AllowanceIs DEF ClientInv
  <2>4. /\ Cardinality(Charges) \in Nat /\ Cardinality(Taking) \in Nat
        /\ Cardinality(created) \in Nat
    BY <2>1, <2>2, FS_CardinalityType
  <2>5. "operation" \in Posts /\ "create" \in Posts
    BY DEF Posts
  <2> QED
    BY <2>1, <2>2, <2>3, <2>4, <2>5 DEF DoneAgainOnlyUnheard
<1> QED
  BY <1>1, ClientInvariant, PTL

\* "completed" is true of some server; "failed" is true, unless a post that the
\* client gave up on was carried out.
THEOREM TruthTheorem == Spec => []PhoneTellsTheTruth
<1>1. ClientInv => PhoneTellsTheTruth
  <2> SUFFICES ASSUME ClientInv, told \in {"failed", "conflict"}, Charges # {}
               PROVE  unheard["operation"] > 0
    BY DEF ClientInv, ToldIsSo, PhoneTellsTheTruth
  <2>1. PICK s \in Servers : \E id \in DOMAIN requests[s] : requests[s][id] = "failed"
    BY DEF ClientInv, ToldIsSo, SomeFailed
  <2>2. PICK id \in DOMAIN requests[s] : requests[s][id] = "failed"
    BY <2>1
  <2> DEFINE f == <<s, id>>
  <2>3. f \in Taking /\ f \notin Charges
    <3>1. id \notin charged[s]
      BY <2>2 DEF ClientInv, RequestsTell
    <3> QED
      BY <2>2, <3>1, TakingTell, ChargesTell
  <2>4. PICK c : c \in Charges
    OBVIOUS
  <2>5. c \in Taking /\ c # f
    BY <2>3, <2>4, ChargesWereTaken DEF ClientInv
  <2> HIDE DEF f
  <2>6. Cardinality({c} \cup {f}) = 2 /\ IsFiniteSet({c} \cup {f})
    <3>1. IsFiniteSet({c}) /\ Cardinality({c}) = 1
      BY FS_Singleton
    <3>2. Cardinality({c} \cup {f}) = Cardinality({c}) + 1 /\ IsFiniteSet({c} \cup {f})
      BY <2>5, <3>1, FS_AddElement
    <3> QED
      BY <3>1, <3>2
  <2>7. IsFiniteSet(Taking) /\ Cardinality(Taking) <= Allowance("operation")
    BY DEF ClientInv, Counted
  <2>8. 2 <= Cardinality(Taking) /\ Cardinality(Taking) \in Nat
    <3>1. {c} \cup {f} \subseteq Taking
      BY <2>3, <2>5
    <3>2. Cardinality({c} \cup {f}) <= Cardinality(Taking) /\ Cardinality(Taking) \in Nat
      BY <2>7, <3>1, FS_Subset, FS_CardinalityType
    <3> QED
      BY <2>6, <3>2
  <2>9. /\ Allowance("operation") <= 1 + unheard["operation"]
        /\ Allowance("operation") \in Nat /\ unheard["operation"] \in Nat
    BY AllowanceIs DEF ClientInv, Posts
  <2> QED
    BY <2>7, <2>8, <2>9
<1> QED
  BY <1>1, ClientInvariant, PTL
=============================================================================
