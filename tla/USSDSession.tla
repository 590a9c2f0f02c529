----------------------------- MODULE USSDSession -----------------------------
(***************************************************************************)
(* Menu-driven USSD sessions of one server: the rows USSDSessionManager    *)
(* keeps (src/src/ussd/protocol.py) and the /api/v1/ussd handler that      *)
(* walks them from the main menu over an amount to a confirmation, which   *)
(* queues a deposit or a withdrawal (src/src/api/routes.py).               *)
(*                                                                         *)
(* A handler runs without awaiting anything that is not ready, so it is    *)
(* one step; but the clock may pass a session's expiry between two of its  *)
(* look-ups, and its commits may fail.  A failed commit is rolled back and *)
(* answered by an error: where it is the handler's only one, nothing has   *)
(* happened.  A reply may be lost: the caller still has the earlier prompt *)
(* before him, and he, or the client's retry loop on his behalf, may send  *)
(* the same key again.                                                     *)
(*                                                                         *)
(* An account belongs to every phone and is never deleted, so the replies  *)
(* about a missing account do not occur.  One-shot codes have no session   *)
(* and no confirmation; they are submissions of RequestPipeline.           *)
(***************************************************************************)
EXTENDS Integers, FiniteSets, Sequences, TLC

CONSTANTS
  Phones,
  Inputs,            \* what a caller may type
  Value,             \* the number a typed text stands for, negative if none
  NoSession,         \* the session id of a phone without a session
  MaxSessions,       \* bound: sessions ever created
  MaxQueued,         \* bound: operations queued by one session
  RepliesMayBeLost,  \* BOOLEAN
  CommitsMayFail     \* BOOLEAN

ASSUME USSDAssumption ==
  /\ {"0", "1", "2", "3", "4"} \subseteq Inputs
  /\ Value \in [Inputs -> Int]
  /\ NoSession \notin Nat
  /\ MaxSessions \in Nat /\ MaxQueued \in Nat
  /\ RepliesMayBeLost \in BOOLEAN /\ CommitsMayFail \in BOOLEAN

VARIABLES
  row,       \* the ussd_sessions table: a function on the ids of its rows
  issued,    \* how many session ids create_session has given out
  phone,     \* per phone: the session id its client keeps and the prompt shown
  queued,    \* per session: the operations it handed to the asynchronous processor
  quoted,    \* history: the last "Confirm <operation> of <amount>?" a phone's session
             \* sent it, Unheard if it did not arrive
  astray,    \* history: the phones that do not see what their session answered last,
             \* or dialled again and see a menu their session is not in
  unclosed   \* history: sessions whose deletion failed after their confirmation

vars == <<row, issued, phone, queued, quoted, astray, unclosed>>

Sessions == 1..MaxSessions
NoOp == "none"
NoAmount == -1
Nothing == [op |-> NoOp, amount |-> NoAmount]
Unheard == [op |-> "unheard", amount |-> NoAmount]

AmountState == [deposit |-> "DEPOSIT_AMOUNT", withdraw |-> "WITHDRAW_AMOUNT"]
ConfirmState == [deposit |-> "DEPOSIT_CONFIRM", withdraw |-> "WITHDRAW_CONFIRM"]
Operations == DOMAIN AmountState
AmountStates == {AmountState[o] : o \in Operations}
ConfirmStates == {ConfirmState[o] : o \in Operations}

Choice == [i \in {"1", "2"} |-> IF i = "1" THEN "deposit" ELSE "withdraw"]

\* parse_amount_input accepts a text.
IsAmount(i) == Value[i] > 0

Init ==
  /\ row = << >>
  /\ issued = 0
  /\ phone = [p \in Phones |-> [sid |-> NoSession, prompt |-> "off"]]
  /\ queued = [s \in Sessions |-> << >>]
  /\ quoted = [p \in Phones |-> Nothing]
  /\ astray = {}
  /\ unclosed = {}
-----------------------------------------------------------------------------
(* The session manager. *)

\* end_session
Drop(s) == row' = [t \in DOMAIN row \ {s} |-> row[t]]

\* A bug variant of the definition that follows.
FoundEvenExpired(s) == s \in DOMAIN row

\* get_session: the row is there and has not expired.
Found(s) == s \in DOMAIN row /\ row[s].live

\* A bug variant of the definition that follows.
ActiveInMenuOf(p) == {s \in DOMAIN row : row[s].phone = p /\ row[s].live
                                           /\ row[s].state = "MAIN_MENU"}

\* The session a dialling phone is given back, if it has one.
ActiveOf(p) == {s \in DOMAIN row : row[s].phone = p /\ row[s].live}

\* A bug variant of the definition that follows.
MergedOldWins(current, data) ==
  LET new == data @@ current
  IN [op |-> IF current.op = NoOp THEN new.op ELSE current.op,
      amount |-> IF current.amount = NoAmount THEN new.amount ELSE current.amount]

\* {**current_data, **data}: what update_session stores.
Merged(current, data) ==
  [f \in DOMAIN current \cup DOMAIN data |->
     IF f \in DOMAIN data THEN data[f] ELSE current[f]]

\* update_session, on a session found a moment before: either it is still alive,
\* and lives on, or its time is over now and get_session deletes it.
UpdateSession(s, state, data) ==
  \/ row' = [row EXCEPT ![s] =
              [phone |-> @.phone, state |-> state, data |-> Merged(@.data, data), live |-> TRUE]]
  \/ Drop(s)
-----------------------------------------------------------------------------
(* The replies: the prompt of a state of the dialogue, named after it, or   *)
(* "off", the end of the dialogue.                                         *)

InDialogue(p) == phone[p].sid # NoSession /\ phone[p].prompt # "off"

ReplyArrives == IF RepliesMayBeLost THEN BOOLEAN ELSE {TRUE}

\* A reply is shown if it arrives; if not, the phone shows what it showed before.
Show(p, prompt, arrives) ==
  IF arrives
  THEN phone' = [phone EXCEPT ![p].prompt = prompt] /\ astray' = astray \ {p}
  ELSE phone' = phone /\ astray' = astray \cup {p}

Reply(p, prompt) ==
  /\ \E arrives \in ReplyArrives : Show(p, prompt, arrives)
  /\ UNCHANGED quoted

\* The reply to an amount is the question whether to confirm the order.
ReplyAsking(p, order) ==
  \E arrives \in ReplyArrives :
    /\ Show(p, ConfirmState[order.op], arrives)
    /\ quoted' = [quoted EXCEPT ![p] = IF arrives THEN order ELSE Unheard]

\* The reply to a dialled "*165#"; a client that does not get it has no session.
ReplyToDial(p, s) ==
  \E arrives \in ReplyArrives :
    phone' = [phone EXCEPT ![p] = IF arrives THEN [sid |-> s, prompt |-> "MAIN_MENU"]
                                  ELSE [sid |-> NoSession, prompt |-> "off"]]

\* p answers the session it keeps, which the server finds in one of these states.
Answers(p, states) ==
  /\ InDialogue(p)
  /\ Found(phone[p].sid)
  /\ row[phone[p].sid].state \in states
-----------------------------------------------------------------------------
(* The handler. *)

\* "*165#" with a session still alive: it is returned as it is, with the menu.
Redial(p) ==
  /\ \E s \in ActiveOf(p) :
       /\ ReplyToDial(p, s)
       /\ astray' = IF row[s].state = "MAIN_MENU" THEN astray \ {p} ELSE astray \cup {p}
  /\ UNCHANGED <<row, issued, queued, quoted, unclosed>>

\* "*165#" without one: create_session.
Dial(p) ==
  /\ ActiveOf(p) = {}
  /\ issued < MaxSessions
  /\ issued' = issued + 1
  /\ row' = [s \in DOMAIN row \cup {issued'} |->
               IF s = issued' THEN [phone |-> p, state |-> "MAIN_MENU",
                                    data |-> Nothing, live |-> TRUE]
               ELSE row[s]]
  /\ quoted' = [quoted EXCEPT ![p] = Nothing]
  /\ astray' = astray \ {p}
  /\ ReplyToDial(p, issued')
  /\ UNCHANGED <<queued, unclosed>>

\* The session a phone keeps is gone, or has expired and is deleted now.
SessionNotFound(p) ==
  /\ InDialogue(p)
  /\ ~Found(phone[p].sid)
  /\ Drop(phone[p].sid)
  /\ Reply(p, "off")
  /\ UNCHANGED <<issued, queued, unclosed>>

ChooseOperation(p, i) ==
  /\ Answers(p, {"MAIN_MENU"})
  /\ i \in DOMAIN Choice
  /\ UpdateSession(phone[p].sid, AmountState[Choice[i]], [op |-> Choice[i]])
  /\ Reply(p, AmountState[Choice[i]])
  /\ UNCHANGED <<issued, queued, unclosed>>

\* Balance and mini statement: the session lives on and the menu is shown.
Enquire(p, i) ==
  /\ Answers(p, {"MAIN_MENU"})
  /\ i \in {"3", "4"}
  /\ UpdateSession(phone[p].sid, "MAIN_MENU", << >>)
  /\ Reply(p, "MAIN_MENU")
  /\ UNCHANGED <<issued, queued, unclosed>>

Exit(p, i) ==
  /\ Answers(p, {"MAIN_MENU"})
  /\ i = "0"
  /\ Drop(phone[p].sid)
  /\ Reply(p, "off")
  /\ UNCHANGED <<issued, queued, unclosed>>

EnterAmount(p, i) ==
  \E o \in Operations :
    LET order == [op |-> o, amount |-> Value[i]]
    IN /\ Answers(p, {AmountState[o]})
       /\ IsAmount(i)
       /\ UpdateSession(phone[p].sid, ConfirmState[o], order)
       /\ ReplyAsking(p, order)
       /\ UNCHANGED <<issued, queued, unclosed>>

\* A bug variant of the definition that follows.
CancelledKeepingAmount == [op |-> NoOp]

\* What a cancellation writes over the order.
Cancelled == Nothing

Cancel(p, i) ==
  /\ Answers(p, ConfirmStates)
  /\ i = "2"
  /\ UpdateSession(phone[p].sid, "MAIN_MENU", Cancelled)
  /\ Reply(p, "MAIN_MENU")
  /\ UNCHANGED <<issued, queued, unclosed>>

\* _enqueue_ussd_operation: if the request row cannot be committed nothing is
\* queued, and the caller is not told.
Enqueue(s) ==
  /\ Len(queued[s]) < MaxQueued
  /\ \/ queued' = [queued EXCEPT ![s] = Append(@, row[s].data)]
     \/ CommitsMayFail /\ UNCHANGED queued

\* A bug variant of the definition that follows.
CloseReplyOnly(p) ==
  /\ Reply(p, "off")
  /\ UNCHANGED <<row, unclosed>>

\* end_session after a confirmation; if it fails the caller gets an error,
\* although the operation is queued, and the session still waits.
Close(p) ==
  \/ /\ Drop(phone[p].sid)
     /\ Reply(p, "off")
     /\ UNCHANGED unclosed
  \/ /\ CommitsMayFail
     /\ unclosed' = unclosed \cup {phone[p].sid}
     /\ UNCHANGED <<row, phone, quoted, astray>>

\* "1" to a confirmation: an order that is not complete resets the session.
Confirm(p, i) ==
  LET s == phone[p].sid IN
  /\ Answers(p, ConfirmStates)
  /\ i = "1"
  /\ IF row[s].data.op \in Operations /\ row[s].data.amount > 0
     THEN Enqueue(s) /\ Close(p)
     ELSE /\ UpdateSession(s, "MAIN_MENU", Cancelled)
          /\ Reply(p, "off")
          /\ UNCHANGED <<queued, unclosed>>
  /\ UNCHANGED issued

\* An answer the state has no use for: the caller is asked again.
AskAgain(p, i) ==
  /\ \/ Answers(p, {"MAIN_MENU"}) /\ i \notin {"0", "1", "2", "3", "4"}
     \/ Answers(p, AmountStates) /\ ~IsAmount(i)
     \/ Answers(p, ConfirmStates) /\ i \notin {"1", "2"}
  /\ Reply(p, row[phone[p].sid].state)
  /\ UNCHANGED <<row, issued, queued, unclosed>>

\* The clock passes expires_at.
Expire(s) ==
  /\ row[s].live
  /\ row' = [row EXCEPT ![s].live = FALSE]
  /\ UNCHANGED <<issued, phone, queued, quoted, astray, unclosed>>

Next ==
  \/ \E p \in Phones :
       \/ Dial(p) \/ Redial(p) \/ SessionNotFound(p)
       \/ \E i \in Inputs :
            \/ ChooseOperation(p, i) \/ Enquire(p, i) \/ Exit(p, i)
            \/ EnterAmount(p, i) \/ Cancel(p, i) \/ Confirm(p, i) \/ AskAgain(p, i)
  \/ \E s \in DOMAIN row : Expire(s)

Spec == Init /\ [][Next]_vars
-----------------------------------------------------------------------------
\* A session that waits for a confirmation has a complete order, of the operation
\* its state names, and a session in the main menu has none left over from an
\* order that was cancelled (so the "Session expired" replies of the confirmation
\* states are never given).
PendingOrderIsComplete ==
  \A s \in DOMAIN row :
    /\ row[s].state = "MAIN_MENU" => row[s].data = Nothing
    /\ \A o \in Operations :
         /\ row[s].state = AmountState[o] => row[s].data = [op |-> o, amount |-> NoAmount]
         /\ row[s].state = ConfirmState[o] =>
              row[s].data.op = o /\ row[s].data.amount # NoAmount

Alive(s) == s \in DOMAIN row /\ row[s].live

\* What a session queues is what its phone was last asked to confirm, through
\* cancellations, re-entered amounts, redialling, repeated keys and failed commits,
\* and it was confirmed at a prompt that asks for this very operation.  The first
\* does not hold where that question was lost on its way (the client's retry may then
\* confirm an order nobody saw), the second not while a phone is astray.
QueuedAsAsked ==
  [][\A p \in Phones, s \in DOMAIN row :
       row[s].phone = p /\ Len(queued'[s]) > Len(queued[s]) =>
         LET order == queued'[s][Len(queued'[s])]
         IN /\ quoted[p] \in {order, Unheard}
            /\ p \in astray \/ phone[p].prompt = ConfirmState[order.op]]_vars

\* A session queues at most one operation, however often its keys are sent again,
\* unless its deletion failed after a confirmation.
QueuedOnce == \A s \in Sessions \ unclosed : Len(queued[s]) <= 1

\* A phone has at most one session that has not expired: get_or_create_session
\* never has to choose.
OneActiveSession ==
  \A s, t \in DOMAIN row : Alive(s) /\ Alive(t) /\ row[s].phone = row[t].phone => s = t

\* A session that has expired, or was deleted, is never revived, and no operation
\* is queued from it.
ExpiredStaysExpired ==
  [][\A s \in 1..issued : ~Alive(s) => ~Alive(s)' /\ queued'[s] = queued[s]]_vars
=============================================================================
