--------------------------- MODULE USSDSessionProofs ---------------------------
(***************************************************************************)
(* The proofs about USSDSession: whatever the phones type, however many    *)
(* sessions there are and whatever fails, a pending order is complete, a   *)
(* phone has one session alive, and a session queues the order that was    *)
(* confirmed, once.                                                        *)
(*                                                                         *)
(* The table of sessions changes in four ways only (RowStep): it keeps its *)
(* rows, a row is dropped, a live one is written over, or one with a new   *)
(* id is added.                                                            *)
(***************************************************************************)
EXTENDS USSDSession, TLAPS

States == {"MAIN_MENU"} \cup AmountStates \cup ConfirmStates
Orders == [op : Operations \cup {NoOp}, amount : Int]
Rows == [phone : Phones, state : States, data : Orders, live : BOOLEAN]
Quotes == Orders \cup {Unheard}
Clients == [sid : 1..issued \cup {NoSession}, prompt : States \cup {"off"}]

Types ==
  /\ issued \in 0..MaxSessions
  /\ DOMAIN row \subseteq 1..issued
  /\ \A s \in DOMAIN row : row[s] \in Rows
  /\ phone \in [Phones -> Clients]
  /\ queued \in [Sessions -> Seq(Orders)]
  /\ quoted \in [Phones -> Quotes]
  /\ astray \subseteq Phones

\* A phone keeps no session of another one.
SessionsAreOwn ==
  \A p \in Phones : phone[p].sid \in DOMAIN row => row[phone[p].sid].phone = p

\* A live session that waits for a confirmation holds the order last quoted to
\* its phone, if that question arrived.
PendingIsQuoted ==
  \A s \in DOMAIN row :
    row[s].live /\ row[s].state \in ConfirmStates =>
      quoted[row[s].phone] \in {row[s].data, Unheard}

\* A phone that is not astray sees the prompt of its live session's state.
InStep ==
  \A p \in Phones \ astray :
    LET s == phone[p].sid IN
    s \in DOMAIN row /\ row[s].live /\ phone[p].prompt # "off"
      => phone[p].prompt = row[s].state

\* A session that may still be confirmed, for the first time, has queued nothing.
Unconfirmed(s) == s > issued \/ (s \in DOMAIN row /\ s \notin unclosed)
NothingQueuedYet == \A s \in Sessions : Unconfirmed(s) => queued[s] = << >>

RowInv ==
  /\ Types
  /\ SessionsAreOwn
  /\ PendingOrderIsComplete
  /\ OneActiveSession
  /\ PendingIsQuoted
  /\ InStep

SessionInv == RowInv /\ NothingQueuedYet /\ QueuedOnce
-----------------------------------------------------------------------------
(* The ways the table of sessions changes. *)

\* Rows are dropped or expire.
Subsides ==
  \A t \in DOMAIN row' :
    /\ t \in DOMAIN row
    /\ row'[t] = row[t] \/ row'[t] = [row[t] EXCEPT !.live = FALSE]

\* Row s, which is alive, is written over.
Written(s, state, data) ==
  /\ s \in DOMAIN row /\ row[s].live
  /\ DOMAIN row' = DOMAIN row
  /\ row'[s] = [phone |-> row[s].phone, state |-> state, data |-> data, live |-> TRUE]
  /\ \A t \in DOMAIN row \ {s} : row'[t] = row[t]

\* The phones keep the ids of their sessions.
SidsKept ==
  /\ phone' \in [Phones -> Clients]
  /\ astray' \subseteq Phones
  /\ \A q \in Phones : phone'[q].sid = phone[q].sid

\* A phone is left alone.
Untouched(q) == phone'[q] = phone[q] /\ (q \in astray' <=> q \in astray)

\* A phone sees the prompt of this state, or the end, or is astray.
Sees(q, state) == q \in astray' \/ phone'[q].prompt \in {"off", state}

\* Every phone is left alone, or sees the state of its session if it has one.
Told ==
  \A q \in Phones :
    Untouched(q) \/ (phone[q].sid \in DOMAIN row' => Sees(q, row'[phone[q].sid].state))

\* What a row of a state holds.
Complete(state, data) ==
  /\ state = "MAIN_MENU" => data = Nothing
  /\ \A o \in Operations :
       /\ state = AmountState[o] => data = [op |-> o, amount |-> NoAmount]
       /\ state = ConfirmState[o] => data.op = o /\ data.amount # NoAmount

\* The constants of the dialogue, written out.
LEMMA DialogueIs ==
  /\ Operations = {"deposit", "withdraw"}
  /\ AmountState["deposit"] = "DEPOSIT_AMOUNT"
  /\ AmountState["withdraw"] = "WITHDRAW_AMOUNT"
  /\ ConfirmState["deposit"] = "DEPOSIT_CONFIRM"
  /\ ConfirmState["withdraw"] = "WITHDRAW_CONFIRM"
  /\ AmountStates = {"DEPOSIT_AMOUNT", "WITHDRAW_AMOUNT"}
  /\ ConfirmStates = {"DEPOSIT_CONFIRM", "WITHDRAW_CONFIRM"}
  /\ DOMAIN Choice = {"1", "2"}
  /\ Choice["1"] = "deposit" /\ Choice["2"] = "withdraw"
<1>1. Operations = {"deposit", "withdraw"}
  BY DEF Operations, AmountState
<1>2. /\ AmountState["deposit"] = "DEPOSIT_AMOUNT"
      /\ AmountState["withdraw"] = "WITHDRAW_AMOUNT"
      /\ ConfirmState["deposit"] = "DEPOSIT_CONFIRM"
      /\ ConfirmState["withdraw"] = "WITHDRAW_CONFIRM"
  BY DEF AmountState, ConfirmState
<1>3. /\ AmountStates = {"DEPOSIT_AMOUNT", "WITHDRAW_AMOUNT"}
      /\ ConfirmStates = {"DEPOSIT_CONFIRM", "WITHDRAW_CONFIRM"}
  BY <1>1, <1>2 DEF AmountStates, ConfirmStates
<1>4. /\ DOMAIN Choice = {"1", "2"}
      /\ Choice["1"] = "deposit" /\ Choice["2"] = "withdraw"
  BY DEF Choice
<1> QED
  BY <1>1, <1>2, <1>3, <1>4

\* A reply changes no session id of a phone, and shows the prompt to its own.
LEMMA ShowEffect ==
  ASSUME Types, NEW p \in Phones, NEW prompt \in States \cup {"off"},
         NEW arrives \in BOOLEAN, Show(p, prompt, arrives), issued' = issued
  PROVE  /\ SidsKept
         /\ Sees(p, prompt)
         /\ \A q \in Phones \ {p} : Untouched(q)
<1>1. phone \in [Phones -> Clients] /\ Clients' = Clients /\ astray \subseteq Phones
  BY DEF Types, Clients
<1>2. CASE arrives
  <2>1. phone' = [phone EXCEPT ![p].prompt = prompt] /\ astray' = astray \ {p}
    BY <1>2 DEF Show
  <2> QED
    BY <1>1, <2>1 DEF SidsKept, Clients, Sees, Untouched
<1>3. CASE ~arrives
  <2>1. phone' = phone /\ astray' = astray \cup {p}
    BY <1>3 DEF Show
  <2> QED
    BY <1>1, <2>1 DEF SidsKept, Sees, Untouched
<1> QED
  BY <1>2, <1>3

\* So does a reply that asks for nothing, and it quotes nothing.
LEMMA ReplyEffect ==
  ASSUME Types, NEW p \in Phones, NEW prompt \in States \cup {"off"},
         Reply(p, prompt), issued' = issued
  PROVE  /\ SidsKept
         /\ Sees(p, prompt)
         /\ \A q \in Phones \ {p} : Untouched(q)
         /\ quoted' = quoted
<1>1. PICK arrives \in BOOLEAN : Show(p, prompt, arrives)
  BY DEF Reply, ReplyArrives
<1> QED
  BY <1>1, ShowEffect DEF Reply

\* A row that is dropped is gone, the others are as they were.
LEMMA DropSubsides ==
  ASSUME NEW s, Drop(s)
  PROVE  Subsides
BY DEF Drop, Subsides

\* An order takes the place of the one stored, whatever that is.
LEMMA MergedIs ==
  ASSUME NEW c \in Orders, NEW o \in Operations, NEW n \in Int
  PROVE  Merged(c, [op |-> o, amount |-> n]) = [op |-> o, amount |-> n]
<1>1. DOMAIN c = {"op", "amount"}
  BY DEF Orders
<1> QED
  BY <1>1 DEF Merged

\* So does the empty order, an operation alone leaves the amount, and nothing
\* leaves everything.
LEMMA MergedPartsAre ==
  ASSUME NEW c \in Orders
  PROVE  /\ \A o \in Operations :
              Merged(c, [op |-> o]) = [op |-> o, amount |-> c.amount]
         /\ Merged(c, Nothing) = Nothing
         /\ Merged(c, << >>) = c
<1>1. DOMAIN c = {"op", "amount"} /\ c = [op |-> c.op, amount |-> c.amount]
  BY DEF Orders
<1> QED
  BY <1>1 DEF Merged, Nothing

-----------------------------------------------------------------------------
(* The invariant of the rows. *)

\* Rows that are dropped or expire leave the invariant as it was, if the phones
\* keep their ids and no live row loses its quotation.
LEMMA SubsidingKeeps ==
  ASSUME RowInv, Subsides, SidsKept, issued' = issued,
         queued' \in [Sessions -> Seq(Orders)], quoted' \in [Phones -> Quotes], Told,
         \A t \in DOMAIN row' : row[t].live => quoted'[row[t].phone] = quoted[row[t].phone]
  PROVE  RowInv'
<1>1. Types BY DEF RowInv
<1>2. \A t \in DOMAIN row' :
        /\ t \in DOMAIN row
        /\ row'[t] \in Rows
        /\ row'[t].phone = row[t].phone /\ row'[t].state = row[t].state
        /\ row'[t].data = row[t].data
        /\ row'[t].live => row[t].live
  <2> SUFFICES ASSUME NEW t \in DOMAIN row'
               PROVE  /\ t \in DOMAIN row
                      /\ row'[t] \in Rows
                      /\ row'[t].phone = row[t].phone /\ row'[t].state = row[t].state
                      /\ row'[t].data = row[t].data
                      /\ row'[t].live => row[t].live
    OBVIOUS
  <2>1. /\ t \in DOMAIN row /\ row[t] \in Rows
        /\ row'[t] = row[t] \/ row'[t] = [row[t] EXCEPT !.live = FALSE]
    BY <1>1 DEF Subsides, Types
  <2>2. CASE row'[t] = row[t]
    BY <2>1, <2>2
  <2>3. CASE row'[t] = [row[t] EXCEPT !.live = FALSE]
    BY <2>1, <2>3 DEF Rows
  <2> QED
    BY <2>1, <2>2, <2>3
<1>3. Types'
  BY <1>1, <1>2 DEF Types, SidsKept, Clients
<1>4. SessionsAreOwn'
  BY <1>1, <1>2 DEF RowInv, SessionsAreOwn, SidsKept
<1>5. PendingOrderIsComplete'
  BY <1>2 DEF RowInv, PendingOrderIsComplete
<1>6. OneActiveSession'
  BY <1>2 DEF RowInv, OneActiveSession, Alive
<1>7. PendingIsQuoted'
  <2> SUFFICES ASSUME NEW t \in DOMAIN row', row'[t].live, row'[t].state \in ConfirmStates
               PROVE  quoted'[row'[t].phone] \in {row'[t].data, Unheard}
    BY DEF PendingIsQuoted
  <2>1. row[t].live /\ row[t].state \in ConfirmStates
    BY <1>2
  <2>2. quoted[row[t].phone] \in {row[t].data, Unheard}
    BY <1>2, <2>1 DEF RowInv, PendingIsQuoted
  <2> QED
    BY <1>2, <2>1, <2>2
<1>8. InStep'
  <2> SUFFICES ASSUME NEW q \in Phones, q \notin astray',
                      phone'[q].sid \in DOMAIN row', row'[phone'[q].sid].live,
                      phone'[q].prompt # "off"
               PROVE  phone'[q].prompt = row'[phone'[q].sid].state
    BY DEF InStep
  <2>1. phone'[q].sid = phone[q].sid
    BY DEF SidsKept
  <2>2. CASE Untouched(q)
    BY <2>1, <2>2, <1>2 DEF Untouched, RowInv, InStep
  <2>3. CASE ~Untouched(q)
    BY <2>1, <2>3 DEF Told, Sees
  <2> QED
    BY <2>2, <2>3
<1> QED
  BY <1>3, <1>4, <1>5, <1>6, <1>7, <1>8 DEF RowInv

\* A live row that is written over stays as the invariant wants it, if what is
\* written is complete and an order to be confirmed is the one quoted.
LEMMA WritingKeeps ==
  ASSUME RowInv, NEW s, NEW state \in States, NEW data \in Orders,
         Written(s, state, data), Complete(state, data),
         SidsKept, issued' = issued,
         queued' \in [Sessions -> Seq(Orders)], quoted' \in [Phones -> Quotes],
         phone[row[s].phone].sid = s, Sees(row[s].phone, state),
         \A q \in Phones : q # row[s].phone => quoted'[q] = quoted[q] /\ Untouched(q),
         state \in ConfirmStates => quoted'[row[s].phone] \in {data, Unheard}
  PROVE  RowInv'
<1>1. Types /\ s \in DOMAIN row /\ row[s] \in Rows
  BY DEF RowInv, Written, Types
<1>2. /\ DOMAIN row' = DOMAIN row
      /\ row'[s] \in Rows
      /\ row'[s].phone = row[s].phone /\ row'[s].state = state
      /\ row'[s].data = data /\ row'[s].live /\ row[s].live
      /\ \A t \in DOMAIN row \ {s} : row'[t] = row[t]
  BY <1>1 DEF Written, Rows
<1>3. \A t \in DOMAIN row' : row'[t] \in Rows /\ row'[t].phone = row[t].phone
  BY <1>1, <1>2 DEF Types
<1>4. Types'
  BY <1>1, <1>2, <1>3 DEF Types, SidsKept, Clients
<1>5. SessionsAreOwn'
  BY <1>1, <1>2, <1>3 DEF RowInv, SessionsAreOwn, SidsKept
<1>6. PendingOrderIsComplete'
  <2> SUFFICES ASSUME NEW t \in DOMAIN row'
               PROVE  Complete(row'[t].state, row'[t].data)
    BY DEF PendingOrderIsComplete, Complete
  <2>1. CASE t = s
    BY <2>1, <1>2
  <2>2. CASE t # s
    BY <2>2, <1>2 DEF RowInv, PendingOrderIsComplete, Complete
  <2> QED
    BY <2>1, <2>2
<1>7. OneActiveSession'
  <2> SUFFICES ASSUME NEW t \in DOMAIN row, NEW u \in DOMAIN row,
                      row'[t].live, row'[u].live, row'[t].phone = row'[u].phone
               PROVE  t = u
    BY <1>2 DEF OneActiveSession, Alive
  <2>1. row[t].live /\ row[u].live /\ row[t].phone = row[u].phone
    BY <1>2, <1>3
  <2> QED
    BY <2>1 DEF RowInv, OneActiveSession, Alive
<1>8. PendingIsQuoted'
  <2> SUFFICES ASSUME NEW t \in DOMAIN row, row'[t].live, row'[t].state \in ConfirmStates
               PROVE  quoted'[row'[t].phone] \in {row'[t].data, Unheard}
    BY <1>2 DEF PendingIsQuoted
  <2>1. CASE t = s
    BY <2>1, <1>2
  <2>2. CASE t # s
    <3>1. row'[t] = row[t] /\ row[t].live /\ row[t].phone \in Phones
      BY <2>2, <1>1, <1>2 DEF Types, Rows
    <3>2. row[t].phone # row[s].phone
      BY <2>2, <3>1, <1>1, <1>2 DEF RowInv, OneActiveSession, Alive
    <3>3. quoted[row[t].phone] \in {row[t].data, Unheard}
      BY <3>1 DEF RowInv, PendingIsQuoted
    <3> QED
      BY <3>1, <3>2, <3>3
  <2> QED
    BY <2>1, <2>2
<1>9. InStep'
  <2> SUFFICES ASSUME NEW q \in Phones, q \notin astray',
                      phone'[q].sid \in DOMAIN row', row'[phone'[q].sid].live,
                      phone'[q].prompt # "off"
               PROVE  phone'[q].prompt = row'[phone'[q].sid].state
    BY DEF InStep
  <2>1. phone'[q].sid = phone[q].sid
    BY DEF SidsKept
  <2>2. CASE q = row[s].phone
    BY <2>1, <2>2, <1>2 DEF Sees
  <2>3. CASE q # row[s].phone
    <3>1. phone[q].sid # s
      BY <2>1, <2>3, <1>1 DEF RowInv, SessionsAreOwn
    <3>2. row'[phone[q].sid] = row[phone[q].sid] /\ phone[q].sid \in DOMAIN row
      BY <2>1, <3>1, <1>2
    <3> QED
      BY <2>1, <2>3, <3>2 DEF RowInv, InStep, Untouched
  <2> QED
    BY <2>2, <2>3
<1> QED
  BY <1>4, <1>5, <1>6, <1>7, <1>8, <1>9 DEF RowInv

\* What update_session does to the row of a session that was found.
LEMMA UpdateEffect ==
  ASSUME Types, NEW s, Found(s), NEW state, NEW data, UpdateSession(s, state, data)
  PROVE  \/ Written(s, state, Merged(row[s].data, data))
         \/ Drop(s)
<1>1. s \in DOMAIN row /\ row[s].live /\ row[s] \in Rows
  BY DEF Found, Types
<1> QED
  BY <1>1 DEF UpdateSession, Written

\* A phone's session, when the server finds it: its row.
LEMMA AnsweredIs ==
  ASSUME RowInv, NEW p \in Phones, NEW states, Answers(p, states)
  PROVE  /\ phone[p].sid \in DOMAIN row
         /\ phone[p].sid \in 1..issued
         /\ Found(phone[p].sid)
         /\ row[phone[p].sid] \in Rows
         /\ row[phone[p].sid].live
         /\ row[phone[p].sid].phone = p
         /\ row[phone[p].sid].state \in states
BY DEF RowInv, Types, SessionsAreOwn, Answers, Found

\* An update of p's session that leaves the quotations keeps the invariant, if
\* what it stores is complete.
LEMMA UpdatingKeeps ==
  ASSUME RowInv, NEW p \in Phones, NEW states, Answers(p, states),
         NEW state \in States, NEW data,
         UpdateSession(phone[p].sid, state, data),
         Merged(row[phone[p].sid].data, data) \in Orders,
         Complete(state, Merged(row[phone[p].sid].data, data)),
         SidsKept, Sees(p, state), issued' = issued, queued' = queued,
         quoted' \in [Phones -> Quotes],
         \A q \in Phones : q # p => quoted'[q] = quoted[q] /\ Untouched(q),
         state \in ConfirmStates =>
           quoted'[p] \in {Merged(row[phone[p].sid].data, data), Unheard},
         state \notin ConfirmStates => quoted' = quoted
  PROVE  RowInv'
<1> DEFINE s == phone[p].sid
<1>1. /\ s \in DOMAIN row /\ Found(s) /\ row[s].live /\ row[s].phone = p
      /\ Types /\ row[s] \in Rows
  BY AnsweredIs DEF RowInv
<1>2. queued' \in [Sessions -> Seq(Orders)]
  BY <1>1 DEF Types
<1>3. CASE Written(s, state, Merged(row[s].data, data))
  BY <1>1, <1>2, <1>3, WritingKeeps
<1>4. CASE Drop(s)
  <2>1. Subsides
    BY <1>4, DropSubsides
  <2>2. ASSUME NEW t \in DOMAIN row', row[t].live
        PROVE  quoted'[row[t].phone] = quoted[row[t].phone]
    <3>1. t \in DOMAIN row /\ t # s
      BY <1>4 DEF Drop
    <3>2. row[t].phone # p /\ row[t].phone \in Phones
      BY <1>1, <2>2, <3>1 DEF RowInv, OneActiveSession, Alive, Types, Rows
    <3> QED
      BY <3>2
  <2>3. Told
    BY <1>4 DEF Told, Drop
  <2> QED
    BY <1>2, <2>1, <2>2, <2>3, SubsidingKeeps
<1> QED
  BY <1>1, <1>3, <1>4, UpdateEffect
-----------------------------------------------------------------------------
(* The invariant of the queues. *)

QueueInv == NothingQueuedYet /\ QueuedOnce

\* Where nothing is queued and no session reappears the queues stay as they were.
LEMMA QueuesKeep ==
  ASSUME Types, QueueInv, queued' = queued, unclosed' = unclosed,
         issued' \in Nat, issued <= issued',
         \A t \in DOMAIN row' : t \in DOMAIN row \/ t > issued
  PROVE  QueueInv'
<1>1. \A s \in Sessions : Unconfirmed(s)' => Unconfirmed(s)
  BY DEF Unconfirmed, Types, Sessions
<1> QED
  BY <1>1 DEF QueueInv, NothingQueuedYet, QueuedOnce

\* A step that changes neither the rows nor the queues, nor gives a phone another
\* session.
LEMMA KeepingKeeps ==
  ASSUME SessionInv, row' = row, SidsKept, Told,
         UNCHANGED <<issued, queued, quoted, unclosed>>
  PROVE  SessionInv'
<1>1. RowInv /\ Types /\ QueueInv
  BY DEF SessionInv, RowInv, QueueInv
<1>2. Subsides
  BY DEF Subsides
<1>3. RowInv'
  BY <1>1, <1>2, SubsidingKeeps DEF Types
<1>4. issued \in Nat
  BY <1>1 DEF Types
<1>5. QueueInv'
  BY <1>1, <1>4, QueuesKeep
<1> QED
  BY <1>3, <1>5 DEF SessionInv, QueueInv

\* A step that drops a row.
LEMMA DroppingKeeps ==
  ASSUME SessionInv, NEW s, Drop(s), SidsKept, Told,
         UNCHANGED <<issued, queued, quoted, unclosed>>
  PROVE  SessionInv'
<1>1. RowInv /\ Types /\ QueueInv
  BY DEF SessionInv, RowInv, QueueInv
<1>2. Subsides
  BY DropSubsides
<1>3. RowInv'
  BY <1>1, <1>2, SubsidingKeeps DEF Types
<1>4. issued \in Nat /\ \A t \in DOMAIN row' : t \in DOMAIN row
  BY <1>1 DEF Types, Drop
<1>5. QueueInv'
  BY <1>1, <1>4, QueuesKeep
<1> QED
  BY <1>3, <1>5 DEF SessionInv, QueueInv

\* create_session, for a phone without a session.
LEMMA DialKeeps ==
  ASSUME SessionInv, NEW p \in Phones, Dial(p)
  PROVE  SessionInv'
<1> DEFINE new == issued'
<1> DEFINE r == [phone |-> p, state |-> "MAIN_MENU", data |-> Nothing, live |-> TRUE]
<1>1. RowInv /\ Types /\ QueueInv
  BY DEF SessionInv, RowInv, QueueInv
<1>2. /\ issued \in Nat /\ issued < MaxSessions /\ new = issued + 1 /\ MaxSessions \in Nat
      /\ queued' = queued /\ unclosed' = unclosed
      /\ quoted' = [quoted EXCEPT ![p] = Nothing]
      /\ DOMAIN row \subseteq 1..issued /\ new \notin DOMAIN row
      /\ \A t \in DOMAIN row : ~(row[t].phone = p /\ row[t].live)
  BY <1>1, USSDAssumption DEF Dial, Types, ActiveOf
<1>15. astray' = astray \ {p} /\ astray \subseteq Phones
  BY <1>1 DEF Dial, Types
<1>3. /\ DOMAIN row' = DOMAIN row \cup {new} /\ row'[new] = r
      /\ \A t \in DOMAIN row : row'[t] = row[t]
  BY <1>2 DEF Dial
<1>4. Nothing \in Orders /\ Nothing \in Quotes /\ r \in Rows
  BY DialogueIs DEF Nothing, Orders, NoOp, NoAmount, Rows, States, Quotes
<1>5. \/ phone' = [phone EXCEPT ![p] = [sid |-> new, prompt |-> "MAIN_MENU"]]
      \/ phone' = [phone EXCEPT ![p] = [sid |-> NoSession, prompt |-> "off"]]
  BY DEF Dial, ReplyToDial
<1>6. /\ phone' \in [Phones -> Clients']
      /\ \/ phone'[p] = [sid |-> new, prompt |-> "MAIN_MENU"]
         \/ phone'[p] = [sid |-> NoSession, prompt |-> "off"]
      /\ \A q \in Phones \ {p} : phone'[q] = phone[q]
  BY <1>1, <1>2, <1>5 DEF Types, Clients, States
<1>7. Types'
  <2>1. new \in 0..MaxSessions /\ DOMAIN row' \subseteq 1..new
    BY <1>2, <1>3
  <2>2. \A t \in DOMAIN row' : row'[t] \in Rows
    BY <1>1, <1>3, <1>4 DEF Types
  <2>3. quoted' \in [Phones -> Quotes]
    BY <1>1, <1>2, <1>4 DEF Types
  <2> QED
    BY <1>1, <1>2, <1>6, <1>15, <2>1, <2>2, <2>3 DEF Types
<1>8. SessionsAreOwn'
  <2> SUFFICES ASSUME NEW q \in Phones, phone'[q].sid \in DOMAIN row'
               PROVE  row'[phone'[q].sid].phone = q
    BY DEF SessionsAreOwn
  <2>1. \A t \in Phones : phone[t].sid # new /\ NoSession \notin DOMAIN row'
    BY <1>1, <1>2, <1>3, USSDAssumption DEF Types, Clients
  <2>2. CASE q = p /\ phone'[q].sid = new
    BY <2>2, <1>3
  <2>3. CASE phone'[q].sid = phone[q].sid
    BY <2>1, <2>3, <1>1, <1>3 DEF RowInv, SessionsAreOwn
  <2> QED
    BY <2>1, <2>2, <2>3, <1>6
<1>9. PendingOrderIsComplete'
  <2> SUFFICES ASSUME NEW t \in DOMAIN row'
               PROVE  Complete(row'[t].state, row'[t].data)
    BY DEF PendingOrderIsComplete, Complete
  <2>1. CASE t = new
    BY <2>1, <1>3, DialogueIs DEF Complete
  <2>2. CASE t \in DOMAIN row
    BY <2>2, <1>1, <1>3 DEF RowInv, PendingOrderIsComplete, Complete
  <2> QED
    BY <2>1, <2>2, <1>3
<1>10. OneActiveSession'
  BY <1>1, <1>2, <1>3 DEF RowInv, OneActiveSession, Alive
<1>11. PendingIsQuoted'
  <2> SUFFICES ASSUME NEW t \in DOMAIN row', row'[t].live, row'[t].state \in ConfirmStates
               PROVE  quoted'[row'[t].phone] \in {row'[t].data, Unheard}
    BY DEF PendingIsQuoted
  <2>1. t \in DOMAIN row /\ row'[t] = row[t]
    BY <1>3, DialogueIs
  <2>2. row[t].phone \in Phones /\ row[t].phone # p
    BY <2>1, <1>1, <1>2 DEF Types, Rows
  <2>3. quoted[row[t].phone] \in {row[t].data, Unheard}
    BY <2>1, <1>1 DEF RowInv, PendingIsQuoted
  <2> QED
    BY <2>1, <2>2, <2>3, <1>2
<1>16. InStep'
  <2> SUFFICES ASSUME NEW q \in Phones, q \notin astray',
                      phone'[q].sid \in DOMAIN row', row'[phone'[q].sid].live,
                      phone'[q].prompt # "off"
               PROVE  phone'[q].prompt = row'[phone'[q].sid].state
    BY DEF InStep
  <2>1. CASE q = p
    BY <2>1, <1>3, <1>6
  <2>2. CASE q # p
    <3>1. phone'[q] = phone[q] /\ q \notin astray /\ phone[q].sid # new
      BY <2>2, <1>1, <1>2, <1>6, <1>15, USSDAssumption DEF Types, Clients
    <3> QED
      BY <3>1, <1>1, <1>3 DEF RowInv, InStep
  <2> QED
    BY <2>1, <2>2
<1>12. RowInv'
  BY <1>7, <1>8, <1>9, <1>10, <1>11, <1>16 DEF RowInv
<1>13. \A t \in DOMAIN row' : t \in DOMAIN row \/ t > issued
  BY <1>2, <1>3
<1>14. QueueInv'
  BY <1>1, <1>2, <1>13, QueuesKeep
<1> QED
  BY <1>12, <1>14 DEF SessionInv, QueueInv

\* A phone that dials again is given back a session of its own.
LEMMA RedialKeeps ==
  ASSUME SessionInv, NEW p \in Phones, Redial(p)
  PROVE  SessionInv'
<1>1. RowInv /\ Types /\ QueueInv
  BY DEF SessionInv, RowInv, QueueInv
<1>2. PICK s \in ActiveOf(p) :
        /\ ReplyToDial(p, s)
        /\ astray' = IF row[s].state = "MAIN_MENU" THEN astray \ {p} ELSE astray \cup {p}
  BY DEF Redial
<1>3. s \in DOMAIN row /\ row[s].phone = p /\ s \in 1..issued
  BY <1>1 DEF ActiveOf, Types
<1>4. UNCHANGED <<row, issued, queued, quoted, unclosed>>
  BY DEF Redial
<1>5. \/ phone' = [phone EXCEPT ![p] = [sid |-> s, prompt |-> "MAIN_MENU"]]
      \/ phone' = [phone EXCEPT ![p] = [sid |-> NoSession, prompt |-> "off"]]
  BY <1>2 DEF ReplyToDial
<1>6. /\ phone' \in [Phones -> Clients]
      /\ \/ phone'[p] = [sid |-> s, prompt |-> "MAIN_MENU"]
         \/ phone'[p] = [sid |-> NoSession, prompt |-> "off"]
      /\ \A q \in Phones \ {p} : phone'[q] = phone[q]
  <2>1. /\ [sid |-> s, prompt |-> "MAIN_MENU"] \in Clients
        /\ [sid |-> NoSession, prompt |-> "off"] \in Clients
        /\ phone \in [Phones -> Clients]
    BY <1>1, <1>3 DEF Types, Clients, States
  <2> QED
    BY <1>5, <2>1
<1>12. astray' \subseteq Phones /\ astray \subseteq Phones
       /\ \A q \in Phones \ {p} : q \in astray' <=> q \in astray
  BY <1>1, <1>2 DEF Types
<1>7. Types'
  BY <1>1, <1>4, <1>6, <1>12 DEF Types, Clients
<1>8. SessionsAreOwn'
  <2>1. NoSession \notin DOMAIN row
    BY <1>1, USSDAssumption DEF Types
  <2> QED
    BY <1>1, <1>3, <1>4, <1>6, <2>1 DEF RowInv, SessionsAreOwn
<1>9. PendingOrderIsComplete' /\ OneActiveSession' /\ PendingIsQuoted'
  BY <1>1, <1>4 DEF RowInv, PendingOrderIsComplete, OneActiveSession, Alive, PendingIsQuoted
<1>13. InStep'
  <2> SUFFICES ASSUME NEW q \in Phones, q \notin astray',
                      phone'[q].sid \in DOMAIN row, row[phone'[q].sid].live,
                      phone'[q].prompt # "off"
               PROVE  phone'[q].prompt = row[phone'[q].sid].state
    BY <1>4 DEF InStep
  <2>1. CASE q = p
    BY <2>1, <1>2, <1>6
  <2>2. CASE q # p
    BY <2>2, <1>1, <1>6, <1>12 DEF RowInv, InStep
  <2> QED
    BY <2>1, <2>2
<1>10. issued \in Nat
  BY <1>1 DEF Types
<1>11. QueueInv'
  BY <1>1, <1>4, <1>10, QueuesKeep
<1> QED
  BY <1>7, <1>8, <1>9, <1>11, <1>13 DEF SessionInv, RowInv, QueueInv

\* A step that updates p's session, and queues nothing.
LEMMA UpdateStepKeeps ==
  ASSUME SessionInv, NEW p \in Phones, NEW states, Answers(p, states),
         NEW state \in States, NEW data,
         UpdateSession(phone[p].sid, state, data),
         Merged(row[phone[p].sid].data, data) \in Orders,
         Complete(state, Merged(row[phone[p].sid].data, data)),
         SidsKept, Sees(p, state),
         UNCHANGED <<issued, queued, unclosed>>,
         quoted' \in [Phones -> Quotes],
         \A q \in Phones : q # p => quoted'[q] = quoted[q] /\ Untouched(q),
         state \in ConfirmStates =>
           quoted'[p] \in {Merged(row[phone[p].sid].data, data), Unheard},
         state \notin ConfirmStates => quoted' = quoted
  PROVE  SessionInv'
<1>1. RowInv /\ Types /\ QueueInv
  BY DEF SessionInv, RowInv, QueueInv
<1>3. RowInv'
  BY <1>1, UpdatingKeeps
<1>4. Found(phone[p].sid) /\ issued \in Nat
  BY <1>1, AnsweredIs DEF Types
<1>5. \/ Written(phone[p].sid, state, Merged(row[phone[p].sid].data, data))
      \/ Drop(phone[p].sid)
  BY <1>1, <1>4, UpdateEffect
<1>6. \A t \in DOMAIN row' : t \in DOMAIN row
  BY <1>5 DEF Written, Drop
<1>7. QueueInv'
  BY <1>1, <1>4, <1>6, QueuesKeep
<1> QED
  BY <1>3, <1>7 DEF SessionInv, QueueInv

\* The choice of an operation in the main menu.
LEMMA ChooseKeeps ==
  ASSUME SessionInv, NEW p \in Phones, NEW i, ChooseOperation(p, i)
  PROVE  SessionInv'
<1> DEFINE s == phone[p].sid
<1> DEFINE o == Choice[i]
<1>1. RowInv /\ Types
  BY DEF SessionInv, RowInv
<1>2. /\ Answers(p, {"MAIN_MENU"}) /\ o \in Operations
      /\ UpdateSession(s, AmountState[o], [op |-> o])
      /\ Reply(p, AmountState[o])
      /\ UNCHANGED <<issued, queued, unclosed>>
  BY DialogueIs DEF ChooseOperation
<1>3. s \in DOMAIN row /\ row[s] \in Rows /\ row[s].state = "MAIN_MENU"
  BY <1>1, <1>2, AnsweredIs
<1>4. row[s].data = Nothing /\ row[s].data \in Orders
  BY <1>1, <1>3 DEF RowInv, PendingOrderIsComplete, Rows
<1> HIDE DEF o
<1>5. Merged(row[s].data, [op |-> o]) = [op |-> o, amount |-> NoAmount]
  <2>1. Merged(row[s].data, [op |-> o]) = [op |-> o, amount |-> row[s].data.amount]
    BY <1>2, <1>4, MergedPartsAre
  <2> QED
    BY <1>4, <2>1 DEF Nothing
<1>6. /\ AmountState[o] \in States /\ AmountState[o] \notin ConfirmStates
      /\ [op |-> o, amount |-> NoAmount] \in Orders
      /\ Complete(AmountState[o], [op |-> o, amount |-> NoAmount])
  BY <1>2, DialogueIs DEF States, Orders, NoAmount, Complete
<1>7. /\ SidsKept /\ Sees(p, AmountState[o]) /\ quoted' = quoted
      /\ \A q \in Phones \ {p} : Untouched(q)
  BY <1>1, <1>2, <1>6, ReplyEffect
<1>8. quoted' \in [Phones -> Quotes]
  BY <1>1, <1>7 DEF Types
<1> QED
  BY <1>2, <1>5, <1>6, <1>7, <1>8, UpdateStepKeeps

\* Balance and mini statement.
LEMMA EnquireKeeps ==
  ASSUME SessionInv, NEW p \in Phones, NEW i, Enquire(p, i)
  PROVE  SessionInv'
<1> DEFINE s == phone[p].sid
<1>1. RowInv /\ Types
  BY DEF SessionInv, RowInv
<1>2. /\ Answers(p, {"MAIN_MENU"})
      /\ UpdateSession(s, "MAIN_MENU", << >>)
      /\ Reply(p, "MAIN_MENU")
      /\ UNCHANGED <<issued, queued, unclosed>>
  BY DEF Enquire
<1>3. s \in DOMAIN row /\ row[s] \in Rows /\ row[s].state = "MAIN_MENU"
  BY <1>1, <1>2, AnsweredIs
<1>4. row[s].data = Nothing /\ row[s].data \in Orders
  BY <1>1, <1>3 DEF RowInv, PendingOrderIsComplete, Rows
<1>5. Merged(row[s].data, << >>) = Nothing
  BY <1>4, MergedPartsAre
<1>6. /\ "MAIN_MENU" \in States /\ "MAIN_MENU" \notin ConfirmStates
      /\ Complete("MAIN_MENU", Nothing) /\ Nothing \in Orders
  BY <1>4, DialogueIs DEF States, Complete
<1>7. /\ SidsKept /\ Sees(p, "MAIN_MENU") /\ quoted' = quoted
      /\ \A q \in Phones \ {p} : Untouched(q)
  BY <1>1, <1>2, <1>6, ReplyEffect
<1>8. quoted' \in [Phones -> Quotes]
  BY <1>1, <1>7 DEF Types
<1> QED
  BY <1>2, <1>5, <1>6, <1>7, <1>8, UpdateStepKeeps

\* The session goes back to the main menu, its order forgotten.
LEMMA ResetKeeps ==
  ASSUME SessionInv, NEW p \in Phones, NEW states, Answers(p, states),
         UpdateSession(phone[p].sid, "MAIN_MENU", Cancelled),
         NEW prompt \in {"off", "MAIN_MENU"}, Reply(p, prompt),
         UNCHANGED <<issued, queued, unclosed>>
  PROVE  SessionInv'
<1> DEFINE s == phone[p].sid
<1>1. RowInv /\ Types
  BY DEF SessionInv, RowInv
<1>2. row[s].data \in Orders
  BY <1>1, AnsweredIs DEF Rows
<1>3. Merged(row[s].data, Cancelled) = Nothing
  BY <1>2, MergedPartsAre DEF Cancelled
<1>4. /\ "MAIN_MENU" \in States /\ "MAIN_MENU" \notin ConfirmStates
      /\ Complete("MAIN_MENU", Nothing) /\ Nothing \in Orders
  BY DialogueIs DEF States, Complete, Nothing, Orders, NoOp, NoAmount
<1>5. /\ SidsKept /\ Sees(p, prompt) /\ quoted' = quoted
      /\ \A q \in Phones \ {p} : Untouched(q)
  BY <1>1, <1>4, ReplyEffect
<1>6. Sees(p, "MAIN_MENU")
  BY <1>5 DEF Sees
<1>7. quoted' \in [Phones -> Quotes]
  BY <1>1, <1>5 DEF Types
<1> QED
  BY <1>3, <1>4, <1>5, <1>6, <1>7, UpdateStepKeeps

\* An amount: the order is stored, and quoted to its phone if the reply arrives.
LEMMA EnterAmountKeeps ==
  ASSUME SessionInv, NEW p \in Phones, NEW i \in Inputs, EnterAmount(p, i)
  PROVE  SessionInv'
<1> DEFINE s == phone[p].sid
<1>1. RowInv /\ Types
  BY DEF SessionInv, RowInv
<1>2. PICK o \in Operations :
        /\ Answers(p, {AmountState[o]})
        /\ IsAmount(i)
        /\ UpdateSession(s, ConfirmState[o], [op |-> o, amount |-> Value[i]])
        /\ ReplyAsking(p, [op |-> o, amount |-> Value[i]])
        /\ UNCHANGED <<issued, queued, unclosed>>
  BY DEF EnterAmount
<1> DEFINE order == [op |-> o, amount |-> Value[i]]
<1>3. Value[i] \in Int /\ Value[i] > 0
  BY <1>2, USSDAssumption DEF IsAmount
<1>4. row[s].data \in Orders
  BY <1>1, <1>2, AnsweredIs DEF Rows
<1>5. Merged(row[s].data, order) = order
  BY <1>3, <1>4, MergedIs
<1>6. order \in Orders /\ order.op = o /\ order.amount # NoAmount
  BY <1>3 DEF Orders, NoAmount
<1>7. ConfirmState[o] \in ConfirmStates /\ ConfirmState[o] \in States
  BY DialogueIs DEF States
<1>8. Complete(ConfirmState[o], order)
  BY <1>6, DialogueIs DEF Complete
<1>9. PICK arrives \in BOOLEAN :
        /\ Show(p, ConfirmState[o], arrives)
        /\ quoted' = [quoted EXCEPT ![p] = IF arrives THEN order ELSE Unheard]
  BY <1>2 DEF ReplyAsking, ReplyArrives
<1>10. /\ SidsKept /\ Sees(p, ConfirmState[o])
       /\ \A q \in Phones \ {p} : Untouched(q)
  BY <1>1, <1>2, <1>7, <1>9, ShowEffect
<1>11. /\ quoted' \in [Phones -> Quotes] /\ quoted'[p] \in {order, Unheard}
       /\ \A q \in Phones : q # p => quoted'[q] = quoted[q]
  <2>1. quoted \in [Phones -> Quotes] /\ order \in Quotes /\ Unheard \in Quotes
    BY <1>1, <1>6 DEF Types, Quotes
  <2> HIDE DEF order
  <2>2. quoted' = [quoted EXCEPT ![p] = order] \/ quoted' = [quoted EXCEPT ![p] = Unheard]
    BY <1>9
  <2> QED
    BY <2>1, <2>2
<1> HIDE DEF order
<1> QED
  BY <1>2, <1>5, <1>6, <1>7, <1>8, <1>10, <1>11, UpdateStepKeeps DEF order

\* What a confirmed order does: the session queues it or nothing, and is gone or
\* counted among those whose deletion failed.
LEMMA ConfirmedEffect ==
  ASSUME SessionInv, NEW p \in Phones, Answers(p, ConfirmStates),
         Enqueue(phone[p].sid), Close(p), issued' = issued
  PROVE  LET s == phone[p].sid IN
         /\ s \in Sessions
         /\ queued' \in [Sessions -> Seq(Orders)]
         /\ \/ queued'[s] = queued[s]
            \/ queued'[s] = Append(queued[s], row[s].data)
         /\ \A t \in Sessions \ {s} : queued'[t] = queued[t]
         /\ unclosed \subseteq unclosed' /\ unclosed' \subseteq unclosed \cup {s}
         /\ s \notin DOMAIN row' \/ s \in unclosed'
         /\ SidsKept /\ Told /\ quoted' = quoted
         /\ Subsides
<1> DEFINE s == phone[p].sid
<1>1. RowInv /\ Types
  BY DEF SessionInv, RowInv
<1>2. s \in 1..issued /\ row[s] \in Rows /\ issued \in 0..MaxSessions /\ MaxSessions \in Nat
  BY <1>1, AnsweredIs, USSDAssumption DEF Types
<1>3. s \in Sessions /\ row[s].data \in Orders
  BY <1>2 DEF Sessions, Rows
<1> HIDE DEF s
<1>4. /\ queued' \in [Sessions -> Seq(Orders)]
      /\ \/ queued'[s] = queued[s]
         \/ queued'[s] = Append(queued[s], row[s].data)
      /\ \A t \in Sessions \ {s} : queued'[t] = queued[t]
  <2>1. Append(queued[s], row[s].data) \in Seq(Orders) /\ queued \in [Sessions -> Seq(Orders)]
    BY <1>1, <1>3 DEF Types
  <2>2. CASE queued' = [queued EXCEPT ![s] = Append(@, row[s].data)]
    BY <2>1, <2>2, <1>3
  <2>3. CASE queued' = queued
    BY <2>1, <2>3
  <2> QED
    BY <2>2, <2>3 DEF Enqueue, s
<1>5. /\ unclosed \subseteq unclosed' /\ unclosed' \subseteq unclosed \cup {s}
      /\ s \notin DOMAIN row' \/ s \in unclosed'
  BY DEF Close, Drop, s
<1>6. SidsKept /\ Told /\ quoted' = quoted
  <2>1. CASE Reply(p, "off")
    <3>1. /\ SidsKept /\ Sees(p, "off") /\ quoted' = quoted
          /\ \A q \in Phones \ {p} : Untouched(q)
      BY <2>1, <1>1, ReplyEffect
    <3> QED
      BY <3>1 DEF Told, Sees
  <2>2. CASE UNCHANGED <<phone, quoted, astray>>
    BY <2>2, <1>1 DEF SidsKept, Types, Told, Untouched, Clients
  <2> QED
    BY <2>1, <2>2 DEF Close
<1>7. Subsides
  <2>1. CASE Drop(s)
    BY <2>1, DropSubsides
  <2>2. CASE row' = row
    BY <2>2 DEF Subsides
  <2> QED
    BY <2>1, <2>2 DEF Close, s
<1> QED
  BY <1>3, <1>4, <1>5, <1>6, <1>7 DEF s

\* "1" to a confirmation.
LEMMA ConfirmKeeps ==
  ASSUME SessionInv, NEW p \in Phones, NEW i, Confirm(p, i)
  PROVE  SessionInv'
<1> DEFINE s == phone[p].sid
<1>1. RowInv /\ Types
  BY DEF SessionInv, RowInv
<1>2. Answers(p, ConfirmStates) /\ issued' = issued
  BY DEF Confirm
<1>3. CASE Enqueue(s) /\ Close(p)
  <2>1. /\ s \in Sessions
        /\ queued' \in [Sessions -> Seq(Orders)]
        /\ \/ queued'[s] = queued[s]
           \/ queued'[s] = Append(queued[s], row[s].data)
        /\ \A t \in Sessions \ {s} : queued'[t] = queued[t]
        /\ unclosed \subseteq unclosed'
        /\ s \notin DOMAIN row' \/ s \in unclosed'
        /\ SidsKept /\ Told /\ quoted' = quoted
        /\ Subsides
    BY <1>2, <1>3, ConfirmedEffect
  <2>2. RowInv'
    BY <1>1, <1>2, <2>1, SubsidingKeeps DEF Types
  <2>3. s \in DOMAIN row /\ s \in 1..issued /\ row[s] \in Rows
    BY <1>1, <1>2, AnsweredIs
  <2> HIDE DEF s
  <2>4. NothingQueuedYet'
    <3> SUFFICES ASSUME NEW t \in Sessions, Unconfirmed(t)'
                 PROVE  queued'[t] = << >>
      BY DEF NothingQueuedYet
    <3>1. t # s /\ Unconfirmed(t)
      BY <1>1, <1>2, <2>1, <2>3 DEF Unconfirmed, Types, Subsides
    <3> QED
      BY <2>1, <3>1 DEF SessionInv, NothingQueuedYet
  <2>5. QueuedOnce'
    <3> SUFFICES ASSUME NEW t \in Sessions, t \notin unclosed'
                 PROVE  Len(queued'[t]) <= 1
      BY DEF QueuedOnce
    <3>1. t \notin unclosed /\ Len(queued[t]) <= 1
      BY <2>1 DEF SessionInv, QueuedOnce
    <3>2. CASE t = s
      <4>1. queued[t] = << >>
        BY <2>1, <2>3, <3>1, <3>2 DEF SessionInv, NothingQueuedYet, Unconfirmed
      <4>2. row[t].data \in Orders
        BY <2>3, <3>2 DEF Rows
      <4>3. Len(Append(queued[t], row[t].data)) = 1
        BY <4>1, <4>2
      <4> QED
        BY <2>1, <3>1, <3>2, <4>3
    <3>3. CASE t # s
      BY <2>1, <3>1, <3>3
    <3> QED
      BY <3>2, <3>3
  <2> QED
    BY <2>2, <2>4, <2>5 DEF SessionInv
<1>4. CASE UpdateSession(s, "MAIN_MENU", Cancelled) /\ Reply(p, "off")
           /\ UNCHANGED <<queued, unclosed>>
  BY <1>2, <1>4, ResetKeeps
<1> QED
  BY <1>3, <1>4 DEF Confirm

\* The clock passes the expiry of a session.
LEMMA ExpireKeeps ==
  ASSUME SessionInv, NEW s \in DOMAIN row, Expire(s)
  PROVE  SessionInv'
<1>1. RowInv /\ Types /\ QueueInv
  BY DEF SessionInv, RowInv, QueueInv
<1>2. /\ DOMAIN row' = DOMAIN row
      /\ row'[s] = [row[s] EXCEPT !.live = FALSE]
      /\ \A t \in DOMAIN row \ {s} : row'[t] = row[t]
      /\ UNCHANGED <<issued, phone, queued, quoted, astray, unclosed>>
  BY DEF Expire
<1>3. Subsides
  BY <1>2 DEF Subsides
<1>4. SidsKept /\ Told
  BY <1>1, <1>2 DEF SidsKept, Types, Told, Untouched, Clients
<1>5. RowInv'
  BY <1>1, <1>2, <1>3, <1>4, SubsidingKeeps DEF Types
<1>6. QueueInv'
  BY <1>1, <1>2, QueuesKeep DEF Types
<1> QED
  BY <1>5, <1>6 DEF SessionInv, QueueInv
-----------------------------------------------------------------------------
(* The theorems. *)

\* The empty table has the invariant.
LEMMA InitSessionInv == Init => SessionInv
<1> SUFFICES ASSUME Init PROVE SessionInv
  OBVIOUS
<1>1. Types
  <2>1. issued \in 0..MaxSessions
    BY USSDAssumption DEF Init
  <2>2. DOMAIN row = {}
    BY DEF Init
  <2>3. phone \in [Phones -> Clients]
    BY DEF Init, Clients
  <2>4. << >> \in Seq(Orders) /\ Nothing \in Orders
    BY DEF Nothing, Orders, NoOp, NoAmount
  <2>5. /\ queued \in [Sessions -> Seq(Orders)] /\ quoted \in [Phones -> Quotes]
        /\ astray \subseteq Phones
    BY <2>4 DEF Init, Quotes
  <2> QED
    BY <2>1, <2>2, <2>3, <2>5 DEF Types
<1>2. DOMAIN row = {} /\ \A s \in Sessions : queued[s] = << >>
  BY DEF Init
<1>3. /\ SessionsAreOwn /\ PendingOrderIsComplete /\ OneActiveSession
      /\ PendingIsQuoted /\ InStep /\ NothingQueuedYet
  BY <1>2 DEF SessionsAreOwn, PendingOrderIsComplete, OneActiveSession, PendingIsQuoted,
              InStep, NothingQueuedYet
<1>4. QueuedOnce
  BY <1>2 DEF QueuedOnce
<1> QED
  BY <1>1, <1>3, <1>4 DEF SessionInv, RowInv

\* Every step keeps the invariant, action by action.
LEMMA StepKeepsSessionInv == SessionInv /\ [Next]_vars => SessionInv'
<1> SUFFICES ASSUME SessionInv, [Next]_vars PROVE SessionInv'
  OBVIOUS
<1>1. RowInv /\ Types
  BY DEF SessionInv, RowInv
<1>2. CASE UNCHANGED vars
  <2>1. SidsKept /\ Told
    BY <1>1, <1>2 DEF SidsKept, Types, vars, Told, Untouched, Clients
  <2> QED
    BY <1>2, <2>1, KeepingKeeps DEF vars
<1>3. ASSUME NEW p \in Phones, SessionNotFound(p)
      PROVE  SessionInv'
  <2>1. /\ SidsKept /\ Sees(p, "off") /\ quoted' = quoted
        /\ \A q \in Phones \ {p} : Untouched(q)
    BY <1>1, <1>3, ReplyEffect DEF SessionNotFound
  <2>2. Told
    BY <2>1 DEF Told, Sees
  <2> QED
    BY <1>3, <2>1, <2>2, DroppingKeeps DEF SessionNotFound
<1>4. ASSUME NEW p \in Phones, NEW i \in Inputs, Exit(p, i)
      PROVE  SessionInv'
  <2>1. /\ SidsKept /\ Sees(p, "off") /\ quoted' = quoted
        /\ \A q \in Phones \ {p} : Untouched(q)
    BY <1>1, <1>4, ReplyEffect DEF Exit
  <2>2. Told
    BY <2>1 DEF Told, Sees
  <2> QED
    BY <1>4, <2>1, <2>2, DroppingKeeps DEF Exit
<1>5. ASSUME NEW p \in Phones, NEW i \in Inputs, Cancel(p, i)
      PROVE  SessionInv'
  BY <1>5, ResetKeeps DEF Cancel
<1>6. ASSUME NEW p \in Phones, NEW i \in Inputs, AskAgain(p, i)
      PROVE  SessionInv'
  <2> DEFINE t == phone[p].sid
  <2>1. /\ Reply(p, row[t].state)
        /\ row' = row /\ UNCHANGED <<issued, queued, unclosed>>
    BY <1>6 DEF AskAgain
  <2>2. t \in DOMAIN row /\ row[t].state \in States
    BY <1>1, <1>6 DEF AskAgain, Answers, Found, Types, Rows
  <2>3. /\ SidsKept /\ Sees(p, row[t].state) /\ quoted' = quoted
        /\ \A q \in Phones \ {p} : Untouched(q)
    BY <1>1, <2>1, <2>2, ReplyEffect
  <2>4. Told
    BY <2>1, <2>3 DEF Told
  <2> QED
    BY <2>1, <2>3, <2>4, KeepingKeeps
<1> QED
  BY <1>2, <1>3, <1>4, <1>5, <1>6, DialKeeps, RedialKeeps, ChooseKeeps, EnquireKeeps,
     EnterAmountKeeps, ConfirmKeeps, ExpireKeeps DEF Next

\* The invariant of the sessions holds in every reachable state.
THEOREM SessionInvariant == Spec => []SessionInv
BY InitSessionInv, StepKeepsSessionInv, PTL DEF Spec

\* Whatever was typed, cancelled, repeated or lost, a session that asks for a
\* confirmation has a complete order of the operation it names.
THEOREM PendingOrderTheorem == Spec => []PendingOrderIsComplete
<1>1. SessionInv => PendingOrderIsComplete
  BY DEF SessionInv, RowInv
<1> QED
  BY <1>1, SessionInvariant, PTL

\* A phone never has two sessions alive.
THEOREM ActiveSessionTheorem == Spec => []OneActiveSession
<1>1. SessionInv => OneActiveSession
  BY DEF SessionInv, RowInv
<1> QED
  BY <1>1, SessionInvariant, PTL

\* A session whose deletion did not fail queued at most one operation.
THEOREM QueuedOnceTheorem == Spec => []QueuedOnce
<1>1. SessionInv => QueuedOnce
  BY DEF SessionInv
<1> QED
  BY <1>1, SessionInvariant, PTL

\* Only a confirmation queues something.
LEMMA OnlyConfirmQueues ==
  ASSUME Next, queued' # queued
  PROVE  \E p \in Phones : /\ Answers(p, ConfirmStates)
                           /\ Enqueue(phone[p].sid) /\ Close(p)
                           /\ issued' = issued
<1>1. CASE \E p \in Phones, i \in Inputs : Confirm(p, i)
  BY <1>1 DEF Confirm
<1>2. ASSUME NEW p \in Phones,
             Dial(p) \/ Redial(p) \/ SessionNotFound(p)
      PROVE  FALSE
  BY <1>2 DEF Dial, Redial, SessionNotFound
<1>3. ASSUME NEW p \in Phones, NEW i \in Inputs,
             \/ ChooseOperation(p, i) \/ Enquire(p, i) \/ Exit(p, i)
             \/ EnterAmount(p, i) \/ Cancel(p, i) \/ AskAgain(p, i)
      PROVE  FALSE
  BY <1>3 DEF ChooseOperation, Enquire, Exit, EnterAmount, Cancel, AskAgain
<1>4. ASSUME NEW s \in DOMAIN row, Expire(s)
      PROVE  FALSE
  BY <1>4 DEF Expire
<1> QED
  BY <1>1, <1>2, <1>3, <1>4 DEF Next

\* The step of QueuedAsAsked.
LEMMA StepQueuesAsAsked ==
  ASSUME SessionInv, Next,
         NEW p \in Phones, NEW s \in DOMAIN row,
         row[s].phone = p, Len(queued'[s]) > Len(queued[s])
  PROVE  LET order == queued'[s][Len(queued'[s])]
         IN /\ quoted[p] \in {order, Unheard}
            /\ p \in astray \/ phone[p].prompt = ConfirmState[order.op]
<1>1. RowInv /\ Types
  BY DEF SessionInv, RowInv
<1>2. queued' # queued
  <2>1. s \in Sessions
    BY <1>1, USSDAssumption DEF Types, Sessions
  <2>2. Len(queued[s]) \in Nat
    BY <1>1, <2>1 DEF Types
  <2> QED
    BY <2>2
<1>3. PICK q \in Phones : /\ Answers(q, ConfirmStates)
                          /\ Enqueue(phone[q].sid) /\ Close(q)
                          /\ issued' = issued
  BY <1>2, OnlyConfirmQueues
<1> DEFINE t == phone[q].sid
<1>4. /\ t \in Sessions
      /\ queued'[t] = queued[t] \/ queued'[t] = Append(queued[t], row[t].data)
      /\ \A u \in Sessions \ {t} : queued'[u] = queued[u]
  BY <1>3, ConfirmedEffect
<1>5. /\ t \in DOMAIN row /\ row[t] \in Rows /\ row[t].live
      /\ row[t].phone = q /\ row[t].state \in ConfirmStates
  BY <1>1, <1>3, AnsweredIs
<1> HIDE DEF t
<1>6. s \in Sessions /\ Len(queued[s]) \in Nat /\ queued[s] \in Seq(Orders)
  BY <1>1, USSDAssumption DEF Types, Sessions
<1>7. s = t /\ queued'[t] = Append(queued[t], row[t].data)
  BY <1>4, <1>6
<1>8. p = q /\ quoted[p] \in {row[t].data, Unheard}
  BY <1>1, <1>5, <1>7 DEF RowInv, PendingIsQuoted
<1>9. row[t].data \in Orders
  BY <1>5 DEF Rows
<1>11. p \in astray \/ phone[p].prompt = row[t].state
  <2>1. phone[p].prompt # "off"
    BY <1>3, <1>8 DEF Answers, InDialogue
  <2> QED
    BY <1>1, <1>5, <1>8, <2>1 DEF RowInv, InStep, t
<1>12. row[t].state = ConfirmState[row[t].data.op]
  BY <1>1, <1>5, DialogueIs DEF RowInv, PendingOrderIsComplete
<1>10. Append(queued[s], row[t].data)[Len(Append(queued[s], row[t].data))] = row[t].data
  BY <1>6, <1>9
<1>13. queued'[s][Len(queued'[s])] = row[t].data
  BY <1>7, <1>10
<1> QED
  BY <1>8, <1>11, <1>12, <1>13

\* What a session queues is what its phone was last asked to confirm, if that
\* question arrived, and a phone that is not astray saw it.
THEOREM QueuedAsAskedTheorem == Spec => QueuedAsAsked
<1>1. SessionInv /\ [Next]_vars =>
        [\A p \in Phones, s \in DOMAIN row :
           row[s].phone = p /\ Len(queued'[s]) > Len(queued[s]) =>
             LET order == queued'[s][Len(queued'[s])]
             IN /\ quoted[p] \in {order, Unheard}
                /\ p \in astray \/ phone[p].prompt = ConfirmState[order.op]]_vars
  BY StepQueuesAsAsked
<1> QED
  BY <1>1, SessionInvariant, PTL DEF Spec, QueuedAsAsked

\* Of a session that is not alive no step makes a live one, nor does it queue.
LEMMA StepRevivesNone ==
  ASSUME SessionInv, Next, NEW s \in 1..issued, ~Alive(s)
  PROVE  ~Alive(s)' /\ queued'[s] = queued[s]
<1>1. RowInv /\ Types
  BY DEF SessionInv, RowInv
<1>2. s \in Sessions
  BY <1>1, USSDAssumption DEF Types, Sessions
<1>3. queued'[s] = queued[s]
  <2>1. CASE queued' # queued
    <3>1. PICK q \in Phones : /\ Answers(q, ConfirmStates)
                              /\ Enqueue(phone[q].sid) /\ Close(q)
                              /\ issued' = issued
      BY <2>1, OnlyConfirmQueues
    <3>2. Alive(phone[q].sid)
      BY <1>1, <3>1, AnsweredIs DEF Alive
    <3>3. \A u \in Sessions \ {phone[q].sid} : queued'[u] = queued[u]
      BY <3>1, ConfirmedEffect
    <3> QED
      BY <1>2, <3>2, <3>3
  <2> QED
    BY <2>1
<1>4. ASSUME Subsides
      PROVE  ~Alive(s)'
  <2> SUFFICES ASSUME s \in DOMAIN row', row'[s].live PROVE FALSE
    BY DEF Alive
  <2>1. s \in DOMAIN row /\ (row'[s] = row[s] \/ row'[s] = [row[s] EXCEPT !.live = FALSE])
    BY <1>4 DEF Subsides
  <2>2. row[s] \in Rows /\ ~row[s].live
    BY <1>1, <2>1 DEF Types, Alive
  <2> QED
    BY <2>1, <2>2 DEF Rows
<1>5. ASSUME NEW p \in Phones, NEW states, Answers(p, states), NEW state, NEW data,
             UpdateSession(phone[p].sid, state, data)
      PROVE  ~Alive(s)'
  <2>1. /\ phone[p].sid # s /\ Found(phone[p].sid)
    BY <1>1, <1>5, AnsweredIs DEF Alive
  <2>2. CASE Drop(phone[p].sid)
    BY <2>2, <1>4, DropSubsides
  <2>3. CASE Written(phone[p].sid, state, Merged(row[phone[p].sid].data, data))
    BY <2>1, <2>3 DEF Written, Alive
  <2> QED
    BY <1>1, <1>5, <2>1, <2>2, <2>3, UpdateEffect
<1>6. ASSUME row' = row
      PROVE  ~Alive(s)'
  BY <1>6 DEF Alive
<1>7. ASSUME NEW p \in Phones, Dial(p)
      PROVE  ~Alive(s)'
  <2>1. /\ DOMAIN row' = DOMAIN row \cup {issued'} /\ issued' = issued + 1
        /\ \A t \in DOMAIN row \ {issued'} : row'[t] = row[t]
    BY <1>7 DEF Dial
  <2> QED
    BY <1>1, <2>1 DEF Alive, Types
<1>8. ASSUME NEW p \in Phones, Redial(p) \/ SessionNotFound(p)
      PROVE  ~Alive(s)'
  BY <1>4, <1>6, <1>8, DropSubsides DEF Redial, SessionNotFound
<1>9. ASSUME NEW p \in Phones, NEW i \in Inputs, ChooseOperation(p, i) \/ Enquire(p, i)
      PROVE  ~Alive(s)'
  BY <1>5, <1>9 DEF ChooseOperation, Enquire
<1>10. ASSUME NEW p \in Phones, NEW i \in Inputs, EnterAmount(p, i) \/ Cancel(p, i)
       PROVE  ~Alive(s)'
  BY <1>5, <1>10 DEF EnterAmount, Cancel
<1>11. ASSUME NEW p \in Phones, NEW i \in Inputs, Exit(p, i) \/ AskAgain(p, i)
       PROVE  ~Alive(s)'
  BY <1>4, <1>6, <1>11, DropSubsides DEF Exit, AskAgain
<1>12. ASSUME NEW p \in Phones, NEW i \in Inputs, Confirm(p, i)
       PROVE  ~Alive(s)'
  <2>1. Answers(p, ConfirmStates)
    BY <1>12 DEF Confirm
  <2>2. CASE Close(p)
    BY <2>2, <1>4, <1>6, DropSubsides DEF Close
  <2>3. CASE UpdateSession(phone[p].sid, "MAIN_MENU", Cancelled)
    BY <2>1, <2>3, <1>5
  <2> QED
    BY <1>12, <2>2, <2>3 DEF Confirm
<1>13. ASSUME NEW t \in DOMAIN row, Expire(t)
       PROVE  ~Alive(s)'
  <2>1. Subsides
    BY <1>13 DEF Expire, Subsides
  <2> QED
    BY <2>1, <1>4
<1>14. ~Alive(s)'
  BY <1>7, <1>8, <1>9, <1>10, <1>11, <1>12, <1>13 DEF Next
<1> QED
  BY <1>3, <1>14

\* A session that has expired or was deleted stays so, and queues nothing.
THEOREM ExpiredTheorem == Spec => ExpiredStaysExpired
<1>1. SessionInv /\ [Next]_vars =>
        [\A s \in 1..issued : ~Alive(s) => ~Alive(s)' /\ queued'[s] = queued[s]]_vars
  BY StepRevivesNone
<1> QED
  BY <1>1, SessionInvariant, PTL DEF Spec, ExpiredStaysExpired
=============================================================================
