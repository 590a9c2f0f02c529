------------------------------ MODULE EventLog ------------------------------
(***************************************************************************)
(* The event log of an in-process node (src/src/core/event_log.py) and the *)
(* balances computed from it, as operators on a set of events.             *)
(*                                                                         *)
(* An event is a record with an id, a type, an amount, the id of the       *)
(* client's request and the two-phase-commit transaction it belongs to.    *)
(***************************************************************************)
EXTENDS Integers, FiniteSetsExt

CONSTANT NoRequest  \* the empty request id: no idempotency

EventTypes == {"deposit", "withdraw"}

\* A bug variant: only event ids are compared, not request ids.
AcceptsSameRequest(log, event) == \A f \in log : f.id # event.id

\* An event is refused when its id, or its non-empty request id, is known.
Accepts(log, event) ==
  /\ \A f \in log : f.id # event.id
  /\ event.rid # NoRequest => \A f \in log : f.rid # event.rid

AddEvent(log, event) == IF Accepts(log, event) THEN log \cup {event} ELSE log

GetEventsAfter(log, id) == {e \in log : e.id > id}

\* Remote events are added in the order of their ids: of the new events of one
\* request the oldest stays.
MergeEvents(log, remote) ==
  log \cup {e \in remote :
              /\ Accepts(log, e)
              /\ e.rid # NoRequest =>
                   \A f \in remote : f.rid = e.rid => e.id <= f.id}

Total(events, type) ==
  MapThenSumSet(LAMBDA e : e.amount, {e \in events : e.type = type})

\* The checkpoint's balance and every event after the checkpoint.
ComputeBalance(checkpoint, log) ==
  LET since == GetEventsAfter(log, checkpoint.last)
  IN  checkpoint.balance + Total(since, "deposit") - Total(since, "withdraw")

\* The "optimized" balance: withdrawals after the checkpoint do not count, the
\* amount of the last withdrawal is subtracted instead.
ComputeBalanceOptimized(checkpoint, log) ==
  checkpoint.balance + Total(GetEventsAfter(log, checkpoint.last), "deposit")
    - checkpoint.lastWithdraw
=============================================================================
