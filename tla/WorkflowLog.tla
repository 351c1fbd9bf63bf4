---------------------------- MODULE WorkflowLog ----------------------------
(***************************************************************************)
(* workflow_events and workflow_projections: the append-only history that  *)
(* seller and redemption workflows share.  A log is one workflow's         *)
(* projection (its version and state) with its events in sequence; an      *)
(* event carries the idempotency key of the request that appended it.      *)
(***************************************************************************)
EXTENDS Naturals, Sequences

\* A workflow has no projection until its first event creates one, in the state
\* the event's caller expected.
NewLog(state) == [version |-> 0, state |-> state, events |-> <<>>]
InState(log, state) == log.version = 0 \/ log.state = state

WorkflowEvent(key, type, from, to, pay) ==
  [key |-> key, type |-> type, from |-> from, to |-> to, pay |-> pay]

Recorded(log, key) == \E i \in DOMAIN log.events : log.events[i].key = key

\* The event a key is bound to was appended at this version with this content.
SameEvent(log, expected, ev) ==
  expected + 1 \in DOMAIN log.events /\ log.events[expected + 1] = ev

Conflict(log) == [ok |-> FALSE, log |-> log]
Appended(log) == [ok |-> TRUE, log |-> log]

\* A key that is already bound answers with its event when the request is the
\* same one and conflicts otherwise; a new key appends only at the version and
\* state the caller read.
AppendWorkflowEvent(log, expected, ev) ==
  IF Recorded(log, ev.key)
    THEN IF SameEvent(log, expected, ev) THEN Appended(log) ELSE Conflict(log)
    ELSE IF log.version = expected /\ InState(log, ev.from)
      THEN Appended([version |-> log.version + 1, state |-> ev.to,
                     events |-> Append(log.events, ev)])
      ELSE Conflict(log)

\* What every reader of a timeline relies on: the version counts the events,
\* each event starts where the one before it ended, the projection is where the
\* last one ended, and no request appended twice.
OneHistory(log) ==
  /\ log.version = Len(log.events)
  /\ \A i \in DOMAIN log.events : i > 1 => log.events[i].from = log.events[i - 1].to
  /\ log.version > 0 => log.state = log.events[log.version].to
  /\ \A i, j \in DOMAIN log.events : log.events[i].key = log.events[j].key => i = j

=============================================================================
