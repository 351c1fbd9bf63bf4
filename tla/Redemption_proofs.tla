-------------------------- MODULE Redemption_proofs --------------------------
(***************************************************************************)
(* The redemption tables and the manager's record, for any requests,       *)
(* workers, sessions and staff.  The first half assumes nothing on which   *)
(* call is retried, overtaken or dies: the events of a request are one     *)
(* history, and it ends where the row is.  The second half relates the     *)
(* rows to the chain: no row is ahead of it, what the holder of a request  *)
(* is shown is the promise of HolderTracker, and what the pages offer for  *)
(* it is served.                                                           *)
(***************************************************************************)
EXTENDS RedemptionPages, FiniteSetTheorems, TLAPS

-----------------------------------------------------------------------------
(* The inductive invariant. *)

\* A row that has no event yet may be in these, and one that has is in none.
Early == {"none", "draft", "committed"}

Values(q) == {q[i] : i \in DOMAIN q}
LogSound(l) == l.events \in Seq(Values(l.events)) /\ OneHistory(l)
RowSound(r) == log[r].version > 0 => log[r].state \in SweptFrom(status[r]) /\ status[r] \notin Early
TablesSound ==
  /\ log = [r \in Requests |-> log[r]] /\ status = [r \in Requests |-> status[r]]
  /\ \A r \in Requests : LogSound(log[r]) /\ RowSound(r)

\* Where the sweep may move a row.
SweepMoves ==
  {<<"committed", "onchain_requested">>}
  \cup ({"committed", "onchain_requested", "accepted"} \X {"fulfilled", "cancelled"})
WritingPcs == {"assign", "chain", "receipt", "complete"}

\* A call that is still to write the row leads out of the early states.
CallSound(c) ==
  /\ "pc" \in DOMAIN c
  /\ c.pc \in WritingPcs => c.request \in Requests /\ c.to \notin Early
  /\ c.pc = "sweep" => c.request \in Requests /\ <<c.from, c.to>> \in SweepMoves
CallsSound == call = [w \in Workers |-> call[w]] /\ \A w \in Workers : CallSound(call[w])

HistoryInv == TablesSound /\ CallsSound

-----------------------------------------------------------------------------
(* The log. *)

\* An event that is appended goes on from where the history was; a key that was
\* used before leaves the log as it is, and is never answered at the last version.
LEMMA OneMoreEvent ==
  ASSUME NEW l, LogSound(l), NEW n, NEW key, NEW type, NEW from, NEW to, NEW pay
  PROVE  LET res == AppendWorkflowEvent(l, n, WorkflowEvent(key, type, from, to, pay)) IN
         /\ ~Recorded(l, key) /\ res.ok =>
              /\ LogSound(res.log) /\ res.log.state = to /\ res.log.version > 0
         /\ Recorded(l, key) => res.log = l /\ (n = l.version => ~res.ok)
<1>1. PICK ev : ev = WorkflowEvent(key, type, from, to, pay)  OBVIOUS
<1>2. ev.key = key /\ ev.to = to /\ ev.from = from  BY <1>1 DEF WorkflowEvent
<1>3. PICK res : res = AppendWorkflowEvent(l, n, ev)  OBVIOUS
<1>4. PICK q : q = l.events  OBVIOUS
<1>5. /\ q \in Seq(Values(q)) /\ l.version = Len(q) /\ Len(q) \in Nat /\ DOMAIN q = 1..Len(q)
      /\ \A i \in DOMAIN q : i > 1 => q[i].from = q[i - 1].to
      /\ l.version > 0 => l.state = q[l.version].to
      /\ \A i, j \in DOMAIN q : q[i].key = q[j].key => i = j
  BY <1>4 DEF LogSound, OneHistory
<1>6. ASSUME Recorded(l, key)  PROVE res.log = l /\ (n = l.version => ~res.ok)
  BY <1>2, <1>3, <1>4, <1>5, <1>6 DEF AppendWorkflowEvent, Appended, Conflict, SameEvent
<1>7. ASSUME ~Recorded(l, key), res.ok  PROVE LogSound(res.log) /\ res.log.state = to /\ res.log.version > 0
  <2>1. /\ l.version = n /\ InState(l, from)
        /\ res.log = [version |-> l.version + 1, state |-> to, events |-> Append(q, ev)]
    BY <1>2, <1>3, <1>4, <1>7 DEF AppendWorkflowEvent, Appended, Conflict
  <2>2. PICK t : t = Append(q, ev)  OBVIOUS
  <2>3. PICK V : V = Values(q) \cup {ev}  OBVIOUS
  <2>4. q \in Seq(V) /\ ev \in V
    <3>1. Values(q) \subseteq V  BY <2>3
    <3>. QED  BY <1>5, <2>3, <3>1
  <2>5. /\ t \in Seq(V) /\ Len(t) = Len(q) + 1 /\ DOMAIN t = 1..(Len(q) + 1) /\ t[Len(q) + 1] = ev
        /\ \A i \in DOMAIN q : t[i] = q[i]
    BY <1>5, <2>2, <2>4
  <2>6. t \in Seq(Values(t))
    <3>1. \A i \in 1..(Len(q) + 1) : t[i] \in Values(t)  BY <2>5 DEF Values
    <3>2. t \in [1..(Len(q) + 1) -> Values(t)]  BY <2>5, <3>1
    <3>. QED  BY <1>5, <3>2
  <2>7. ASSUME NEW i \in DOMAIN t, i > 1  PROVE t[i].from = t[i - 1].to
    <3>1. CASE i \in DOMAIN q
      <4>1. i - 1 \in DOMAIN q  BY <1>5, <2>7, <3>1
      <4>. QED  BY <1>5, <2>5, <2>7, <3>1, <4>1
    <3>2. CASE i = Len(q) + 1
      <4>1. Len(q) \in DOMAIN q /\ i - 1 = Len(q) /\ l.version > 0  BY <1>5, <2>7, <3>2
      <4>2. l.state = from  BY <1>5, <2>1, <4>1 DEF InState
      <4>. QED  BY <1>2, <1>5, <2>5, <3>2, <4>1, <4>2
    <3>. QED  BY <1>5, <2>5, <2>7, <3>1, <3>2
  <2>8. ASSUME NEW i \in DOMAIN t, NEW j \in DOMAIN t, t[i].key = t[j].key  PROVE i = j
    <3>1. \A k \in DOMAIN q : q[k].key # key  BY <1>4, <1>7 DEF Recorded
    <3>2. DOMAIN t = DOMAIN q \cup {Len(q) + 1}  BY <1>5, <2>5
    <3>. QED  BY <1>2, <1>5, <2>5, <2>8, <3>1, <3>2
  <2>9. PICK m : m = res.log  OBVIOUS
  <2>10. m.version = Len(q) + 1 /\ m.state = to /\ m.events = t  BY <1>5, <2>1, <2>2, <2>9
  <2>11. LogSound(m)
    <3>1. m.version = Len(t) /\ (m.version > 0 => m.state = t[m.version].to)  BY <1>2, <2>5, <2>10
    <3>. QED  BY <2>6, <2>7, <2>8, <2>10, <3>1 DEF LogSound, OneHistory
  <2>. QED  BY <1>5, <2>9, <2>10, <2>11
<1>. QED  BY <1>1, <1>3, <1>6, <1>7

-----------------------------------------------------------------------------
(* What a step changes. *)

LEMMA TablesStay == ASSUME TablesSound, UNCHANGED <<status, log>>  PROVE TablesSound'
BY DEF TablesSound, RowSound

LEMMA OneCall ==
  ASSUME CallsSound, NEW w \in Workers, NEW c, CallSound(c), call' = [call EXCEPT ![w] = c]
  PROVE  CallsSound'
BY DEF CallsSound

\* Calls whose writes are still to come leave the tables as they are.
LEMMA CallMoves ==
  ASSUME HistoryInv, UNCHANGED <<status, log>>, NEW w \in Workers, NEW c, CallSound(c), call' = [call EXCEPT ![w] = c]
  PROVE  HistoryInv'
BY TablesStay, OneCall DEF HistoryInv

LEMMA NoCallMoves == ASSUME HistoryInv, UNCHANGED <<status, log, call>>  PROVE HistoryInv'
BY TablesStay DEF HistoryInv, CallsSound

LEMMA Kept ==
  ASSUME NEW changed, DbExcept(changed), "status" \notin changed  PROVE UNCHANGED <<status, log>>
BY DEF DbExcept

LEMMA Ends ==
  ASSUME HistoryInv, UNCHANGED <<status, log>>, NEW w \in Workers, End(w)  PROVE HistoryInv'
<1>1. CallSound(Idle)  BY DEF CallSound, Idle, WritingPcs
<1>. QED  BY <1>1, CallMoves DEF End

\* A step of a call.
LEMMA Continues ==
  ASSUME HistoryInv, NEW w \in Workers, NEW pc, Continue(w, pc),
         pc \notin {"sweep"} \cup WritingPcs \/ (call[w].pc \in WritingPcs /\ pc \in WritingPcs)
  PROVE  CallsSound'
<1>1. PICK c : c = call[w]  OBVIOUS
<1>2. PICK d : d = [c EXCEPT !.pc = pc]  OBVIOUS
<1>3. CallSound(c)  BY <1>1 DEF HistoryInv, CallsSound
<1>4. call' = [call EXCEPT ![w] = d]  BY <1>1, <1>2 DEF Continue
<1>5. CallSound(d)  BY <1>1, <1>2, <1>3 DEF CallSound, WritingPcs
<1>. QED  BY <1>4, <1>5, OneCall DEF HistoryInv

\* A call that begins on a row that is not early.
LEMMA Begins ==
  ASSUME HistoryInv, UNCHANGED <<status, log>>, NEW w \in Workers, NEW r \in Requests, NEW key, NEW to, to \notin Early,
         NEW pay, NEW pc \in WritingPcs, Begin(w, Call(r, key, to, pay, pc))
  PROVE  HistoryInv'
<1>1. PICK c : c = Call(r, key, to, pay, pc)  OBVIOUS
<1>2. CallSound(c)  BY <1>1 DEF Call, CallSound, WritingPcs
<1>. QED  BY <1>1, <1>2, CallMoves DEF Begin

LEMMA ServerBegins ==
  ASSUME HistoryInv, UNCHANGED <<status, log>>, NEW w \in Workers, NEW r \in Requests, NEW key, NEW to, to \notin Early,
         NEW pay, NEW fn, NEW phase, Begin(w, ServerCall(r, key, to, pay, fn, phase))
  PROVE  HistoryInv'
<1>1. PICK c : c = ServerCall(r, key, to, pay, fn, phase)  OBVIOUS
<1>2. CallSound(c)  BY <1>1 DEF ServerCall, Call, CallSound, WritingPcs
<1>. QED  BY <1>1, <1>2, CallMoves DEF Begin

-----------------------------------------------------------------------------
(* The calls. *)

LEMMA OwnerCallsKeep ==
  ASSUME HistoryInv, NEW w \in Workers, NEW r \in Requests, NEW s \in Sessions, OwnerCalls(w, r, s)
  PROVE  HistoryInv'
<1>1. CASE MarkOnchainRequested(w, r, s) \/ ReconcileOpening(w, r, s)
  <2>1. UNCHANGED <<status, log>>  BY <1>1, Kept DEF MarkOnchainRequested, ReconcileOpening
  <2>2. \E key : Begin(w, Call(r, key, "onchain_requested", None, "complete"))
    BY <1>1 DEF MarkOnchainRequested, ReconcileOpening
  <2>. QED  BY <2>1, <2>2, Begins DEF Early, WritingPcs
<1>2. CASE DiscardRedemption(w, r, s) \/ CancelRedemption(w, r, s)
  <2>1. UNCHANGED <<status, log>>  BY <1>2, Kept DEF DiscardRedemption, CancelRedemption, Untouched
  <2>2. \E key : Begin(w, Call(r, key, "cancelled", None, "complete"))
    BY <1>2 DEF DiscardRedemption, CancelRedemption
  <2>. QED  BY <2>1, <2>2, Begins DEF Early, WritingPcs
<1>3. ASSUME NEW p \in Proxies, RecordNomination(w, r, s, p)  PROVE HistoryInv'
  <2>1. UNCHANGED <<status, log>>  BY <1>3, Kept DEF RecordNomination
  <2>2. PICK to : to = status[r]  OBVIOUS
  <2>3. to \notin Early /\ \E key : Begin(w, Call(r, key, to, p, "complete"))
    BY <1>3, <2>2 DEF RecordNomination, Early
  <2>. QED  BY <2>1, <2>3, Begins DEF WritingPcs
<1>4. CASE ResendOwnerCode(w, r, s)
  <2>1. UNCHANGED <<status, log>>  BY <1>4, Kept DEF ResendOwnerCode, Untouched
  <2>2. PICK c : c = Call(r, Key("resend_owner_code", s), status[r], None, "deliver")  OBVIOUS
  <2>3. CallSound(c)  BY <2>2 DEF Call, CallSound, WritingPcs
  <2>. QED  BY <1>4, <2>1, <2>2, <2>3, CallMoves DEF ResendOwnerCode, Begin
<1>5. ASSUME NEW g, NEW ch, AuthorizeOwner(w, r, s, g, ch)  PROVE HistoryInv'
  <2>1. UNCHANGED <<status, log>>  BY <1>5, Kept DEF AuthorizeOwner, Untouched
  <2>2. PICK pay : pay = SignedBinding(r)  OBVIOUS
  <2>3. Begin(w, Call(r, <<"authorize_owner", ch>>, "owner_authorized", pay, "complete"))
    BY <1>5, <2>2 DEF AuthorizeOwner
  <2>. QED  BY <2>1, <2>3, Begins DEF Early, WritingPcs
<1>6. CASE MarkChainBurned(w, r, s)
  <2>1. UNCHANGED <<status, log>>  BY <1>6, Kept DEF MarkChainBurned, Untouched
  <2>2. Begin(w, Call(r, Key("mark_chain_burned", s), "chain_burned", None, "complete"))
    BY <1>6 DEF MarkChainBurned
  <2>. QED  BY <2>1, <2>2, Begins DEF Early, WritingPcs
<1>. QED  BY <1>1, <1>2, <1>3, <1>4, <1>5, <1>6 DEF OwnerCalls

LEMMA StaffCallsKeep ==
  ASSUME HistoryInv, NEW w \in Workers, NEW r \in Requests, NEW s \in Sessions, StaffCalls(w, r, s)
  PROVE  HistoryInv'
<1>1. CASE CustodianCollect(w, r, s)
  <2>1. UNCHANGED <<status, log>>  BY <1>1, Kept DEF CustodianCollect
  <2>. QED  BY <1>1, <2>1, ServerBegins DEF CustodianCollect, Early
<1>2. CASE CustodianDispatch(w, r, s)
  <2>1. UNCHANGED <<status, log>>  BY <1>2, Kept DEF CustodianDispatch, Untouched
  <2>. QED  BY <1>2, <2>1, Begins DEF CustodianDispatch, Early, WritingPcs
<1>3. ASSUME NEW e \in Evidence, RecordArrival(w, r, s, e)  PROVE HistoryInv'
  <2>1. UNCHANGED <<status, log>>  BY <1>3, Kept DEF RecordArrival
  <2>2. \E key, pay, fn, phase : Begin(w, ServerCall(r, key, "arrived", pay, fn, phase))  BY <1>3 DEF RecordArrival
  <2>. QED  BY <2>1, <2>2, ServerBegins DEF Early
<1>4. ASSUME NEW o \in Orgs, ReleaseOwnerCode(w, r, s, o)  PROVE HistoryInv'
  <2>1. UNCHANGED <<status, log>>  BY <1>4, Kept DEF ReleaseOwnerCode
  <2>2. \E key, pay, fn, phase : Begin(w, ServerCall(r, key, "proof_approved", pay, fn, phase))
    BY <1>4 DEF ReleaseOwnerCode
  <2>. QED  BY <2>1, <2>2, ServerBegins DEF Early
<1>5. ASSUME NEW o \in Orgs, AcceptRedemption(w, r, s, o)  PROVE HistoryInv'
  <2>1. UNCHANGED <<status, log>>  BY <1>5, Kept DEF AcceptRedemption, Untouched
  <2>. QED  BY <1>5, <2>1, Begins DEF AcceptRedemption, Early, WritingPcs
<1>. QED  BY <1>1, <1>2, <1>3, <1>4, <1>5 DEF StaffCalls

\* The row and its log move together, or not at all.
LEMMA RecordsTogether ==
  ASSUME TablesSound, NEW r \in Requests, NEW l, LogSound(l), l.version > 0, NEW to, to \notin Early,
         l.state \in SweptFrom(to), log' = [log EXCEPT ![r] = l], status' = [status EXCEPT ![r] = to]
  PROVE  TablesSound'
<1>1. /\ log' = [x \in Requests |-> log'[x]] /\ log'[r] = l /\ \A x \in Requests \ {r} : log'[x] = log[x]
      /\ status' = [x \in Requests |-> status'[x]] /\ status'[r] = to /\ \A x \in Requests \ {r} : status'[x] = status[x]
  BY DEF TablesSound
<1>2. ASSUME NEW x \in Requests  PROVE (LogSound(log[x]) /\ RowSound(x))'
  <2>1. PICK k : k = log'[x]  OBVIOUS
  <2>2. LogSound(k)  BY <1>1, <2>1 DEF TablesSound
  <2>3. RowSound(x)'  BY <1>1 DEF TablesSound, RowSound
  <2>. QED  BY <2>1, <2>2, <2>3
<1>. QED  BY <1>1, <1>2 DEF TablesSound

LEMMA StaysThere == ASSUME NEW st  PROVE st \in SweptFrom(st)
BY DEF SweptFrom

LEMMA CompleteKeeps ==
  ASSUME HistoryInv, NEW w \in Workers, complete_redemption_transition(w)
  PROVE  HistoryInv'
<1>1. PICK c : c = call[w]  OBVIOUS
<1>2. PICK r \in Requests : r = c.request /\ c.to \notin Early
  BY <1>1 DEF HistoryInv, CallsSound, CallSound, WritingPcs, complete_redemption_transition
<1>3. PICK res : res = AppendWorkflowEvent(log[r], c.version, WorkflowEvent(c.key, c.key[1], c.from, c.to, c.pay))  OBVIOUS
<1>4. /\ \/ UNCHANGED <<status, log>>
         \/ ~Recorded(log[r], c.key) /\ res.ok /\ log' = [log EXCEPT ![r] = res.log] /\ status' = [status EXCEPT ![r] = c.to]
      /\ \/ AfterComplete(c) # "end" /\ Continue(w, AfterComplete(c))
         \/ End(w)
  BY <1>1, <1>2, <1>3 DEF complete_redemption_transition
<1>5. CallsSound'
  <2>1. AfterComplete(c) \in {"deliver", "invalidate", "reconcile", "end"}  BY DEF AfterComplete
  <2>2. CASE Continue(w, AfterComplete(c))
    <3>1. AfterComplete(c) \notin {"sweep"} \cup WritingPcs  BY <2>1 DEF WritingPcs
    <3>. QED  BY <2>2, <3>1, Continues
  <2>3. CASE End(w)
    <3>1. CallSound(Idle)  BY DEF CallSound, Idle, WritingPcs
    <3>. QED  BY <2>3, <3>1, OneCall DEF End, HistoryInv
  <2>. QED  BY <1>4, <2>2, <2>3
<1>6. TablesSound'
  <2>1. CASE UNCHANGED <<status, log>>  BY <2>1, TablesStay DEF HistoryInv
  <2>2. CASE ~Recorded(log[r], c.key) /\ res.ok /\ log' = [log EXCEPT ![r] = res.log] /\ status' = [status EXCEPT ![r] = c.to]
    <3>1. LogSound(log[r])  BY DEF HistoryInv, TablesSound
    <3>2. LogSound(res.log) /\ res.log.state = c.to /\ res.log.version > 0  BY <1>3, <2>2, <3>1, OneMoreEvent
    <3>. QED  BY <1>2, <2>2, <3>2, StaysThere, RecordsTogether DEF HistoryInv
  <2>. QED  BY <1>4, <2>1, <2>2
<1>. QED  BY <1>5, <1>6 DEF HistoryInv

LEMMA SweepWritesKeeps ==
  ASSUME HistoryInv, NEW w \in Workers, SweepWrites(w)
  PROVE  HistoryInv'
<1>1. PICK c : c = call[w]  OBVIOUS
<1>2. PICK r \in Requests : r = c.request /\ <<c.from, c.to>> \in SweepMoves
  BY <1>1 DEF HistoryInv, CallsSound, CallSound, SweepWrites
<1>3. End(w) /\ log' = log  BY DEF SweepWrites
<1>4. CASE status[r] # c.from
  <2>1. status' = status  BY <1>1, <1>2, <1>4 DEF SweepWrites
  <2>. QED  BY <1>3, <2>1, Ends
<1>5. CASE status[r] = c.from
  <2>1. status' = [status EXCEPT ![r] = c.to]  BY <1>1, <1>2, <1>5 DEF SweepWrites
  <2>2. c.to \notin Early
        /\ (c.from \notin Early => c.from \in {"onchain_requested", "accepted"} /\ c.to \in {"fulfilled", "cancelled"})
    BY <1>2 DEF SweepMoves, Early
  <2>3. RowSound(r)'
    <3>1. RowSound(r) /\ status'[r] = c.to  BY <2>1 DEF HistoryInv, TablesSound
    <3>2. ASSUME log[r].version > 0  PROVE log[r].state \in SweptFrom(c.to)
      <4>1. log[r].state \in SweptFrom(c.from) /\ c.from \notin Early  BY <1>5, <3>1, <3>2 DEF RowSound
      <4>2. log[r].state = c.from /\ c.from \in {"onchain_requested", "accepted"} /\ c.to \in {"fulfilled", "cancelled"}
        BY <2>2, <4>1 DEF SweptFrom
      <4>. QED  BY <4>2 DEF SweptFrom, OWNER_CANCELLABLE_STATES
    <3>. QED  BY <1>3, <2>2, <3>1, <3>2 DEF RowSound
  <2>4. TablesSound'
    <3>1. \A x \in Requests \ {r} : status'[x] = status[x]  BY <2>1 DEF HistoryInv, TablesSound
    <3>2. ASSUME NEW x \in Requests  PROVE RowSound(x)'
      BY <1>3, <2>3, <3>1 DEF HistoryInv, TablesSound, RowSound
    <3>. QED  BY <1>3, <2>1, <3>2 DEF HistoryInv, TablesSound
  <2>5. CallSound(Idle)  BY DEF CallSound, Idle, WritingPcs
  <2>. QED  BY <1>3, <2>4, <2>5, OneCall DEF End, HistoryInv
<1>. QED  BY <1>4, <1>5

LEMMA SweepReadsKeeps ==
  ASSUME HistoryInv, NEW w \in Workers, NEW r \in Requests, SweepReads(w, r)
  PROVE  HistoryInv'
<1>1. UNCHANGED <<status, log>>  BY Kept DEF SweepReads, Untouched
<1>2. PICK to \in SweptTo(r) \ {status[r]} : Begin(w, Call(r, Key("sweep", w), to, None, "sweep"))  BY DEF SweepReads
<1>3. <<status[r], to>> \in SweepMoves  BY <1>2 DEF SweptTo, ByRegistry, ByEvents, SweepMoves
<1>4. PICK c : c = Call(r, Key("sweep", w), to, None, "sweep")  OBVIOUS
<1>5. CallSound(c)  BY <1>3, <1>4 DEF Call, CallSound, WritingPcs
<1>. QED  BY <1>1, <1>2, <1>4, <1>5, CallMoves DEF Begin

LEMMA WorkerKeeps ==
  ASSUME HistoryInv, NEW w \in Workers, WorkerStep(w) \/ Crash(w)
  PROVE  HistoryInv'
<1>1. CASE AssignCustodian(w) \/ runServerStep(w) \/ ServerReceipt(w)
  <2>1. UNCHANGED <<status, log>>  BY <1>1, Kept DEF AssignCustodian, runServerStep, ServerReceipt, Untouched
  <2>2. End(w) \/ (call[w].pc \in WritingPcs /\ \E pc \in WritingPcs : Continue(w, pc))
    BY <1>1 DEF AssignCustodian, runServerStep, ServerReceipt, WritingPcs
  <2>. QED  BY <2>1, <2>2, Ends, Continues, TablesStay DEF HistoryInv
<1>2. CASE InvalidateCodes(w) \/ MailOwnerCode(w) \/ ConsumeChallenge(w) \/ Crash(w)
  <2>1. UNCHANGED <<status, log>>  BY <1>2, Kept DEF InvalidateCodes, MailOwnerCode, ConsumeChallenge, Crash, Untouched
  <2>. QED  BY <1>2, <2>1, Ends DEF InvalidateCodes, MailOwnerCode, ConsumeChallenge, Crash
<1>3. CASE ReconcileNomination(w) \/ ConsumeCode(w)
  <2>1. UNCHANGED <<status, log>>  BY <1>3, Kept DEF ReconcileNomination, ConsumeCode
  <2>2. End(w) \/ \E pc \in {"consume", "challenge"} : Continue(w, pc)  BY <1>3 DEF ReconcileNomination, ConsumeCode
  <2>. QED  BY <2>1, <2>2, Ends, Continues, TablesStay DEF HistoryInv, WritingPcs
<1>4. CASE DeliverOwnerCode(w)
  <2>1. UNCHANGED <<status, log>>  BY <1>4, Kept DEF DeliverOwnerCode
  <2>2. PICK n : n = code'[call[w].request].gen  OBVIOUS
  <2>3. PICK d : d = [call[w] EXCEPT !.pc = "mail", !.pay = n]  OBVIOUS
  <2>4. call' = [call EXCEPT ![w] = d]  BY <1>4, <2>2, <2>3 DEF DeliverOwnerCode
  <2>5. CallSound(d)  BY <2>3 DEF HistoryInv, CallsSound, CallSound, WritingPcs
  <2>. QED  BY <2>1, <2>4, <2>5, CallMoves
<1>. QED  BY <1>1, <1>2, <1>3, <1>4, CompleteKeeps, SweepWritesKeeps DEF WorkerStep

-----------------------------------------------------------------------------
(* The requests. *)

\* The recovery functions append at the version they find, so a key that was
\* used is refused.
LEMMA RecoveryAppends ==
  ASSUME HistoryInv, NEW r \in Requests, NEW action, NEW a, NEW to, to \notin Early, RecoveryEvent(r, action, a, to).ok,
         log' = [log EXCEPT ![r] = RecoveryEvent(r, action, a, to).log], call' = call,
         status' = [status EXCEPT ![r] = to]
  PROVE  HistoryInv'
<1>1. PICK res : res = RecoveryEvent(r, action, a, to)  OBVIOUS
<1>2. LogSound(log[r])  BY DEF HistoryInv, TablesSound
<1>3. PICK l, key, from : l = log[r] /\ key = <<action, a>> /\ from = status[r]  OBVIOUS
<1>4. res = AppendWorkflowEvent(l, l.version, WorkflowEvent(key, action, from, to, None))
  BY <1>1, <1>3 DEF RecoveryEvent
<1>5. LogSound(res.log) /\ res.log.state = to /\ res.log.version > 0
  <2>1. ~Recorded(l, key)  BY <1>1, <1>2, <1>3, <1>4, OneMoreEvent
  <2>. QED  BY <1>1, <1>2, <1>3, <1>4, <2>1, OneMoreEvent
<1>6. TablesSound'  BY <1>1, <1>5, StaysThere, RecordsTogether DEF HistoryInv
<1>. QED  BY <1>6 DEF HistoryInv, CallsSound

LEMMA RecoveryKeeps ==
  ASSUME HistoryInv, NEW r \in Requests, NEW a, ProposeRecovery(r, a) \/ ApproveRecovery(r, a) \/ ExecuteRecovery(r, a)
  PROVE  HistoryInv'
<1>1. status = [x \in Requests |-> status[x]]  BY DEF HistoryInv, TablesSound
<1>2. PICK st : st = status[r]  OBVIOUS
<1>3. st \notin Early /\ call' = call
  BY <1>2 DEF ProposeRecovery, ApproveRecovery, ExecuteRecovery, AWAITING_OWNER, Early
<1>4. [status EXCEPT ![r] = st] = status  BY <1>1, <1>2
<1>5. CASE ProposeRecovery(r, a)
  <2>1. /\ RecoveryEvent(r, "propose_recovery", a, st).ok /\ status' = status
        /\ log' = [log EXCEPT ![r] = RecoveryEvent(r, "propose_recovery", a, st).log]
    BY <1>2, <1>5 DEF ProposeRecovery
  <2>. QED  BY <1>3, <1>4, <2>1, RecoveryAppends
<1>6. CASE ApproveRecovery(r, a)
  <2>1. /\ RecoveryEvent(r, "approve_recovery", a, st).ok /\ status' = status
        /\ log' = [log EXCEPT ![r] = RecoveryEvent(r, "approve_recovery", a, st).log]
    BY <1>2, <1>6 DEF ApproveRecovery
  <2>. QED  BY <1>3, <1>4, <2>1, RecoveryAppends
<1>7. CASE ExecuteRecovery(r, a)
  <2>1. /\ RecoveryEvent(r, "execute_recovery", a, "chain_burned").ok
        /\ status' = [status EXCEPT ![r] = "chain_burned"]
        /\ log' = [log EXCEPT ![r] = RecoveryEvent(r, "execute_recovery", a, "chain_burned").log]
    BY <1>7 DEF ExecuteRecovery
  <2>. QED  BY <1>3, <2>1, RecoveryAppends DEF Early
<1>. QED  BY <1>5, <1>6, <1>7

\* A row that is being opened has no event yet.
LEMMA DraftKeeps ==
  ASSUME HistoryInv, NEW r \in Requests, CreateDraft(r) \/ CommitDraft(r)
  PROVE  HistoryInv'
<1>1. PICK to : status' = [status EXCEPT ![r] = to]  BY DEF CreateDraft, CommitDraft
<1>2. status[r] \in Early /\ log' = log /\ call' = call  BY DEF CreateDraft, CommitDraft, Early
<1>3. ~(log[r].version > 0)  BY <1>2 DEF HistoryInv, TablesSound, RowSound
<1>4. ASSUME NEW x \in Requests  PROVE RowSound(x)'
  BY <1>1, <1>2, <1>3 DEF HistoryInv, TablesSound, RowSound
<1>. QED  BY <1>1, <1>2, <1>4 DEF HistoryInv, TablesSound, CallsSound

LEMMA RequestKeeps ==
  ASSUME HistoryInv, NEW r \in Requests, RequestStep(r)
  PROVE  HistoryInv'
<1>1. ASSUME OwnerSends(r) \/ CodeTime(r) \/ WrongCode(r)  PROVE HistoryInv'
  <2>1. UNCHANGED <<status, log, call>>  BY <1>1, Kept DEF OwnerSends, CodeTime, WrongCode
  <2>. QED  BY <2>1, NoCallMoves
<1>2. ASSUME NEW s, NEW x, PrepareCancellation(r, s) \/ NominateProxy(r, s, x) \/ PrepareOwnerAuthorization(r, s, x)
      PROVE  HistoryInv'
  <2>1. UNCHANGED <<status, log, call>>
    BY <1>2, Kept DEF PrepareCancellation, NominateProxy, PrepareOwnerAuthorization
  <2>. QED  BY <2>1, NoCallMoves
<1>3. ASSUME NEW x, RequestEvidenceUpload(r, x) \/ ConfirmEvidenceUpload(r, x) \/ ApproverSends(r, x)
      PROVE  HistoryInv'
  <2>1. UNCHANGED <<status, log, call>>  BY <1>3, Kept DEF RequestEvidenceUpload, ConfirmEvidenceUpload, ApproverSends
  <2>. QED  BY <2>1, NoCallMoves
<1>. QED  BY <1>1, <1>2, <1>3, DraftKeeps, RecoveryKeeps DEF RequestStep

-----------------------------------------------------------------------------
(* The specification. *)

LEMMA InitIsSound == Init => HistoryInv
<1>. SUFFICES ASSUME Init  PROVE HistoryInv
  OBVIOUS
<1>1. \A r \in Requests : log[r].version = 0 /\ log[r].events = <<>>  BY DEF Init, NewLog
<1>2. \A r \in Requests : LogSound(log[r]) /\ RowSound(r)
  <2>1. <<>> \in Seq(Values(<<>>)) /\ Len(<<>>) = 0 /\ DOMAIN <<>> = {}  OBVIOUS
  <2>2. ASSUME NEW l, l.version = 0, l.events = <<>>  PROVE LogSound(l)
    BY <2>1, <2>2 DEF LogSound, OneHistory
  <2>3. ASSUME NEW r \in Requests  PROVE RowSound(r)
    BY <1>1 DEF RowSound
  <2>. QED  BY <1>1, <2>2, <2>3
<1>3. CallSound(Idle)  BY DEF CallSound, Idle, WritingPcs
<1>. QED  BY <1>2, <1>3 DEF Init, HistoryInv, TablesSound, CallsSound

LEMMA StepKeeps == HistoryInv /\ [Next]_vars => HistoryInv'
<1>. SUFFICES ASSUME HistoryInv, [Next]_vars  PROVE HistoryInv'
  OBVIOUS
<1>1. CASE UNCHANGED vars  BY <1>1, NoCallMoves DEF vars, dbVars
<1>2. CASE ChainStep \/ GraceStep
  <2>1. UNCHANGED <<status, log, call>>  BY <1>2, Kept DEF ChainStep, GraceStep
  <2>. QED  BY <2>1, NoCallMoves
<1>. QED  BY <1>1, <1>2, OwnerCallsKeep, StaffCallsKeep, WorkerKeeps, SweepReadsKeeps, RequestKeeps DEF Next

\* Whichever calls overlap, die, are repeated with their key or find the row
\* moved under them, and whatever the sweep repairs: the events of a request
\* stay one gapless history, and it ends in the row's status or in the one the
\* sweep closed the row from.
THEOREM HistoryIsWhole == Spec => []HistoryEndsInStatus
<1>1. HistoryInv => HistoryEndsInStatus
  BY DEF HistoryInv, TablesSound, LogSound, RowSound, HistoryEndsInStatus
<1>2. Spec => []HistoryInv  BY InitIsSound, StepKeeps, PTL DEF Spec
<1>. QED  BY <1>1, <1>2, PTL

-----------------------------------------------------------------------------
(* The inductive invariant of the chain and the rows. *)

Writes ==
  {"openRedemption", "cancelRedemption", "setCollectorCommitment", "startFulfillment",
   "submitFulfillmentProof", "approveFulfillmentProof", "finalizeRedemption", "proposeRecovery",
   "approveRecovery", "executeRecovery"}

\* The server's writes: the state a call records, the function it sends, and the
\* phase it moves the chain from.
ServerWrites ==
  {<<"custodian_collected", "startFulfillment", 1>>, <<"arrived", "submitFulfillmentProof", 2>>,
   <<"proof_approved", "approveFulfillmentProof", 3>>}

At(r, k) == rec.workflow = r /\ rec.phase >= k
CameTo(r, st) == Reached(st) > 0 => At(r, Reached(st))

RecSound ==
  /\ DOMAIN rec = DOMAIN NoRecord
  /\ rec.phase \in 0..5
  /\ rec.workflow \in Requests \cup {None} /\ (rec.phase = 0 <=> rec.workflow = None)

\* A write that was sent is the current redemption's, or of no effect.
TxFits(tx) ==
  /\ tx.fn \in Writes /\ tx.request \in Requests
  /\ tx.fn = "openRedemption" => tx = Tx("openRedemption", tx.request, None)
  /\ tx.fn = "startFulfillment" => rec.workflow \in {None, tx.request}
  /\ tx.fn = "submitFulfillmentProof" => At(tx.request, 2)
  /\ tx.fn = "approveFulfillmentProof" => At(tx.request, 3)
  /\ tx.fn = "executeRecovery" => At(tx.request, 4)
  /\ tx.fn = "finalizeRedemption" => tx.arg.workflow = tx.request

TxDone(tx) ==
  /\ tx.fn = "startFulfillment" => At(tx.request, 2)
  /\ tx.fn = "submitFulfillmentProof" => At(tx.request, 3)
  /\ tx.fn = "approveFulfillmentProof" => At(tx.request, 4)
  /\ tx.fn \in {"executeRecovery", "finalizeRedemption"} => At(tx.request, 5)

ChainSound == RecSound /\ (\A tx \in pending : TxFits(tx)) /\ (\A tx \in mined : TxDone(tx))

RowBehind(r) ==
  /\ CameTo(r, status[r])
  /\ DOMAIN bound[r] = DOMAIN Unbound
  /\ bound[r].authorization # None => bound[r].authorization.workflow = r
RowsBehind ==
  /\ status = [r \in Requests |-> status[r]] /\ bound = [r \in Requests |-> bound[r]]
  /\ \A r \in Requests : RowBehind(r)

\* What a call is about to record has happened on the chain, or it will look.
CallFits(c) ==
  /\ "pc" \in DOMAIN c
  /\ c.pc \in WritingPcs \cup {"sweep"} => c.request \in Requests
  /\ c.pc \in {"chain", "receipt"} =>
       <<c.to, c.fn, c.phase>> \in ServerWrites /\ c.key[1] # "authorize_owner"
  /\ c.pc = "complete" =>
       CameTo(c.request, c.to) /\ (c.key[1] = "authorize_owner" => c.pay.workflow = c.request)
  /\ c.pc = "assign" => c.to = "accepted" /\ c.key[1] # "authorize_owner"
  /\ c.pc = "sweep" => Reached(c.to) = 0
CallsFit == call = [w \in Workers |-> call[w]] /\ \A w \in Workers : CallFits(call[w])

ChainInv == ChainSound /\ RowsBehind /\ CallsFit

-----------------------------------------------------------------------------
(* The chain. *)

LEMMA ReachedIs ==
  /\ \A st : Reached(st) \in {0, 2, 3, 4, 5}
  /\ \A to, fn, phase : <<to, fn, phase>> \in ServerWrites => phase \in 1..3 /\ Reached(to) = phase + 1
  /\ Reached("accepted") = 0 /\ Reached("onchain_requested") = 0 /\ Reached("cancelled") = 0
  /\ Reached("fulfilled") = 0 /\ Reached("custodian_dispatched") = 2 /\ Reached("custodian_collected") = 2
  /\ Reached("arrived") = 3 /\ Reached("proof_approved") = 4 /\ Reached("owner_authorized") = 4 /\ Reached("chain_burned") = 5
  /\ Reached("none") = 0 /\ Reached("draft") = 0 /\ Reached("committed") = 0
<1>1. \A st : Reached(st) \in {0, 2, 3, 4, 5}  BY DEF Reached, ChainPhase
<1>2. /\ Reached("accepted") = 0 /\ Reached("onchain_requested") = 0 /\ Reached("cancelled") = 0
      /\ Reached("fulfilled") = 0 /\ Reached("custodian_dispatched") = 2 /\ Reached("custodian_collected") = 2
      /\ Reached("none") = 0 /\ Reached("draft") = 0 /\ Reached("committed") = 0
  BY DEF Reached, ChainPhase, AWAITING_OWNER
<1>3. Reached("arrived") = 3 /\ Reached("proof_approved") = 4 /\ Reached("owner_authorized") = 4 /\ Reached("chain_burned") = 5
  BY DEF Reached, ChainPhase, AWAITING_OWNER
<1>4. \A to, fn, phase : <<to, fn, phase>> \in ServerWrites => phase \in 1..3 /\ Reached(to) = phase + 1
  BY <1>2, <1>3 DEF ServerWrites
<1>. QED  BY <1>1, <1>2, <1>3, <1>4

\* What the record becomes when a pending write is mined.
LEMMA RecordMoves ==
  ASSUME ChainSound, NEW tx \in pending, Mine(tx)
  PROVE  \/ rec' = rec /\ mined' = mined
         \/ /\ mined' = mined \cup {tx}
            /\ \/ /\ tx.fn = "openRedemption" /\ rec.phase = 0 /\ rec'.phase = 1 /\ rec'.workflow = tx.request
                  /\ DOMAIN rec' = DOMAIN NoRecord
               \/ tx.fn = "cancelRedemption" /\ rec.phase = 1 /\ rec' = NoRecord
               \/ /\ DOMAIN rec' = DOMAIN rec /\ rec'.workflow = rec.workflow /\ rec.phase > 0
                  /\ \/ tx.fn = "setCollectorCommitment" /\ rec.phase = 1 /\ rec'.phase = 1
                     \/ tx.fn \in {"proposeRecovery", "approveRecovery"} /\ rec' = rec
                     \/ tx.fn = "startFulfillment" /\ rec.phase = 1 /\ rec'.phase = 2
                     \/ tx.fn = "submitFulfillmentProof" /\ rec.phase = 2 /\ rec'.phase = 3
                     \/ tx.fn = "approveFulfillmentProof" /\ rec.phase = 3 /\ rec'.phase = 4
                     \/ tx.fn = "executeRecovery" /\ rec.phase = 4 /\ rec'.phase = 5
                     \/ /\ tx.fn = "finalizeRedemption" /\ rec.phase = 4 /\ rec'.phase = 5
                        /\ tx.arg.workflow = rec.workflow
<1>1. tx.fn \in Writes /\ DOMAIN rec = DOMAIN NoRecord  BY DEF ChainSound, TxFits, RecSound
<1>2. CASE ~Accepts(tx)  BY <1>2 DEF Mine
<1>3. CASE Accepts(tx)
  <2>1. rec' = RecordAfter(tx) /\ mined' = mined \cup {tx}  BY <1>3 DEF Mine
  <2>2. DOMAIN rec = {"phase", "workflow", "commitment", "digest", "proofVersion", "approval"}
    BY <1>1 DEF NoRecord
  <2>3. CASE tx.fn = "openRedemption"
    BY <1>3, <2>1, <2>3 DEF Accepts, RecordAfter, NoRecord, ChainPhase
  <2>4. CASE tx.fn = "cancelRedemption"
    BY <1>3, <2>1, <2>4 DEF Accepts, RecordAfter, ChainPhase
  <2>5. CASE tx.fn = "setCollectorCommitment"
    BY <1>3, <2>1, <2>2, <2>5 DEF Accepts, RecordAfter, ChainPhase
  <2>6. CASE tx.fn = "startFulfillment"
    BY <1>3, <2>1, <2>2, <2>6 DEF Accepts, RecordAfter, ChainPhase
  <2>7. CASE tx.fn = "submitFulfillmentProof"
    <3>1. rec.phase = 2  BY <1>3, <2>7 DEF Accepts, ChainPhase
    <3>2. rec' = [rec EXCEPT !.phase = 3, !.digest = tx.arg, !.proofVersion = @ + 1]
      BY <2>1, <2>7 DEF RecordAfter, ChainPhase
    <3>. QED  BY <2>1, <2>2, <2>7, <3>1, <3>2
  <2>8. CASE tx.fn = "approveFulfillmentProof"
    <3>1. rec.phase = 3  BY <1>3, <2>8 DEF Accepts, ChainPhase
    <3>2. rec' = [rec EXCEPT !.phase = 4, !.approval = tx.arg]  BY <2>1, <2>8 DEF RecordAfter, ChainPhase
    <3>. QED  BY <2>1, <2>2, <2>8, <3>1, <3>2
  <2>9. CASE tx.fn = "finalizeRedemption"
    <3>1. rec.phase = 4 /\ tx.arg.workflow = rec.workflow
      BY <1>3, <2>9 DEF Accepts, ChainPhase, FinalizeDigest
    <3>2. rec' = [rec EXCEPT !.phase = 5]  BY <2>1, <2>9 DEF RecordAfter, ChainPhase
    <3>. QED  BY <2>1, <2>2, <2>9, <3>1, <3>2
  <2>10. CASE tx.fn = "executeRecovery"
    BY <1>3, <2>1, <2>2, <2>10 DEF Accepts, RecordAfter, ChainPhase
  <2>11. CASE tx.fn \in {"proposeRecovery", "approveRecovery"}
    <3>1. rec.phase = 4  BY <1>3, <2>11 DEF Accepts, ChainPhase
    <3>2. rec' = rec  BY <2>1, <2>11 DEF RecordAfter
    <3>. QED  BY <2>1, <2>11, <3>1, <3>2
  <2>. QED  BY <1>1, <2>3, <2>4, <2>5, <2>6, <2>7, <2>8, <2>9, <2>10, <2>11 DEF Writes
<1>. QED  BY <1>2, <1>3

\* A redemption that the vault has started on is not left, nor taken back.
LEMMA NeverBack ==
  ASSUME ChainSound, NEW tx \in pending, Mine(tx), NEW r, NEW k \in 2..5, At(r, k)
  PROVE  At(r, k)'
BY RecordMoves DEF ChainSound, RecSound, At

LEMMA CameToStays ==
  ASSUME ChainSound, NEW tx \in pending, Mine(tx), NEW r, NEW st, CameTo(r, st)
  PROVE  CameTo(r, st)'
<1>1. PICK k : k = Reached(st)  OBVIOUS
<1>2. k \in {0, 2, 3, 4, 5}  BY <1>1, ReachedIs
<1>. QED  BY <1>1, <1>2, NeverBack DEF CameTo

LEMMA MiningKeeps ==
  ASSUME ChainSound, NEW tx \in pending, Mine(tx), ReopensSettled
  PROVE  ChainSound'
<1>1. RecSound /\ TxFits(tx) /\ None \notin Requests  BY RedemptionAssumption DEF ChainSound
<1>2. RecSound'
  <2>1. DOMAIN NoRecord = DOMAIN NoRecord /\ NoRecord.phase = 0 /\ NoRecord.workflow = None  BY DEF NoRecord, ChainPhase
  <2>. QED  BY <1>1, <2>1, RecordMoves DEF RecSound, TxFits
<1>3. pending' = pending \ {tx}  BY DEF Mine
<1>4. ASSUME NEW t \in pending'  PROVE TxFits(t)'
  <2>1. TxFits(t)  BY <1>3, <1>4 DEF ChainSound
  <2>2. t.fn = "startFulfillment" => rec'.workflow \in {None, t.request}
    BY <1>4, <2>1 DEF TxFits, ReopensSettled
  <2>. QED  BY <2>1, <2>2, NeverBack DEF TxFits
<1>5. ASSUME NEW t \in mined'  PROVE TxDone(t)'
  <2>1. CASE t \in mined
    <3>1. TxDone(t)  BY <2>1 DEF ChainSound
    <3>. QED  BY <3>1, NeverBack DEF TxDone
  <2>2. CASE t = tx /\ tx \notin mined
    <3>1. mined' # mined  BY <1>5, <2>2
    <3>2. rec.phase > 0 => rec.workflow # None  BY <1>1 DEF RecSound
    <3>. QED  BY <1>1, <2>2, <3>1, <3>2, RecordMoves DEF TxDone, TxFits, At
  <2>. QED  BY <1>5, <2>1, <2>2, RecordMoves
<1>. QED  BY <1>2, <1>4, <1>5 DEF ChainSound

LEMMA SendingKeeps ==
  ASSUME ChainSound, NEW tx, TxFits(tx), Send(tx)
  PROVE  ChainSound'
<1>1. pending' = pending \cup {tx} /\ rec' = rec /\ mined' = mined  BY DEF Send
<1>2. \A t : (TxFits(t)' <=> TxFits(t)) /\ (TxDone(t)' <=> TxDone(t))  BY <1>1 DEF TxFits, TxDone, At
<1>3. RecSound'  BY <1>1 DEF ChainSound, RecSound
<1>. QED  BY <1>1, <1>2, <1>3 DEF ChainSound

LEMMA ChainStays == ASSUME ChainSound, UNCHANGED <<rec, pending, mined>>  PROVE ChainSound'
BY DEF ChainSound, RecSound, TxFits, TxDone, At

-----------------------------------------------------------------------------
(* The calls. *)

LEMMA RowAndBinding ==
  ASSUME NEW changed, DbExcept(changed), "status" \notin changed  PROVE UNCHANGED <<status, bound, log>>
BY DEF DbExcept

LEMMA RowsStay == ASSUME RowsBehind, UNCHANGED <<status, bound, rec>>  PROVE RowsBehind'
BY DEF RowsBehind, RowBehind, CameTo, At

LEMMA FitsStill == ASSUME NEW c, CallFits(c), rec' = rec  PROVE CallFits(c)'
BY DEF CallFits, CameTo, At

LEMMA OneFits ==
  ASSUME CallsFit, rec' = rec, NEW w \in Workers, NEW c, CallFits(c), call' = [call EXCEPT ![w] = c]
  PROVE  CallsFit'
<1>1. call' = [x \in Workers |-> call'[x]] /\ call'[w] = c /\ \A x \in Workers \ {w} : call'[x] = call[x]
  BY DEF CallsFit
<1>2. ASSUME NEW x \in Workers  PROVE CallFits(call[x])'
  <2>1. PICK d : d = call'[x]  OBVIOUS
  <2>2. CallFits(d)  BY <1>1, <2>1 DEF CallsFit
  <2>3. CallFits(d)'  BY <2>2, FitsStill
  <2>. QED  BY <2>1, <2>3
<1>. QED  BY <1>1, <1>2 DEF CallsFit

LEMMA CallsStay == ASSUME CallsFit, UNCHANGED <<call, rec>>  PROVE CallsFit'
<1>1. ASSUME NEW x \in Workers  PROVE CallFits(call[x])'
  <2>1. PICK d : d = call'[x]  OBVIOUS
  <2>2. CallFits(d)  BY <2>1 DEF CallsFit
  <2>3. CallFits(d)'  BY <2>2, FitsStill
  <2>. QED  BY <2>1, <2>3
<1>. QED  BY <1>1 DEF CallsFit

LEMMA FitCallMoves ==
  ASSUME ChainInv, UNCHANGED <<status, bound, rec, pending, mined>>, NEW w \in Workers, NEW c, CallFits(c),
         call' = [call EXCEPT ![w] = c]
  PROVE  ChainInv'
BY ChainStays, RowsStay, OneFits DEF ChainInv

LEMMA FitEnds ==
  ASSUME ChainInv, UNCHANGED <<status, bound, rec, pending, mined>>, NEW w \in Workers, End(w)
  PROVE  ChainInv'
<1>1. CallFits(Idle)  BY DEF CallFits, Idle, WritingPcs
<1>. QED  BY <1>1, FitCallMoves DEF End

LEMMA FitContinues ==
  ASSUME ChainInv, rec' = rec, NEW w \in Workers, NEW pc, Continue(w, pc),
         \/ pc \notin {"sweep"} \cup WritingPcs
         \/ call[w].pc = "chain" /\ pc = "receipt"
         \/ call[w].pc \in {"chain", "receipt"} /\ pc = "complete" /\ CameTo(call[w].request, call[w].to)
         \/ call[w].pc = "assign" /\ pc = "complete"
  PROVE  CallsFit'
<1>1. PICK c : c = call[w]  OBVIOUS
<1>2. PICK d : d = [c EXCEPT !.pc = pc]  OBVIOUS
<1>3. CallFits(c)  BY <1>1 DEF ChainInv, CallsFit
<1>4. call' = [call EXCEPT ![w] = d]  BY <1>1, <1>2 DEF Continue
<1>5. /\ "pc" \in DOMAIN d /\ d.pc = pc /\ d.request = c.request /\ d.to = c.to /\ d.fn = c.fn /\ d.phase = c.phase
      /\ d.key = c.key /\ d.pay = c.pay
  BY <1>2, <1>3 DEF CallFits
<1>6. CameTo(c.request, "accepted")  BY ReachedIs DEF CameTo
<1>7. CallFits(d)  BY <1>1, <1>3, <1>5, <1>6 DEF CallFits, WritingPcs
<1>. QED  BY <1>4, <1>7, OneFits DEF ChainInv

LEMMA FitBegins ==
  ASSUME ChainInv, UNCHANGED <<status, bound, rec, pending, mined>>, NEW w \in Workers, NEW r \in Requests,
         NEW key, NEW to, NEW pay, NEW pc \in {"assign", "complete"}, Begin(w, Call(r, key, to, pay, pc)),
         CameTo(r, to), pc = "assign" => to = "accepted",
         key[1] # "authorize_owner" \/ (pc = "complete" /\ pay.workflow = r)
  PROVE  ChainInv'
<1>1. PICK c : c = Call(r, key, to, pay, pc)  OBVIOUS
<1>2. c.pc = pc /\ c.request = r /\ c.key = key /\ c.to = to /\ c.pay = pay /\ "pc" \in DOMAIN c  BY <1>1 DEF Call
<1>3. CallFits(c)  BY <1>2 DEF CallFits, WritingPcs
<1>. QED  BY <1>1, <1>3, FitCallMoves DEF Begin

LEMMA FitServerBegins ==
  ASSUME ChainInv, UNCHANGED <<status, bound, rec, pending, mined>>, NEW w \in Workers, NEW r \in Requests,
         NEW key, key[1] # "authorize_owner", NEW to, NEW pay, NEW fn, NEW phase, <<to, fn, phase>> \in ServerWrites,
         Begin(w, ServerCall(r, key, to, pay, fn, phase))
  PROVE  ChainInv'
<1>1. PICK c : c = ServerCall(r, key, to, pay, fn, phase)  OBVIOUS
<1>2. /\ c.pc = "chain" /\ c.request = r /\ c.key = key /\ c.to = to /\ c.fn = fn /\ c.phase = phase /\ "pc" \in DOMAIN c
  BY <1>1 DEF ServerCall, Call
<1>3. CallFits(c)  BY <1>2 DEF CallFits, WritingPcs
<1>. QED  BY <1>1, <1>3, FitCallMoves DEF Begin

LEMMA OwnerCallsFit ==
  ASSUME ChainInv, NEW w \in Workers, NEW r \in Requests, NEW s \in Sessions, OwnerCalls(w, r, s)
  PROVE  ChainInv'
<1>0. CameTo(r, "onchain_requested") /\ CameTo(r, "cancelled") /\ CameTo(r, "accepted")  BY ReachedIs DEF CameTo
<1>1. CASE MarkOnchainRequested(w, r, s) \/ ReconcileOpening(w, r, s)
  <2>1. UNCHANGED <<status, bound, rec, pending, mined>>
    BY <1>1, RowAndBinding DEF MarkOnchainRequested, ReconcileOpening, chainVars
  <2>2. \E key : key[1] # "authorize_owner" /\ Begin(w, Call(r, key, "onchain_requested", None, "complete"))
    BY <1>1 DEF MarkOnchainRequested, ReconcileOpening, Key
  <2>. QED  BY <1>0, <2>1, <2>2, FitBegins
<1>2. CASE DiscardRedemption(w, r, s) \/ CancelRedemption(w, r, s)
  <2>1. UNCHANGED <<status, bound, rec, pending, mined>>
    BY <1>2, RowAndBinding DEF DiscardRedemption, CancelRedemption, Untouched, chainVars
  <2>2. \E key : key[1] # "authorize_owner" /\ Begin(w, Call(r, key, "cancelled", None, "complete"))
    BY <1>2 DEF DiscardRedemption, CancelRedemption, Key
  <2>. QED  BY <1>0, <2>1, <2>2, FitBegins
<1>3. ASSUME NEW p \in Proxies, RecordNomination(w, r, s, p)  PROVE ChainInv'
  <2>1. UNCHANGED <<status, bound, rec, pending, mined>>  BY <1>3, RowAndBinding DEF RecordNomination, chainVars
  <2>2. PICK to : to = status[r]  OBVIOUS
  <2>3. to \in {"onchain_requested", "accepted"} /\ \E key : key[1] # "authorize_owner" /\ Begin(w, Call(r, key, to, p, "complete"))
    BY <1>3, <2>2 DEF RecordNomination, Key
  <2>. QED  BY <1>0, <2>1, <2>3, FitBegins
<1>4. CASE ResendOwnerCode(w, r, s)
  <2>1. UNCHANGED <<status, bound, rec, pending, mined>>  BY <1>4, RowAndBinding DEF ResendOwnerCode, Untouched, chainVars
  <2>2. PICK c : c = Call(r, Key("resend_owner_code", s), status[r], None, "deliver")  OBVIOUS
  <2>3. CallFits(c)  BY <2>2 DEF Call, CallFits, WritingPcs
  <2>. QED  BY <1>4, <2>1, <2>2, <2>3, FitCallMoves DEF ResendOwnerCode, Begin
<1>5. ASSUME NEW g, NEW ch, AuthorizeOwner(w, r, s, g, ch)  PROVE ChainInv'
  <2>1. UNCHANGED <<status, bound, rec, pending, mined>>  BY <1>5, RowAndBinding DEF AuthorizeOwner, Untouched, chainVars
  <2>2. PICK pay : pay = SignedBinding(r)  OBVIOUS
  <2>3. Begin(w, Call(r, <<"authorize_owner", ch>>, "owner_authorized", pay, "complete"))
    BY <1>5, <2>2 DEF AuthorizeOwner
  <2>4. pay.workflow = r  BY <2>2 DEF SignedBinding, FinalizeDigest
  <2>5. CameTo(r, "owner_authorized")
    BY <1>5, ReachedIs DEF AuthorizeOwner, finalizeAuthorizationBinding, CameTo, At, ChainPhase
  <2>. QED  BY <2>1, <2>3, <2>4, <2>5, FitBegins
<1>6. CASE MarkChainBurned(w, r, s)
  <2>1. UNCHANGED <<status, bound, rec, pending, mined>>  BY <1>6, RowAndBinding DEF MarkChainBurned, Untouched, chainVars
  <2>2. \E key : key[1] # "authorize_owner" /\ Begin(w, Call(r, key, "chain_burned", None, "complete"))
    BY <1>6 DEF MarkChainBurned, Key
  <2>3. At(r, 5)  BY <1>6 DEF MarkChainBurned, ChainInv, ChainSound, TxDone
  <2>4. CameTo(r, "chain_burned")  BY <2>3, ReachedIs DEF CameTo
  <2>. QED  BY <2>1, <2>2, <2>4, FitBegins
<1>. QED  BY <1>1, <1>2, <1>3, <1>4, <1>5, <1>6 DEF OwnerCalls

LEMMA StaffCallsFit ==
  ASSUME ChainInv, NEW w \in Workers, NEW r \in Requests, NEW s \in Sessions, StaffCalls(w, r, s)
  PROVE  ChainInv'
<1>1. CASE CustodianCollect(w, r, s)
  <2>1. UNCHANGED <<status, bound, rec, pending, mined>>  BY <1>1, RowAndBinding DEF CustodianCollect, chainVars
  <2>2. \E key : key[1] # "authorize_owner" /\ Begin(w, ServerCall(r, key, "custodian_collected", None, "startFulfillment", 1))
    BY <1>1 DEF CustodianCollect, ChainPhase, Key
  <2>. QED  BY <2>1, <2>2, FitServerBegins DEF ServerWrites
<1>2. CASE CustodianDispatch(w, r, s)
  <2>1. UNCHANGED <<status, bound, rec, pending, mined>>
    BY <1>2, RowAndBinding DEF CustodianDispatch, Untouched, chainVars
  <2>2. \E key : key[1] # "authorize_owner" /\ Begin(w, Call(r, key, "custodian_dispatched", None, "complete"))
    BY <1>2 DEF CustodianDispatch, Key
  <2>3. CameTo(r, "custodian_dispatched")
    BY <1>2, ReachedIs DEF CustodianDispatch, ChainInv, RowsBehind, RowBehind, CameTo
  <2>. QED  BY <2>1, <2>2, <2>3, FitBegins
<1>3. ASSUME NEW e \in Evidence, RecordArrival(w, r, s, e)  PROVE ChainInv'
  <2>1. UNCHANGED <<status, bound, rec, pending, mined>>  BY <1>3, RowAndBinding DEF RecordArrival, chainVars
  <2>2. \E key, pay : key[1] # "authorize_owner" /\ Begin(w, ServerCall(r, key, "arrived", pay, "submitFulfillmentProof", 2))
    BY <1>3 DEF RecordArrival, ChainPhase, Key
  <2>. QED  BY <2>1, <2>2, FitServerBegins DEF ServerWrites
<1>4. ASSUME NEW o \in Orgs, ReleaseOwnerCode(w, r, s, o)  PROVE ChainInv'
  <2>1. UNCHANGED <<status, bound, rec, pending, mined>>  BY <1>4, RowAndBinding DEF ReleaseOwnerCode, chainVars
  <2>2. \E key, pay : key[1] # "authorize_owner" /\ Begin(w, ServerCall(r, key, "proof_approved", pay, "approveFulfillmentProof", 3))
    BY <1>4 DEF ReleaseOwnerCode, ChainPhase, Key
  <2>. QED  BY <2>1, <2>2, FitServerBegins DEF ServerWrites
<1>5. ASSUME NEW o \in Orgs, AcceptRedemption(w, r, s, o)  PROVE ChainInv'
  <2>1. UNCHANGED <<status, bound, rec, pending, mined>>
    BY <1>5, RowAndBinding DEF AcceptRedemption, Untouched, chainVars
  <2>2. \E key : key[1] # "authorize_owner" /\ Begin(w, Call(r, key, "accepted", o, "assign"))
    BY <1>5 DEF AcceptRedemption, Key
  <2>3. CameTo(r, "accepted")  BY ReachedIs DEF CameTo
  <2>. QED  BY <2>1, <2>2, <2>3, FitBegins
<1>. QED  BY <1>1, <1>2, <1>3, <1>4, <1>5 DEF StaffCalls

\* An event leaves an authorization alone or replaces it by the one it records.
LEMMA Rebinds ==
  ASSUME NEW b, DOMAIN b = DOMAIN Unbound, NEW c
  PROVE  /\ DOMAIN Rebound(b, c) = DOMAIN Unbound
         /\ \/ Rebound(b, c).authorization = b.authorization
            \/ c.key[1] = "authorize_owner" /\ Rebound(b, c).authorization = c.pay
<1>1. DOMAIN b = {"digest", "proofVersion", "approval", "commitment", "authorization"}  BY DEF Unbound
<1>2. PICK k : k = c.key[1]  OBVIOUS
<1>3. \/ Rebound(b, c) = [b EXCEPT !.digest = c.pay, !.proofVersion = c.pay[2]]
      \/ Rebound(b, c) = [b EXCEPT !.approval = c.pay]
      \/ Rebound(b, c) = [b EXCEPT !.commitment = c.pay]
      \/ k = "authorize_owner" /\ Rebound(b, c) = [b EXCEPT !.authorization = c.pay, !.commitment = c.pay.commitment]
      \/ Rebound(b, c) = b
  BY <1>2 DEF Rebound
<1>. QED  BY <1>1, <1>2, <1>3

\* The row and its binding move together.
LEMMA RowMoves ==
  ASSUME RowsBehind, rec' = rec, NEW r \in Requests, NEW to, CameTo(r, to), status' = [status EXCEPT ![r] = to],
         NEW b, DOMAIN b = DOMAIN Unbound, b.authorization # None => b.authorization.workflow = r,
         bound' = [bound EXCEPT ![r] = b]
  PROVE  RowsBehind'
<1>1. /\ status' = [x \in Requests |-> status'[x]] /\ status'[r] = to /\ \A x \in Requests \ {r} : status'[x] = status[x]
      /\ bound' = [x \in Requests |-> bound'[x]] /\ bound'[r] = b /\ \A x \in Requests \ {r} : bound'[x] = bound[x]
  BY DEF RowsBehind
<1>2. RowBehind(r)'  BY <1>1 DEF RowBehind, CameTo, At
<1>3. ASSUME NEW x \in Requests \ {r}  PROVE RowBehind(x)'
  BY <1>1 DEF RowsBehind, RowBehind, CameTo, At
<1>. QED  BY <1>1, <1>2, <1>3 DEF RowsBehind

LEMMA CompleteFits ==
  ASSUME ChainInv, NEW w \in Workers, complete_redemption_transition(w)
  PROVE  ChainInv'
<1>1. PICK c : c = call[w]  OBVIOUS
<1>2. PICK r \in Requests : r = c.request /\ CameTo(r, c.to) /\ (c.key[1] = "authorize_owner" => c.pay.workflow = r)
  BY <1>1 DEF ChainInv, CallsFit, CallFits, WritingPcs, complete_redemption_transition
<1>3. PICK b : b = Rebound(bound[r], c)  OBVIOUS
<1>4. /\ UNCHANGED <<rec, pending, mined>>
      /\ \/ UNCHANGED <<status, bound>>
         \/ status' = [status EXCEPT ![r] = c.to] /\ bound' = [bound EXCEPT ![r] = b]
      /\ \/ AfterComplete(c) # "end" /\ Continue(w, AfterComplete(c))
         \/ End(w)
  BY <1>1, <1>2, <1>3 DEF complete_redemption_transition, chainVars
<1>5. CallsFit'
  <2>1. AfterComplete(c) \in {"deliver", "invalidate", "reconcile", "end"}  BY DEF AfterComplete
  <2>2. CASE Continue(w, AfterComplete(c))
    <3>1. AfterComplete(c) \notin {"sweep"} \cup WritingPcs  BY <2>1 DEF WritingPcs
    <3>. QED  BY <1>4, <2>2, <3>1, FitContinues
  <2>3. CASE End(w)
    <3>1. CallFits(Idle)  BY DEF CallFits, Idle, WritingPcs
    <3>. QED  BY <1>4, <2>3, <3>1, OneFits DEF End, ChainInv
  <2>. QED  BY <1>4, <2>2, <2>3
<1>6. RowsBehind'
  <2>1. DOMAIN b = DOMAIN Unbound /\ (b.authorization # None => b.authorization.workflow = r)
    <3>1. PICK old : old = bound[r]  OBVIOUS
    <3>2. DOMAIN old = DOMAIN Unbound /\ (old.authorization # None => old.authorization.workflow = r)
      BY <3>1 DEF ChainInv, RowsBehind, RowBehind
    <3>3. /\ DOMAIN b = DOMAIN Unbound
          /\ \/ b.authorization = old.authorization
             \/ c.key[1] = "authorize_owner" /\ b.authorization = c.pay
      BY <1>3, <3>1, <3>2, Rebinds
    <3>. QED  BY <1>2, <3>2, <3>3
  <2>. QED  BY <1>2, <1>4, <2>1, RowsStay, RowMoves DEF ChainInv
<1>. QED  BY <1>4, <1>5, <1>6, ChainStays DEF ChainInv

LEMMA ServerStepFits ==
  ASSUME ChainInv, NEW w \in Workers, runServerStep(w) \/ ServerReceipt(w)
  PROVE  ChainInv'
<1>1. PICK c : c = call[w]  OBVIOUS
<1>2. /\ c.pc \in {"chain", "receipt"} /\ c.request \in Requests /\ <<c.to, c.fn, c.phase>> \in ServerWrites
      /\ c.phase \in 1..3 /\ Reached(c.to) = c.phase + 1
  BY <1>1, ReachedIs DEF ChainInv, CallsFit, CallFits, WritingPcs, runServerStep, ServerReceipt
<1>3. UNCHANGED <<status, bound>>  BY RowAndBinding DEF runServerStep, ServerReceipt, Untouched
<1>4. CASE End(w) /\ UNCHANGED chainVars  BY <1>3, <1>4, FitEnds DEF chainVars
<1>5. CASE runServerStep(w) /\ Landed(c.request, c.phase) /\ Continue(w, "complete") /\ UNCHANGED chainVars
  <2>1. CameTo(c.request, c.to)  BY <1>2, <1>5 DEF Landed, CameTo, At, ChainInv, ChainSound, RecSound
  <2>2. CallsFit'  BY <1>1, <1>2, <1>5, <2>1, FitContinues DEF chainVars
  <2>. QED  BY <1>3, <1>5, <2>2, ChainStays, RowsStay DEF ChainInv, chainVars
<1>6. CASE runServerStep(w) /\ Owed(c.request, c.phase) /\ Send(Tx(c.fn, c.request, c.pay)) /\ Continue(w, "receipt")
  <2>1. PICK tx : tx = Tx(c.fn, c.request, c.pay)  OBVIOUS
  <2>2. tx.fn = c.fn /\ tx.request = c.request  BY <2>1 DEF Tx
  <2>3. TxFits(tx)  BY <1>2, <1>6, <2>2 DEF TxFits, Writes, ServerWrites, Owed, At
  <2>4. ChainSound' /\ rec' = rec  BY <1>6, <2>1, <2>3, SendingKeeps DEF ChainInv, Send
  <2>5. CallsFit'
    <3>1. call[w].pc = "chain"  BY <1>6 DEF runServerStep
    <3>. QED  BY <1>6, <2>4, <3>1, FitContinues
  <2>. QED  BY <1>3, <2>4, <2>5, RowsStay DEF ChainInv
<1>7. CASE ServerReceipt(w) /\ Tx(c.fn, c.request, c.pay) \in mined /\ Continue(w, "complete")
  <2>1. UNCHANGED chainVars  BY <1>7 DEF ServerReceipt, Untouched
  <2>2. PICK tx : tx = Tx(c.fn, c.request, c.pay)  OBVIOUS
  <2>3. tx.fn = c.fn /\ tx.request = c.request /\ TxDone(tx)  BY <1>7, <2>2 DEF Tx, ChainInv, ChainSound
  <2>4. CameTo(c.request, c.to)  BY <1>2, <2>3 DEF CameTo, TxDone, ServerWrites
  <2>5. CallsFit'  BY <1>1, <1>2, <1>7, <2>1, <2>4, FitContinues DEF chainVars
  <2>. QED  BY <1>3, <2>1, <2>5, ChainStays, RowsStay DEF ChainInv, chainVars
<1>8. CASE runServerStep(w)  BY <1>1, <1>4, <1>5, <1>6, <1>8 DEF runServerStep
<1>9. CASE ServerReceipt(w)
  <2>1. UNCHANGED chainVars  BY <1>9 DEF ServerReceipt, Untouched
  <2>. QED  BY <1>1, <1>4, <1>7, <1>9, <2>1 DEF ServerReceipt
<1>. QED  BY <1>8, <1>9

LEMMA SweepWritesFit ==
  ASSUME ChainInv, NEW w \in Workers, SweepWrites(w)
  PROVE  ChainInv'
<1>1. PICK c : c = call[w]  OBVIOUS
<1>2. PICK r \in Requests : r = c.request /\ Reached(c.to) = 0
  BY <1>1 DEF ChainInv, CallsFit, CallFits, SweepWrites
<1>3. End(w) /\ bound' = bound /\ UNCHANGED <<rec, pending, mined>>  BY DEF SweepWrites, chainVars
<1>4. CASE status' = status  BY <1>3, <1>4, FitEnds
<1>5. CASE status' = [status EXCEPT ![r] = c.to]
  <2>1. PICK b : b = bound[r]  OBVIOUS
  <2>2. bound' = [bound EXCEPT ![r] = b]  BY <1>3, <2>1 DEF ChainInv, RowsBehind
  <2>3. CameTo(r, c.to)  BY <1>2 DEF CameTo
  <2>4. DOMAIN b = DOMAIN Unbound /\ (b.authorization # None => b.authorization.workflow = r)
    BY <2>1 DEF ChainInv, RowsBehind, RowBehind
  <2>5. RowsBehind'  BY <1>3, <1>5, <2>2, <2>3, <2>4, RowMoves DEF ChainInv
  <2>6. CallFits(Idle)  BY DEF CallFits, Idle, WritingPcs
  <2>. QED  BY <1>3, <2>5, <2>6, OneFits, ChainStays DEF End, ChainInv
<1>. QED  BY <1>1, <1>2, <1>4, <1>5 DEF SweepWrites

LEMMA SweepReadsFit ==
  ASSUME ChainInv, NEW w \in Workers, NEW r \in Requests, SweepReads(w, r)
  PROVE  ChainInv'
<1>1. UNCHANGED <<status, bound, rec, pending, mined>>  BY RowAndBinding DEF SweepReads, Untouched, chainVars
<1>2. PICK to \in SweptTo(r) \ {status[r]} : Begin(w, Call(r, Key("sweep", w), to, None, "sweep"))  BY DEF SweepReads
<1>3. to \in {"onchain_requested", "cancelled", "fulfilled"}  BY <1>2 DEF SweptTo, ByRegistry, ByEvents
<1>4. PICK c : c = Call(r, Key("sweep", w), to, None, "sweep")  OBVIOUS
<1>5. CallFits(c)  BY <1>3, <1>4, ReachedIs DEF Call, CallFits, WritingPcs
<1>. QED  BY <1>1, <1>2, <1>4, <1>5, FitCallMoves DEF Begin

LEMMA WorkerFits ==
  ASSUME ChainInv, NEW w \in Workers, WorkerStep(w) \/ Crash(w)
  PROVE  ChainInv'
<1>1. CASE AssignCustodian(w)
  <2>1. UNCHANGED <<status, bound, rec, pending, mined>>  BY <1>1, RowAndBinding DEF AssignCustodian, chainVars
  <2>2. CallsFit'  BY <1>1, <2>1, FitContinues DEF AssignCustodian
  <2>. QED  BY <2>1, <2>2, ChainStays, RowsStay DEF ChainInv
<1>2. CASE InvalidateCodes(w) \/ MailOwnerCode(w) \/ ConsumeChallenge(w) \/ Crash(w)
  <2>1. UNCHANGED <<status, bound, rec, pending, mined>>
    BY <1>2, RowAndBinding DEF InvalidateCodes, MailOwnerCode, ConsumeChallenge, Crash, Untouched, chainVars
  <2>. QED  BY <1>2, <2>1, FitEnds DEF InvalidateCodes, MailOwnerCode, ConsumeChallenge, Crash
<1>3. CASE ReconcileNomination(w) \/ ConsumeCode(w)
  <2>1. UNCHANGED <<status, bound, rec, pending, mined>>
    BY <1>3, RowAndBinding DEF ReconcileNomination, ConsumeCode, chainVars
  <2>2. End(w) \/ \E pc \in {"consume", "challenge"} : Continue(w, pc)  BY <1>3 DEF ReconcileNomination, ConsumeCode
  <2>3. ASSUME NEW pc \in {"consume", "challenge"}, Continue(w, pc)  PROVE ChainInv'
    <3>1. CallsFit'  BY <2>1, <2>3, FitContinues DEF WritingPcs
    <3>. QED  BY <2>1, <3>1, ChainStays, RowsStay DEF ChainInv
  <2>. QED  BY <2>1, <2>2, <2>3, FitEnds
<1>4. CASE DeliverOwnerCode(w)
  <2>1. UNCHANGED <<status, bound, rec, pending, mined>>  BY <1>4, RowAndBinding DEF DeliverOwnerCode, chainVars
  <2>2. PICK n : n = code'[call[w].request].gen  OBVIOUS
  <2>3. PICK d : d = [call[w] EXCEPT !.pc = "mail", !.pay = n]  OBVIOUS
  <2>4. call' = [call EXCEPT ![w] = d]  BY <1>4, <2>2, <2>3 DEF DeliverOwnerCode
  <2>5. CallFits(d)  BY <2>3 DEF ChainInv, CallsFit, CallFits, WritingPcs
  <2>. QED  BY <2>1, <2>4, <2>5, FitCallMoves
<1>. QED  BY <1>1, <1>2, <1>3, <1>4, CompleteFits, ServerStepFits, SweepWritesFit DEF WorkerStep

-----------------------------------------------------------------------------
(* The requests. *)

LEMMA FitSends ==
  ASSUME ChainInv, UNCHANGED <<status, bound, call>>, NEW tx, TxFits(tx), Send(tx)
  PROVE  ChainInv'
BY SendingKeeps, RowsStay, CallsStay DEF ChainInv, Send

LEMMA OwnerSendsFit ==
  ASSUME ChainInv, NEW r \in Requests, OwnerSends(r)
  PROVE  ChainInv'
<1>1. UNCHANGED <<status, bound, call>>  BY RowAndBinding DEF OwnerSends
<1>2. PICK fn, arg : /\ Send(Tx(fn, r, arg))
                     /\ \/ fn = "openRedemption" /\ arg = None
                        \/ fn \in {"cancelRedemption", "setCollectorCommitment"}
                        \/ fn = "finalizeRedemption" /\ bound[r].authorization # None /\ arg = bound[r].authorization
  BY DEF OwnerSends
<1>3. PICK tx : tx = Tx(fn, r, arg)  OBVIOUS
<1>4. tx.fn = fn /\ tx.request = r /\ tx.arg = arg  BY <1>3 DEF Tx
<1>5. TxFits(tx)  BY <1>2, <1>3, <1>4 DEF TxFits, Writes, ChainInv, RowsBehind, RowBehind
<1>. QED  BY <1>1, <1>2, <1>3, <1>5, FitSends

LEMMA ApproverSendsFit ==
  ASSUME ChainInv, NEW r \in Requests, NEW a, ApproverSends(r, a)
  PROVE  ChainInv'
<1>1. UNCHANGED <<status, bound, call>>  BY RowAndBinding DEF ApproverSends
<1>2. PICK fn \in {"proposeRecovery", "approveRecovery", "executeRecovery"} : Send(Tx(fn, r, a))
  BY DEF ApproverSends
<1>3. PICK tx : tx = Tx(fn, r, a)  OBVIOUS
<1>4. tx.fn = fn /\ tx.request = r  BY <1>3 DEF Tx
<1>5. At(r, 4)
  <2>1. Reached(status[r]) = 4  BY ReachedIs DEF ApproverSends, AWAITING_OWNER
  <2>. QED  BY <2>1 DEF ChainInv, RowsBehind, RowBehind, CameTo
<1>6. TxFits(tx)  BY <1>2, <1>4, <1>5 DEF TxFits, Writes
<1>. QED  BY <1>1, <1>2, <1>3, <1>6, FitSends

LEMMA RecoveryFits ==
  ASSUME ChainInv, NEW r \in Requests, NEW a, ProposeRecovery(r, a) \/ ApproveRecovery(r, a) \/ ExecuteRecovery(r, a)
  PROVE  ChainInv'
<1>1. CASE ProposeRecovery(r, a) \/ ApproveRecovery(r, a)
  <2>1. UNCHANGED <<status, bound, call, rec, pending, mined>>
    BY <1>1 DEF ProposeRecovery, ApproveRecovery, chainVars
  <2>. QED  BY <2>1, ChainStays, RowsStay, CallsStay DEF ChainInv
<1>2. CASE ExecuteRecovery(r, a)
  <2>1. /\ UNCHANGED <<bound, call, rec, pending, mined>> /\ status' = [status EXCEPT ![r] = "chain_burned"]
        /\ Tx("executeRecovery", r, a) \in mined
    BY <1>2 DEF ExecuteRecovery, chainVars
  <2>2. PICK tx : tx = Tx("executeRecovery", r, a)  OBVIOUS
  <2>3. tx.fn = "executeRecovery" /\ tx.request = r /\ TxDone(tx)  BY <2>1, <2>2 DEF Tx, ChainInv, ChainSound
  <2>4. CameTo(r, "chain_burned")  BY <2>3, ReachedIs DEF TxDone, CameTo
  <2>5. PICK b : b = bound[r]  OBVIOUS
  <2>6. bound' = [bound EXCEPT ![r] = b]  BY <2>1, <2>5 DEF ChainInv, RowsBehind
  <2>7. DOMAIN b = DOMAIN Unbound /\ (b.authorization # None => b.authorization.workflow = r)
    BY <2>5 DEF ChainInv, RowsBehind, RowBehind
  <2>8. RowsBehind'  BY <2>1, <2>4, <2>6, <2>7, RowMoves DEF ChainInv
  <2>. QED  BY <2>1, <2>8, ChainStays, CallsStay DEF ChainInv
<1>. QED  BY <1>1, <1>2

LEMMA DraftFits ==
  ASSUME ChainInv, NEW r \in Requests, CreateDraft(r) \/ CommitDraft(r)
  PROVE  ChainInv'
<1>1. UNCHANGED <<bound, call, rec, pending, mined>>  BY DEF CreateDraft, CommitDraft, chainVars
<1>2. PICK to \in {"draft", "committed"} : status' = [status EXCEPT ![r] = to]  BY DEF CreateDraft, CommitDraft
<1>3. CameTo(r, to)  BY <1>2, ReachedIs DEF CameTo
<1>4. PICK b : b = bound[r]  OBVIOUS
<1>5. bound' = [bound EXCEPT ![r] = b]  BY <1>1, <1>4 DEF ChainInv, RowsBehind
<1>6. DOMAIN b = DOMAIN Unbound /\ (b.authorization # None => b.authorization.workflow = r)
  BY <1>4 DEF ChainInv, RowsBehind, RowBehind
<1>7. RowsBehind'  BY <1>1, <1>2, <1>3, <1>5, <1>6, RowMoves DEF ChainInv
<1>. QED  BY <1>1, <1>7, ChainStays, CallsStay DEF ChainInv

LEMMA RequestFits ==
  ASSUME ChainInv, NEW r \in Requests, RequestStep(r)
  PROVE  ChainInv'
<1>1. ASSUME CodeTime(r) \/ WrongCode(r)  PROVE ChainInv'
  <2>1. UNCHANGED <<status, bound, call, rec, pending, mined>>  BY <1>1, RowAndBinding DEF CodeTime, WrongCode, chainVars
  <2>. QED  BY <2>1, ChainStays, RowsStay, CallsStay DEF ChainInv
<1>2. ASSUME NEW s, NEW x, PrepareCancellation(r, s) \/ NominateProxy(r, s, x) \/ PrepareOwnerAuthorization(r, s, x)
      PROVE  ChainInv'
  <2>1. UNCHANGED <<status, bound, call, rec, pending, mined>>
    BY <1>2, RowAndBinding DEF PrepareCancellation, NominateProxy, PrepareOwnerAuthorization, chainVars
  <2>. QED  BY <2>1, ChainStays, RowsStay, CallsStay DEF ChainInv
<1>3. ASSUME NEW x, RequestEvidenceUpload(r, x) \/ ConfirmEvidenceUpload(r, x)  PROVE ChainInv'
  <2>1. UNCHANGED <<status, bound, call, rec, pending, mined>>
    BY <1>3, RowAndBinding DEF RequestEvidenceUpload, ConfirmEvidenceUpload, chainVars
  <2>. QED  BY <2>1, ChainStays, RowsStay, CallsStay DEF ChainInv
<1>. QED  BY <1>1, <1>2, <1>3, OwnerSendsFit, ApproverSendsFit, DraftFits, RecoveryFits DEF RequestStep

-----------------------------------------------------------------------------
(* The specification. *)

LEMMA ChainInit == Init => ChainInv
<1>. SUFFICES ASSUME Init  PROVE ChainInv
  OBVIOUS
<1>1. ChainSound  BY DEF Init, ChainSound, RecSound, NoRecord, ChainPhase
<1>2. RowsBehind  BY ReachedIs DEF Init, RowsBehind, RowBehind, CameTo, Unbound
<1>3. CallFits(Idle)  BY DEF CallFits, Idle, WritingPcs
<1>. QED  BY <1>1, <1>2, <1>3 DEF Init, ChainInv, CallsFit

LEMMA ChainMiningKeeps ==
  ASSUME ChainInv, ReopensSettled, ChainStep
  PROVE  ChainInv'
<1>1. UNCHANGED <<status, bound, call>>  BY RowAndBinding DEF ChainStep
<1>2. PICK tx \in pending : Mine(tx)  BY DEF ChainStep
<1>3. ASSUME NEW r \in Requests  PROVE RowBehind(r)'
  <2>1. PICK st : st = status[r]  OBVIOUS
  <2>2. CameTo(r, st)'  BY <1>2, <2>1, CameToStays DEF ChainInv, RowsBehind, RowBehind
  <2>3. CameTo(r, status[r])'  BY <1>1, <2>1, <2>2 DEF CameTo, At
  <2>. QED  BY <1>1, <2>3 DEF ChainInv, RowsBehind, RowBehind
<1>4. ASSUME NEW w \in Workers  PROVE CallFits(call[w])'
  <2>1. PICK c : c = call[w]  OBVIOUS
  <2>2. CallFits(c)  BY <2>1 DEF ChainInv, CallsFit
  <2>3. CallFits(c)'  BY <1>2, <2>2, CameToStays DEF CallFits, ChainInv
  <2>. QED  BY <1>1, <2>1, <2>3
<1>. QED  BY <1>1, <1>2, <1>3, <1>4, MiningKeeps DEF ChainInv, RowsBehind, CallsFit

LEMMA ChainStepKeeps == ChainInv /\ [Next /\ ReopensSettled]_vars => ChainInv'
<1>. SUFFICES ASSUME ChainInv, [Next /\ ReopensSettled]_vars  PROVE ChainInv'
  OBVIOUS
<1>1. CASE UNCHANGED vars  BY <1>1, ChainStays, RowsStay, CallsStay DEF vars, dbVars, chainVars, ChainInv
<1>2. CASE GraceStep
  <2>1. UNCHANGED <<status, bound, call, rec, pending, mined>>  BY <1>2, RowAndBinding DEF GraceStep, GraceEnds
  <2>. QED  BY <2>1, ChainStays, RowsStay, CallsStay DEF ChainInv
<1>. QED  BY <1>1, <1>2, ChainMiningKeeps, OwnerCallsFit, StaffCallsFit, WorkerFits, SweepReadsFit, RequestFits DEF Next

\* Whichever calls overlap, die, are repeated or report late, and whatever is
\* reverted or mined in another order: a row shows no step that the manager has
\* not taken for that very redemption.  The token is not opened for another
\* request while a collection of the one before is still on its way.
THEOREM RowIsBehindChain == SettledSpec => []RowBehindChain
<1>1. ChainInv => RowBehindChain  BY DEF ChainInv, RowsBehind, RowBehind, CameTo, At, RowBehindChain
<1>2. SettledSpec => []ChainInv  BY ChainInit, ChainStepKeeps, PTL DEF SettledSpec
<1>. QED  BY <1>1, <1>2, PTL

-----------------------------------------------------------------------------
(* The inductive invariant of one request's holder. *)

Opening == Tx("openRedemption", subject, None)
Opened == Opening \in mined

\* The token went back, and cannot be locked for this request again.
Gone == Opened /\ Opening \notin pending /\ rec.phase = 0

\* The vault is known to have let go of the stone.
Late == ARRIVAL_FROM_STATES \cup APPROVAL_PENDING_STATES \cup AWAITING_OWNER \cup {"chain_burned"}

\* The states a call or the sweep takes the request between.
HolderMoves ==
  {<<"committed", "onchain_requested">>, <<"onchain_requested", "onchain_requested">>, <<"accepted", "accepted">>,
   <<"onchain_requested", "accepted">>, <<"accepted", "custodian_collected">>,
   <<"custodian_collected", "custodian_dispatched">>, <<"proof_approved", "owner_authorized">>,
   <<"owner_authorized", "owner_authorized">>, <<"owner_authorized", "chain_burned">>}
  \cup ({"draft", "committed", "onchain_requested", "accepted"} \X {"cancelled"})
  \cup (ARRIVAL_FROM_STATES \X {"arrived"}) \cup (APPROVAL_PENDING_STATES \X {"proof_approved"})

Collects(c) == c.pc = "chain" /\ c.fn = "startFulfillment" /\ c.request = subject
NoCollection ==
  /\ \A tx \in pending : ~(tx.fn = "startFulfillment" /\ tx.request = subject)
  /\ \A w \in Workers : ~Collects(call[w])

HolderTx(tx) ==
  /\ tx.fn = "openRedemption" => tx.request = subject
  /\ tx.request = subject =>
       /\ tx.fn = "submitFulfillmentProof" => status[subject] \in Late
       /\ tx.fn = "finalizeRedemption" => status[subject] \in {"owner_authorized", "chain_burned"}
       /\ tx.fn = "executeRecovery" => status[subject] \in AWAITING_OWNER \cup {"chain_burned"}
HolderChain ==
  /\ rec.workflow \in {None, subject} /\ (rec.phase > 0 => Opened) /\ (Opened => Opening \notin pending)
  /\ \A tx \in pending : HolderTx(tx)

HolderRow ==
  /\ status[subject] \notin Early \cup {"cancelled"} => Opened
  /\ rec.phase >= 3 => status[subject] \in Late
  /\ status[subject] \in Early => NoCollection
  /\ status[subject] = "cancelled" => NoCollection \/ Gone
  /\ bound[subject].authorization # None => status[subject] \in {"owner_authorized", "chain_burned"}

HolderCall(c) ==
  c.pc \in WritingPcs \cup {"sweep"} /\ c.request = subject =>
    /\ <<c.from, c.to>> \in HolderMoves
    /\ c.to # "cancelled" => Opened
    /\ c.to = "cancelled" /\ c.from \notin Early => Gone
    /\ c.key[1] = "authorize_owner" => c.to = "owner_authorized"
    /\ c.key[1] = "cancel_redemption" => Gone
    /\ c.from \in Late => status[subject] \in Late
HolderCalls == \A w \in Workers : HolderCall(call[w])

HolderInv == HolderChain /\ HolderRow /\ HolderCalls

Follows == [Tracker!Next]_(Tracker!vars)

-----------------------------------------------------------------------------
(* Steps that leave the chain and the request's row alone. *)

LEMMA Stutters == ASSUME status'[subject] = status[subject], rec' = rec  PROVE Follows
BY DEF Follows, Tracker!vars, TokenPlace, Withdrawn

LEMMA HolderCallStays ==
  ASSUME Opened => Opened', Gone => Gone', status[subject] \in Late => status'[subject] \in Late,
         NEW c, HolderCall(c)
  PROVE  HolderCall(c)'
BY DEF HolderCall

LEMMA HolderCallsMove ==
  ASSUME ChainInv, HolderInv, Opened => Opened', Gone => Gone',
         status[subject] \in Late => status'[subject] \in Late,
         NEW w \in Workers, NEW c, HolderCall(c), call' = [call EXCEPT ![w] = c]
  PROVE  HolderCalls'
<1>1. call'[w] = c /\ \A x \in Workers \ {w} : call'[x] = call[x]  BY DEF ChainInv, CallsFit
<1>2. ASSUME NEW x \in Workers  PROVE HolderCall(call[x])'
  <2>1. PICK d : d = call'[x]  OBVIOUS
  <2>2. HolderCall(d)  BY <1>1, <2>1 DEF HolderInv, HolderCalls
  <2>3. HolderCall(d)'  BY <2>2, HolderCallStays
  <2>. QED  BY <2>1, <2>3
<1>. QED  BY <1>2 DEF HolderCalls

LEMMA HolderCallsStay ==
  ASSUME HolderInv, Opened => Opened', Gone => Gone', status[subject] \in Late => status'[subject] \in Late,
         call' = call
  PROVE  HolderCalls'
<1>1. ASSUME NEW x \in Workers  PROVE HolderCall(call[x])'
  <2>1. PICK d : d = call'[x]  OBVIOUS
  <2>2. HolderCall(d)  BY <2>1 DEF HolderInv, HolderCalls
  <2>3. HolderCall(d)'  BY <2>2, HolderCallStays
  <2>. QED  BY <2>1, <2>3
<1>. QED  BY <1>1 DEF HolderCalls

\* What the row and the chain say stays, when no collection begins.
LEMMA QuietHolder ==
  ASSUME HolderInv, UNCHANGED <<rec, pending, mined>>, status'[subject] = status[subject],
         bound'[subject].authorization = bound[subject].authorization,
         \/ \A w \in Workers : Collects(call[w])' => Collects(call[w])
         \/ status[subject] \notin Early \cup {"cancelled"}
  PROVE  /\ HolderChain' /\ HolderRow' /\ Follows
         /\ (Opened => Opened') /\ (Gone => Gone') /\ (status[subject] \in Late => status'[subject] \in Late)
<1>1. Opening' = Opening  BY DEF Opening, Tx
<1>2. (Opened' <=> Opened) /\ (Gone' <=> Gone)  BY <1>1 DEF Opened, Gone
<1>3. HolderChain'  BY <1>1, <1>2 DEF HolderInv, HolderChain, HolderTx
<1>4. status[subject] \in Early \cup {"cancelled"} /\ NoCollection => NoCollection'  BY DEF NoCollection
<1>5. HolderRow'  BY <1>2, <1>4 DEF HolderInv, HolderRow
<1>. QED  BY <1>2, <1>3, <1>5, Stutters

LEMMA HolderCallBegins ==
  ASSUME ChainInv, HolderInv, UNCHANGED <<status, bound, rec, pending, mined>>, NEW w \in Workers, NEW c, HolderCall(c),
         Collects(c) => Collects(call[w]) \/ status[subject] \notin Early \cup {"cancelled"},
         call' = [call EXCEPT ![w] = c]
  PROVE  HolderInv' /\ Follows
<1>1. \/ \A x \in Workers : Collects(call[x])' => Collects(call[x])
      \/ status[subject] \notin Early \cup {"cancelled"}
  <2>1. call'[w] = c /\ \A x \in Workers \ {w} : call'[x] = call[x]  BY DEF ChainInv, CallsFit
  <2>. QED  BY <2>1 DEF Collects
<1>. QED  BY <1>1, QuietHolder, HolderCallsMove DEF HolderInv

LEMMA HolderNoCall ==
  ASSUME HolderInv, UNCHANGED <<status, bound, rec, pending, mined, call>>
  PROVE  HolderInv' /\ Follows
<1>1. \A w \in Workers : Collects(call[w])' => Collects(call[w])  BY DEF Collects
<1>. QED  BY <1>1, QuietHolder, HolderCallsStay DEF HolderInv

LEMMA HolderEnds ==
  ASSUME ChainInv, HolderInv, UNCHANGED <<status, bound, rec, pending, mined>>, NEW w \in Workers, End(w)
  PROVE  HolderInv' /\ Follows
<1>1. HolderCall(Idle) /\ ~Collects(Idle)  BY DEF HolderCall, Idle, WritingPcs, Collects
<1>. QED  BY <1>1, HolderCallBegins DEF End

\* A step of a call that sends nothing.
LEMMA HolderContinues ==
  ASSUME ChainInv, HolderInv, UNCHANGED <<status, bound, rec, pending, mined>>, NEW w \in Workers, NEW pc, Continue(w, pc),
         pc # "chain", pc \notin {"sweep"} \cup WritingPcs \/ call[w].pc \in WritingPcs
  PROVE  HolderInv' /\ Follows
<1>1. PICK c : c = call[w]  OBVIOUS
<1>2. PICK d : d = [c EXCEPT !.pc = pc]  OBVIOUS
<1>3. HolderCall(c) /\ "pc" \in DOMAIN c  BY <1>1 DEF ChainInv, CallsFit, CallFits, HolderInv, HolderCalls
<1>4. call' = [call EXCEPT ![w] = d]  BY <1>1, <1>2 DEF Continue
<1>5. d.pc = pc /\ d.request = c.request /\ d.to = c.to /\ d.from = c.from /\ d.key = c.key  BY <1>2, <1>3
<1>6. HolderCall(d) /\ ~Collects(d)  BY <1>1, <1>3, <1>5 DEF HolderCall, WritingPcs, Collects
<1>. QED  BY <1>4, <1>6, HolderCallBegins

\* A call that will record a step of the request, begun in the state it leaves.
MayBegin(r, key, to) ==
  /\ r = subject => <<status[r], to>> \in HolderMoves
  /\ r = subject /\ to # "cancelled" => Opened
  /\ r = subject /\ to = "cancelled" /\ status[r] \notin Early => Gone
  /\ key[1] = "authorize_owner" => to = "owner_authorized"
  /\ r = subject /\ key[1] = "cancel_redemption" => Gone

LEMMA HolderBegins ==
  ASSUME ChainInv, HolderInv, UNCHANGED <<status, bound, rec, pending, mined>>, NEW w \in Workers, NEW r \in Requests,
         NEW key, NEW to, NEW pay, NEW pc, pc # "chain", Begin(w, Call(r, key, to, pay, pc)), MayBegin(r, key, to)
  PROVE  HolderInv' /\ Follows
<1>1. PICK c : c = Call(r, key, to, pay, pc)  OBVIOUS
<1>2. c.pc = pc /\ c.request = r /\ c.key = key /\ c.to = to /\ c.from = status[r]  BY <1>1 DEF Call
<1>3. HolderCall(c) /\ ~Collects(c)  BY <1>2 DEF HolderCall, MayBegin, Collects
<1>. QED  BY <1>1, <1>3, HolderCallBegins DEF Begin

LEMMA HolderServerBegins ==
  ASSUME ChainInv, HolderInv, UNCHANGED <<status, bound, rec, pending, mined>>, NEW w \in Workers, NEW r \in Requests,
         NEW key, NEW to, NEW pay, NEW fn, NEW phase, Begin(w, ServerCall(r, key, to, pay, fn, phase)),
         MayBegin(r, key, to), status[r] \notin Early \cup {"cancelled"}
  PROVE  HolderInv' /\ Follows
<1>1. PICK c : c = ServerCall(r, key, to, pay, fn, phase)  OBVIOUS
<1>2. c.request = r /\ c.key = key /\ c.to = to /\ c.from = status[r]  BY <1>1 DEF ServerCall, Call
<1>3. HolderCall(c)  BY <1>2 DEF HolderCall, MayBegin
<1>4. Collects(c) => status[subject] \notin Early \cup {"cancelled"}  BY <1>2 DEF Collects
<1>. QED  BY <1>1, <1>3, <1>4, HolderCallBegins DEF Begin

\* A cancellation that the chain shows is for good.
LEMMA CancelledIsGone ==
  ASSUME ChainInv, HolderInv, status[subject] \notin Early \cup {"cancelled"}, status[subject] \notin Late,
         ~OpenFor(subject)
  PROVE  Gone
<1>1. Opened /\ Opening \notin pending /\ ~(rec.phase >= 3)  BY DEF HolderInv, HolderRow, HolderChain
<1>2. rec.phase \in 0..5 /\ (rec.phase > 0 => rec.workflow = subject)
  BY RedemptionAssumption DEF ChainInv, ChainSound, RecSound, HolderInv, HolderChain
<1>. QED  BY <1>1, <1>2 DEF Gone, OpenFor, ChainPhase

LEMMA OwnerCallsHold ==
  ASSUME ChainInv, HolderInv, NEW w \in Workers, NEW r \in Requests, NEW s \in Sessions, OwnerCalls(w, r, s)
  PROVE  HolderInv' /\ Follows
<1>1. CASE MarkOnchainRequested(w, r, s) \/ ReconcileOpening(w, r, s)
  <2>1. UNCHANGED <<status, bound, rec, pending, mined>>
    BY <1>1, RowAndBinding DEF MarkOnchainRequested, ReconcileOpening, chainVars
  <2>2. /\ status[r] = "committed"
        /\ \E key : key[1] \notin {"authorize_owner", "cancel_redemption"} /\ Begin(w, Call(r, key, "onchain_requested", None, "complete"))
    BY <1>1 DEF MarkOnchainRequested, ReconcileOpening, Key, OpeningFound
  <2>3. r = subject => Opened
    <3>1. CASE MarkOnchainRequested(w, r, s)  BY <3>1 DEF MarkOnchainRequested, Opened, Opening
    <3>2. CASE ReconcileOpening(w, r, s)
      <4>1. rec.phase \in 0..5 /\ rec.phase # 0
        BY <3>2 DEF ReconcileOpening, OpeningFound, ChainPhase, ChainInv, ChainSound, RecSound
      <4>. QED  BY <4>1 DEF HolderInv, HolderChain
    <3>. QED  BY <1>1, <3>1, <3>2
  <2>. QED  BY <2>1, <2>2, <2>3, HolderBegins DEF MayBegin, HolderMoves
<1>2. CASE DiscardRedemption(w, r, s)
  <2>1. UNCHANGED <<status, bound, rec, pending, mined>>
    BY <1>2, RowAndBinding DEF DiscardRedemption, Untouched, chainVars
  <2>2. /\ status[r] \in {"draft", "committed"}
        /\ \E key : key[1] \notin {"authorize_owner", "cancel_redemption"} /\ Begin(w, Call(r, key, "cancelled", None, "complete"))
    BY <1>2 DEF DiscardRedemption, Discardable, Key
  <2>3. \A key : key[1] \notin {"authorize_owner", "cancel_redemption"} => MayBegin(r, key, "cancelled")
    BY <2>2 DEF MayBegin, HolderMoves, Early
  <2>. QED  BY <2>1, <2>2, <2>3, HolderBegins
<1>3. CASE CancelRedemption(w, r, s)
  <2>1. UNCHANGED <<status, bound, rec, pending, mined>>  BY <1>3, RowAndBinding DEF CancelRedemption, chainVars
  <2>2. /\ status[r] \in OWNER_CANCELLABLE_STATES /\ ~OpenFor(r)
        /\ \E key : key[1] # "authorize_owner" /\ Begin(w, Call(r, key, "cancelled", None, "complete"))
    BY <1>3 DEF CancelRedemption, Key
  <2>3. r = subject => Gone
    BY <2>2, CancelledIsGone
       DEF OWNER_CANCELLABLE_STATES, Early, Late, ARRIVAL_FROM_STATES, APPROVAL_PENDING_STATES, AWAITING_OWNER
  <2>4. \A key : key[1] # "authorize_owner" => MayBegin(r, key, "cancelled")
    BY <2>2, <2>3 DEF MayBegin, HolderMoves, OWNER_CANCELLABLE_STATES
  <2>. QED  BY <2>1, <2>2, <2>4, HolderBegins
<1>4. ASSUME NEW p \in Proxies, RecordNomination(w, r, s, p)  PROVE HolderInv' /\ Follows
  <2>1. UNCHANGED <<status, bound, rec, pending, mined>>  BY <1>4, RowAndBinding DEF RecordNomination, chainVars
  <2>2. PICK to : to = status[r]  OBVIOUS
  <2>3. to \in {"onchain_requested", "accepted"} /\ \E key : key[1] \notin {"authorize_owner", "cancel_redemption"} /\ Begin(w, Call(r, key, to, p, "complete"))
    BY <1>4, <2>2 DEF RecordNomination, Key
  <2>4. \A key : key[1] \notin {"authorize_owner", "cancel_redemption"} => MayBegin(r, key, to)
    BY <2>2, <2>3 DEF MayBegin, HolderMoves, HolderInv, HolderRow, Early
  <2>. QED  BY <2>1, <2>3, <2>4, HolderBegins
<1>5. CASE ResendOwnerCode(w, r, s)
  <2>1. UNCHANGED <<status, bound, rec, pending, mined>>  BY <1>5, RowAndBinding DEF ResendOwnerCode, Untouched, chainVars
  <2>2. PICK c : c = Call(r, Key("resend_owner_code", s), status[r], None, "deliver")  OBVIOUS
  <2>3. HolderCall(c) /\ ~Collects(c)  BY <2>2 DEF Call, HolderCall, Collects, WritingPcs
  <2>. QED  BY <1>5, <2>1, <2>2, <2>3, HolderCallBegins DEF ResendOwnerCode, Begin
<1>6. ASSUME NEW g, NEW ch, AuthorizeOwner(w, r, s, g, ch)  PROVE HolderInv' /\ Follows
  <2>1. UNCHANGED <<status, bound, rec, pending, mined>>  BY <1>6, RowAndBinding DEF AuthorizeOwner, Untouched, chainVars
  <2>2. PICK pay : pay = SignedBinding(r)  OBVIOUS
  <2>3. PICK key : key = <<"authorize_owner", ch>>  OBVIOUS
  <2>4. status[r] \in {"proof_approved", "owner_authorized"} /\ Begin(w, Call(r, key, "owner_authorized", pay, "complete"))
    BY <1>6, <2>2, <2>3 DEF AuthorizeOwner, AWAITING_OWNER
  <2>5. key[1] = "authorize_owner"  BY <2>3
  <2>6. MayBegin(r, key, "owner_authorized")
    BY <2>4, <2>5 DEF MayBegin, HolderMoves, HolderInv, HolderRow, Early
  <2>. QED  BY <2>1, <2>4, <2>6, HolderBegins
<1>7. CASE MarkChainBurned(w, r, s)
  <2>1. UNCHANGED <<status, bound, rec, pending, mined>>  BY <1>7, RowAndBinding DEF MarkChainBurned, Untouched, chainVars
  <2>2. /\ status[r] = "owner_authorized"
        /\ \E key : key[1] \notin {"authorize_owner", "cancel_redemption"} /\ Begin(w, Call(r, key, "chain_burned", None, "complete"))
    BY <1>7 DEF MarkChainBurned, Key
  <2>3. \A key : key[1] \notin {"authorize_owner", "cancel_redemption"} => MayBegin(r, key, "chain_burned")
    BY <2>2 DEF MayBegin, HolderMoves, HolderInv, HolderRow, Early
  <2>. QED  BY <2>1, <2>2, <2>3, HolderBegins
<1>. QED  BY <1>1, <1>2, <1>3, <1>4, <1>5, <1>6, <1>7 DEF OwnerCalls

LEMMA StaffCallsHold ==
  ASSUME ChainInv, HolderInv, NEW w \in Workers, NEW r \in Requests, NEW s \in Sessions, StaffCalls(w, r, s)
  PROVE  HolderInv' /\ Follows
<1>1. CASE CustodianCollect(w, r, s)
  <2>1. UNCHANGED <<status, bound, rec, pending, mined>>  BY <1>1, RowAndBinding DEF CustodianCollect, chainVars
  <2>2. status[r] = "accepted"
    BY <1>1 DEF CustodianCollect, Collectable, assertRedemptionTransition, transitionGraph, ARRIVAL_FROM_STATES
  <2>3. \E key : key[1] \notin {"authorize_owner", "cancel_redemption"} /\ Begin(w, ServerCall(r, key, "custodian_collected", None, "startFulfillment", 1))
    BY <1>1 DEF CustodianCollect, ChainPhase, Key
  <2>4. \A key : key[1] \notin {"authorize_owner", "cancel_redemption"} => MayBegin(r, key, "custodian_collected")
    BY <2>2 DEF MayBegin, HolderMoves, HolderInv, HolderRow, Early
  <2>. QED  BY <2>1, <2>2, <2>3, <2>4, HolderServerBegins DEF Early
<1>2. CASE CustodianDispatch(w, r, s)
  <2>1. UNCHANGED <<status, bound, rec, pending, mined>>
    BY <1>2, RowAndBinding DEF CustodianDispatch, Untouched, chainVars
  <2>2. /\ status[r] = "custodian_collected"
        /\ \E key : key[1] \notin {"authorize_owner", "cancel_redemption"} /\ Begin(w, Call(r, key, "custodian_dispatched", None, "complete"))
    BY <1>2 DEF CustodianDispatch, Key
  <2>3. \A key : key[1] \notin {"authorize_owner", "cancel_redemption"} => MayBegin(r, key, "custodian_dispatched")
    BY <2>2 DEF MayBegin, HolderMoves, HolderInv, HolderRow, Early
  <2>. QED  BY <2>1, <2>2, <2>3, HolderBegins
<1>3. ASSUME NEW e \in Evidence, RecordArrival(w, r, s, e)  PROVE HolderInv' /\ Follows
  <2>1. UNCHANGED <<status, bound, rec, pending, mined>>  BY <1>3, RowAndBinding DEF RecordArrival, chainVars
  <2>2. status[r] \in ARRIVAL_FROM_STATES
    BY <1>3 DEF RecordArrival, assertRedemptionTransition, transitionGraph
  <2>3. \E key, pay : key[1] \notin {"authorize_owner", "cancel_redemption"} /\ Begin(w, ServerCall(r, key, "arrived", pay, "submitFulfillmentProof", 2))
    BY <1>3 DEF RecordArrival, ChainPhase, Key
  <2>4. \A key : key[1] \notin {"authorize_owner", "cancel_redemption"} => MayBegin(r, key, "arrived")
    BY <2>2 DEF MayBegin, HolderMoves, HolderInv, HolderRow, Early, ARRIVAL_FROM_STATES
  <2>. QED  BY <2>1, <2>2, <2>3, <2>4, HolderServerBegins DEF Early, ARRIVAL_FROM_STATES
<1>4. ASSUME NEW o \in Orgs, ReleaseOwnerCode(w, r, s, o)  PROVE HolderInv' /\ Follows
  <2>1. UNCHANGED <<status, bound, rec, pending, mined>>  BY <1>4, RowAndBinding DEF ReleaseOwnerCode, chainVars
  <2>2. status[r] \in APPROVAL_PENDING_STATES
    BY <1>4 DEF ReleaseOwnerCode, Releasable, assertRedemptionTransition, transitionGraph, APPROVAL_PENDING_STATES
  <2>3. \E key, pay : key[1] \notin {"authorize_owner", "cancel_redemption"} /\ Begin(w, ServerCall(r, key, "proof_approved", pay, "approveFulfillmentProof", 3))
    BY <1>4 DEF ReleaseOwnerCode, ChainPhase, Key
  <2>4. \A key : key[1] \notin {"authorize_owner", "cancel_redemption"} => MayBegin(r, key, "proof_approved")
    BY <2>2 DEF MayBegin, HolderMoves, HolderInv, HolderRow, Early, APPROVAL_PENDING_STATES
  <2>. QED  BY <2>1, <2>2, <2>3, <2>4, HolderServerBegins DEF Early, APPROVAL_PENDING_STATES
<1>5. ASSUME NEW o \in Orgs, AcceptRedemption(w, r, s, o)  PROVE HolderInv' /\ Follows
  <2>1. UNCHANGED <<status, bound, rec, pending, mined>>
    BY <1>5, RowAndBinding DEF AcceptRedemption, Untouched, chainVars
  <2>2. status[r] = "onchain_requested"
    BY <1>5 DEF AcceptRedemption, Acceptable, assertRedemptionTransition, transitionGraph, ARRIVAL_FROM_STATES
  <2>3. \E key : key[1] \notin {"authorize_owner", "cancel_redemption"} /\ Begin(w, Call(r, key, "accepted", o, "assign"))
    BY <1>5 DEF AcceptRedemption, Key
  <2>4. \A key : key[1] \notin {"authorize_owner", "cancel_redemption"} => MayBegin(r, key, "accepted")
    BY <2>2 DEF MayBegin, HolderMoves, HolderInv, HolderRow, Early
  <2>. QED  BY <2>1, <2>3, <2>4, HolderBegins
<1>. QED  BY <1>1, <1>2, <1>3, <1>4, <1>5 DEF StaffCalls

LEMMA SweepReadsHold ==
  ASSUME ChainInv, HolderInv, NEW w \in Workers, NEW r \in Requests, SweepReads(w, r)
  PROVE  HolderInv' /\ Follows
<1>1. UNCHANGED <<status, bound, rec, pending, mined>>  BY RowAndBinding DEF SweepReads, Untouched, chainVars
<1>2. PICK to \in SweptTo(r) \ {status[r]} : Begin(w, Call(r, Key("sweep", w), to, None, "sweep"))  BY DEF SweepReads
<1>3. ASSUME r = subject  PROVE MayBegin(r, Key("sweep", w), to)
  <2>1. rec.phase \in 0..5 /\ (rec.phase > 0 => rec.workflow = subject /\ Opened)
    BY RedemptionAssumption DEF ChainInv, ChainSound, RecSound, HolderInv, HolderChain
  <2>2. status[r] \in {"committed", "onchain_requested", "accepted"} /\ ~(rec.phase >= 3)
    BY <1>2, <1>3 DEF SweptTo, HolderInv, HolderRow, Late, ARRIVAL_FROM_STATES, APPROVAL_PENDING_STATES, AWAITING_OWNER
  <2>3. /\ to \in {"onchain_requested", "cancelled"} /\ (to = "onchain_requested" => status[r] = "committed")
        /\ to = "onchain_requested" => rec.phase > 0 \/ Opened
        /\ to = "cancelled" /\ status[r] # "committed" => ~OpenFor(r)
    BY <1>2, <1>3, <2>1, <2>2
       DEF SweptTo, ByRegistry, ByEvents, ChainPhase, Opened, Opening, OpenFor
  <2>4. to = "cancelled" /\ status[r] \notin Early => Gone
    BY <1>3, <2>2, <2>3, CancelledIsGone
       DEF Early, Late, ARRIVAL_FROM_STATES, APPROVAL_PENDING_STATES, AWAITING_OWNER
  <2>. QED  BY <1>3, <2>1, <2>2, <2>3, <2>4 DEF MayBegin, HolderMoves, Key
<1>4. ASSUME r # subject  PROVE MayBegin(r, Key("sweep", w), to)  BY <1>4 DEF MayBegin, Key
<1>. QED  BY <1>1, <1>2, <1>3, <1>4, HolderBegins

-----------------------------------------------------------------------------
(* Steps of the request's row. *)

LEMMA StepsOf ==
  /\ \A st \in {"none", "draft", "committed", "onchain_requested", "cancelled"} : completedSteps(st) = 0
  /\ completedSteps("accepted") = 1 /\ completedSteps("custodian_collected") = 2
  /\ \A st \in ARRIVAL_FROM_STATES : completedSteps(st) = 3
  /\ \A st \in APPROVAL_PENDING_STATES \cup {"proof_approved"} : completedSteps(st) = 4
  /\ completedSteps("owner_authorized") = 5 /\ completedSteps("chain_burned") = 6
BY DEF completedSteps, ARRIVAL_FROM_STATES, APPROVAL_PENDING_STATES

LEMMA TokenIs ==
  ASSUME ChainInv
  PROVE  /\ At(subject, 5) => TokenPlace(subject) = "burned"
         /\ \A k \in 2..5 : At(subject, k) => TokenPlace(subject) \in {"released", "burned"}
BY DEF ChainInv, ChainSound, RecSound, At, TokenPlace, ChainPhase

\* Each step of the row is one the tracker promises, or shows nothing.
LEMMA RowStepFollows ==
  ASSUME ChainInv, rec' = rec, NEW from, NEW to, status[subject] = from, status'[subject] = to, CameTo(subject, to),
         <<from, to>> \in HolderMoves \cup {<<"none", "draft">>, <<"draft", "committed">>}
                          \cup (AWAITING_OWNER \X {"chain_burned"})
  PROVE  Follows
<1>1. PICK step, step2 : step = completedSteps(from) /\ step2 = completedSteps(to)  OBVIOUS
<1>2. PICK token : token = TokenPlace(subject) /\ TokenPlace(subject)' = token  BY DEF TokenPlace
<1>3. CASE <<from, to>> \in {<<"none", "draft">>, <<"draft", "committed">>, <<"committed", "onchain_requested">>,
                             <<"onchain_requested", "onchain_requested">>, <<"accepted", "accepted">>,
                             <<"owner_authorized", "owner_authorized">>}
                            \cup (APPROVAL_PENDING_STATES \X {"proof_approved"})
  <2>1. step2 = step /\ from # "cancelled" /\ to # "cancelled"
    BY <1>1, <1>3, StepsOf DEF APPROVAL_PENDING_STATES
  <2>. QED  BY <1>1, <1>2, <2>1 DEF Follows, Tracker!vars, Withdrawn
<1>4. CASE <<from, to>> \in {"draft", "committed", "onchain_requested", "accepted"} \X {"cancelled"}
  <2>1. step \in {0, 1} /\ step2 = 0 /\ from # "cancelled" /\ to = "cancelled"  BY <1>1, <1>4, StepsOf
  <2>2. Tracker!Withdraw  BY <1>1, <1>2, <2>1 DEF Tracker!Withdraw, Withdrawn
  <2>. QED  BY <2>2 DEF Follows, Tracker!Next
<1>5. CASE <<from, to>> \in {<<"onchain_requested", "accepted">>, <<"accepted", "custodian_collected">>,
                             <<"custodian_collected", "custodian_dispatched">>,
                             <<"proof_approved", "owner_authorized">>}
                            \cup (ARRIVAL_FROM_STATES \X {"arrived"})
  <2>1. step \in 0..4 /\ step2 = step + 1 /\ from # "cancelled" /\ to # "cancelled"
    BY <1>1, <1>5, StepsOf DEF ARRIVAL_FROM_STATES, APPROVAL_PENDING_STATES
  <2>2. step2 >= 2 => Reached(to) \in 2..5
    BY <1>1, <1>5, StepsOf, ReachedIs DEF ARRIVAL_FROM_STATES, APPROVAL_PENDING_STATES
  <2>3. step2 >= 2 => token \in {"released", "burned"}  BY <1>2, <2>2, TokenIs DEF CameTo
  <2>4. Tracker!Advance  BY <1>1, <1>2, <2>1, <2>3 DEF Tracker!Advance, Withdrawn
  <2>. QED  BY <2>4 DEF Follows, Tracker!Next
<1>6. CASE <<from, to>> \in AWAITING_OWNER \X {"chain_burned"}
  <2>1. step \in {4, 5} /\ step2 = 6 /\ from # "cancelled" /\ to = "chain_burned"
    BY <1>1, <1>6, StepsOf DEF AWAITING_OWNER
  <2>2. token = "burned"  BY <1>2, <2>1, ReachedIs, TokenIs DEF CameTo
  <2>3. Tracker!RecordBurn  BY <1>1, <1>2, <2>1, <2>2 DEF Tracker!RecordBurn, Withdrawn
  <2>. QED  BY <2>3 DEF Follows, Tracker!Next
<1>. QED  BY <1>3, <1>4, <1>5, <1>6 DEF HolderMoves, AWAITING_OWNER

LEMMA RowStepHolds ==
  ASSUME HolderInv, UNCHANGED <<rec, pending, mined>>, \A w \in Workers : Collects(call[w])' => Collects(call[w]),
         NEW from, NEW to, status[subject] = from, status'[subject] = to,
         <<from, to>> \in HolderMoves \cup {<<"none", "draft">>, <<"draft", "committed">>}
                          \cup (AWAITING_OWNER \X {"chain_burned"}),
         to \notin Early \cup {"cancelled"} => Opened, to = "cancelled" /\ from \notin Early => Gone,
         \/ bound'[subject].authorization = bound[subject].authorization
         \/ to = "owner_authorized"
  PROVE  /\ HolderChain' /\ HolderRow'
         /\ (Opened => Opened') /\ (Gone => Gone') /\ (status[subject] \in Late => status'[subject] \in Late)
<1>1. Opening' = Opening  BY DEF Opening, Tx
<1>2. (Opened' <=> Opened) /\ (Gone' <=> Gone)  BY <1>1 DEF Opened, Gone
<1>3. /\ from \in Late => to \in Late
      /\ from \in {"owner_authorized", "chain_burned"} => to \in {"owner_authorized", "chain_burned"}
      /\ from \in AWAITING_OWNER \cup {"chain_burned"} => to \in AWAITING_OWNER \cup {"chain_burned"}
      /\ to \in Early => from \in Early
  BY DEF HolderMoves, Late, AWAITING_OWNER, ARRIVAL_FROM_STATES, APPROVAL_PENDING_STATES, Early
<1>4. HolderChain'
  <2>1. ASSUME NEW tx \in pending, HolderTx(tx)  PROVE HolderTx(tx)'  BY <1>3, <2>1 DEF HolderTx
  <2>. QED  BY <1>1, <1>2, <2>1 DEF HolderInv, HolderChain
<1>5. NoCollection => NoCollection'  BY DEF NoCollection
<1>6. HolderRow'  BY <1>2, <1>3, <1>5 DEF HolderInv, HolderRow
<1>. QED  BY <1>2, <1>3, <1>4, <1>6

LEMMA CompleteHolds ==
  ASSUME ChainInv, HolderInv, NEW w \in Workers, complete_redemption_transition(w)
  PROVE  HolderInv' /\ Follows
<1>1. PICK c : c = call[w]  OBVIOUS
<1>2. PICK r \in Requests : r = c.request /\ CameTo(r, c.to)
  BY <1>1 DEF ChainInv, CallsFit, CallFits, WritingPcs, complete_redemption_transition
<1>3. PICK b : b = Rebound(bound[r], c)  OBVIOUS
<1>4. /\ UNCHANGED <<rec, pending, mined>>
      /\ \/ UNCHANGED <<status, bound>>
         \/ status[r] = c.from /\ status' = [status EXCEPT ![r] = c.to] /\ bound' = [bound EXCEPT ![r] = b]
      /\ \E pc \in {"deliver", "invalidate", "reconcile"} : Continue(w, pc) \/ End(w)
  <2>1. AfterComplete(c) \in {"deliver", "invalidate", "reconcile", "end"}  BY DEF AfterComplete
  <2>2. /\ UNCHANGED <<rec, pending, mined>>
        /\ \/ AfterComplete(c) # "end" /\ Continue(w, AfterComplete(c))
           \/ End(w)
    BY <1>1 DEF complete_redemption_transition, chainVars
  <2>3. \/ UNCHANGED <<status, bound>>
        \/ status[r] = c.from /\ status' = [status EXCEPT ![r] = c.to] /\ bound' = [bound EXCEPT ![r] = b]
    BY <1>1, <1>2, <1>3 DEF complete_redemption_transition
  <2>. QED  BY <2>1, <2>2, <2>3
<1>5. PICK d : /\ call' = [call EXCEPT ![w] = d] /\ d.pc \notin WritingPcs \cup {"sweep"}
  <2>1. CASE End(w)
    <3>1. Idle.pc \notin WritingPcs \cup {"sweep"}  BY DEF Idle, WritingPcs
    <3>. QED  BY <2>1, <3>1 DEF End
  <2>2. ASSUME NEW pc \in {"deliver", "invalidate", "reconcile"}, Continue(w, pc)
        PROVE  \E d : call' = [call EXCEPT ![w] = d] /\ d.pc \notin WritingPcs \cup {"sweep"}
    <3>1. PICK e : e = [c EXCEPT !.pc = pc]  OBVIOUS
    <3>2. "pc" \in DOMAIN c  BY <1>1 DEF ChainInv, CallsFit, CallFits
    <3>3. e.pc = pc  BY <3>1, <3>2
    <3>4. call' = [call EXCEPT ![w] = e]  BY <1>1, <2>2, <3>1 DEF Continue
    <3>. QED  BY <3>3, <3>4 DEF WritingPcs
  <2>. QED  BY <1>4, <2>1, <2>2
<1>6. HolderCall(d) /\ ~Collects(d)  BY <1>5 DEF HolderCall, Collects, WritingPcs
<1>7. \A x \in Workers : Collects(call[x])' => Collects(call[x])
  <2>1. call'[w] = d /\ \A x \in Workers \ {w} : call'[x] = call[x]  BY <1>5 DEF ChainInv, CallsFit
  <2>. QED  BY <1>6, <2>1 DEF Collects
<1>8. CASE status'[subject] = status[subject] /\ bound'[subject] = bound[subject]
  BY <1>4, <1>5, <1>6, <1>7, <1>8, QuietHolder, HolderCallsMove DEF HolderInv
<1>9. CASE r = subject /\ status[r] = c.from /\ status' = [status EXCEPT ![r] = c.to] /\ bound' = [bound EXCEPT ![r] = b]
  <2>1. status'[r] = c.to /\ bound'[r] = b  BY <1>9 DEF ChainInv, RowsBehind
  <2>2. HolderCall(c) /\ c.pc = "complete"  BY <1>1 DEF HolderInv, HolderCalls, complete_redemption_transition
  <2>3. /\ <<c.from, c.to>> \in HolderMoves /\ (c.to # "cancelled" => Opened)
        /\ c.to = "cancelled" /\ c.from \notin Early => Gone
        /\ c.key[1] = "authorize_owner" => c.to = "owner_authorized"
    BY <1>2, <1>9, <2>2 DEF HolderCall, WritingPcs
  <2>4. b.authorization = bound[r].authorization \/ c.to = "owner_authorized"
    <3>1. PICK old : old = bound[r]  OBVIOUS
    <3>2. DOMAIN old = DOMAIN Unbound  BY <3>1 DEF ChainInv, RowsBehind, RowBehind
    <3>3. b.authorization = old.authorization \/ c.key[1] = "authorize_owner"  BY <1>3, <3>1, <3>2, Rebinds
    <3>. QED  BY <2>3, <3>1, <3>3
  <2>5. PICK from, to : from = c.from /\ to = c.to  OBVIOUS
  <2>6. Follows  BY <1>2, <1>4, <1>9, <2>1, <2>3, <2>5, RowStepFollows
  <2>7. /\ HolderChain' /\ HolderRow'
        /\ (Opened => Opened') /\ (Gone => Gone') /\ (status[subject] \in Late => status'[subject] \in Late)
    BY <1>4, <1>7, <1>9, <2>1, <2>3, <2>4, <2>5, RowStepHolds
  <2>. QED  BY <1>5, <1>6, <2>6, <2>7, HolderCallsMove DEF HolderInv
<1>. QED
  <2>1. subject \in Requests  BY RedemptionAssumption
  <2>2. r # subject => status'[subject] = status[subject] /\ bound'[subject] = bound[subject]
    BY <1>4, <2>1 DEF ChainInv, RowsBehind
  <2>. QED  BY <1>4, <1>8, <1>9, <2>2

LEMMA SweepWritesHold ==
  ASSUME ChainInv, HolderInv, NEW w \in Workers, SweepWrites(w)
  PROVE  HolderInv' /\ Follows
<1>1. PICK c : c = call[w]  OBVIOUS
<1>2. PICK r \in Requests : r = c.request /\ Reached(c.to) = 0
  BY <1>1 DEF ChainInv, CallsFit, CallFits, SweepWrites
<1>3. call' = [call EXCEPT ![w] = Idle] /\ bound' = bound /\ UNCHANGED <<rec, pending, mined>>
  BY DEF SweepWrites, chainVars, End
<1>4. HolderCall(Idle) /\ ~Collects(Idle)  BY DEF HolderCall, Idle, WritingPcs, Collects
<1>5. \A x \in Workers : Collects(call[x])' => Collects(call[x])
  <2>1. call'[w] = Idle /\ \A x \in Workers \ {w} : call'[x] = call[x]  BY <1>3 DEF ChainInv, CallsFit
  <2>. QED  BY <1>4, <2>1 DEF Collects
<1>6. CASE status'[subject] = status[subject]
  BY <1>3, <1>4, <1>5, <1>6, QuietHolder, HolderCallsMove DEF HolderInv
<1>7. CASE r = subject /\ status[r] = c.from /\ status' = [status EXCEPT ![r] = c.to]
  <2>1. status'[r] = c.to  BY <1>7 DEF ChainInv, RowsBehind
  <2>2. HolderCall(c) /\ c.pc = "sweep"  BY <1>1 DEF HolderInv, HolderCalls, SweepWrites
  <2>3. /\ <<c.from, c.to>> \in HolderMoves /\ (c.to # "cancelled" => Opened)
        /\ c.to = "cancelled" /\ c.from \notin Early => Gone
    BY <1>2, <1>7, <2>2 DEF HolderCall
  <2>4. PICK from, to : from = c.from /\ to = c.to  OBVIOUS
  <2>5. CameTo(subject, to)  BY <1>2, <2>4 DEF CameTo
  <2>6. Follows  BY <1>3, <1>7, <2>1, <2>3, <2>4, <2>5, RowStepFollows
  <2>7. /\ HolderChain' /\ HolderRow'
        /\ (Opened => Opened') /\ (Gone => Gone') /\ (status[subject] \in Late => status'[subject] \in Late)
    BY <1>3, <1>5, <1>7, <2>1, <2>3, <2>4, RowStepHolds
  <2>. QED  BY <1>3, <1>4, <2>6, <2>7, HolderCallsMove DEF HolderInv
<1>8. \/ status' = status
      \/ status[r] = c.from /\ status' = [status EXCEPT ![r] = c.to]
  BY <1>1, <1>2 DEF SweepWrites
<1>. QED
  <2>1. subject \in Requests  BY RedemptionAssumption
  <2>2. r # subject => status'[subject] = status[subject]  BY <1>8, <2>1 DEF ChainInv, RowsBehind
  <2>. QED  BY <1>6, <1>7, <1>8, <2>2

\* A row that moves without a call: a draft, or a recovery that was executed.
LEMMA RowAloneHolds ==
  ASSUME ChainInv, HolderInv, NEW r \in Requests, NEW to, UNCHANGED <<bound, call, rec, pending, mined>>,
         status' = [status EXCEPT ![r] = to], CameTo(r, to),
         \/ <<status[r], to>> \in {<<"none", "draft">>, <<"draft", "committed">>}
         \/ <<status[r], to>> \in AWAITING_OWNER \X {"chain_burned"}
  PROVE  HolderInv' /\ Follows
<1>1. \A w \in Workers : Collects(call[w])' => Collects(call[w])  BY DEF Collects
<1>2. subject \in Requests  BY RedemptionAssumption
<1>3. CASE r # subject
  <2>1. status'[subject] = status[subject]  BY <1>2, <1>3 DEF ChainInv, RowsBehind
  <2>. QED  BY <1>1, <2>1, QuietHolder, HolderCallsStay DEF HolderInv
<1>4. CASE r = subject
  <2>1. PICK from : from = status[subject]  OBVIOUS
  <2>2. status'[subject] = to  BY <1>4 DEF ChainInv, RowsBehind
  <2>3. to # "cancelled" /\ (to \notin Early => Opened)
    BY <1>4 DEF Early, AWAITING_OWNER, HolderInv, HolderRow
  <2>4. Follows  BY <1>4, <2>1, <2>2, RowStepFollows
  <2>5. /\ HolderChain' /\ HolderRow'
        /\ (Opened => Opened') /\ (Gone => Gone') /\ (status[subject] \in Late => status'[subject] \in Late)
    BY <1>1, <1>4, <2>1, <2>2, <2>3, RowStepHolds
  <2>. QED  BY <2>4, <2>5, HolderCallsStay DEF HolderInv
<1>. QED  BY <1>3, <1>4

LEMMA RecoveryHolds ==
  ASSUME ChainInv, HolderInv, NEW r \in Requests, NEW a, ProposeRecovery(r, a) \/ ApproveRecovery(r, a) \/ ExecuteRecovery(r, a)
  PROVE  HolderInv' /\ Follows
<1>1. CASE ProposeRecovery(r, a) \/ ApproveRecovery(r, a)
  <2>1. UNCHANGED <<status, bound, call, rec, pending, mined>>
    BY <1>1 DEF ProposeRecovery, ApproveRecovery, chainVars
  <2>. QED  BY <2>1, HolderNoCall
<1>2. CASE ExecuteRecovery(r, a)
  <2>1. /\ UNCHANGED <<bound, call, rec, pending, mined>> /\ status' = [status EXCEPT ![r] = "chain_burned"]
        /\ status[r] \in AWAITING_OWNER /\ Tx("executeRecovery", r, a) \in mined
    BY <1>2 DEF ExecuteRecovery, chainVars
  <2>2. PICK tx : tx = Tx("executeRecovery", r, a)  OBVIOUS
  <2>3. tx.fn = "executeRecovery" /\ tx.request = r /\ TxDone(tx)  BY <2>1, <2>2 DEF Tx, ChainInv, ChainSound
  <2>4. CameTo(r, "chain_burned")  BY <2>3, ReachedIs DEF TxDone, CameTo
  <2>. QED  BY <2>1, <2>4, RowAloneHolds
<1>. QED  BY <1>1, <1>2

LEMMA DraftHolds ==
  ASSUME ChainInv, HolderInv, NEW r \in Requests, CreateDraft(r) \/ CommitDraft(r)
  PROVE  HolderInv' /\ Follows
<1>1. UNCHANGED <<bound, call, rec, pending, mined>>  BY DEF CreateDraft, CommitDraft, chainVars
<1>2. PICK to : /\ status' = [status EXCEPT ![r] = to] /\ to \in {"draft", "committed"}
                /\ <<status[r], to>> \in {<<"none", "draft">>, <<"draft", "committed">>}
  BY DEF CreateDraft, CommitDraft
<1>3. CameTo(r, to)  BY <1>2, ReachedIs DEF CameTo
<1>. QED  BY <1>1, <1>2, <1>3, RowAloneHolds

-----------------------------------------------------------------------------
(* Steps of the chain. *)

\* A write is sent by the owner, by an approver or by a call that then awaits it.
LEMMA SendHolds ==
  ASSUME ChainInv, HolderInv, UNCHANGED <<status, bound>>, NEW tx, TxFits(tx), Send(tx), StartsAnew, OpenedBy(subject),
         tx.request = subject => /\ tx.fn = "submitFulfillmentProof" => status[subject] \in Late
                                 /\ tx.fn = "finalizeRedemption" => status[subject] \in {"owner_authorized", "chain_burned"}
                                 /\ tx.fn = "executeRecovery" => status[subject] \in AWAITING_OWNER \cup {"chain_burned"}
                                 /\ tx.fn = "startFulfillment" => ~NoCollection,
         \A w \in Workers : Collects(call[w])' => Collects(call[w])
  PROVE  /\ HolderChain' /\ HolderRow' /\ Follows
         /\ (Opened => Opened') /\ (Gone => Gone') /\ (status[subject] \in Late => status'[subject] \in Late)
<1>1. pending' = pending \cup {tx} /\ rec' = rec /\ mined' = mined  BY DEF Send
<1>2. Opening' = Opening  BY DEF Opening, Tx
<1>3. Opened' <=> Opened  BY <1>1, <1>2 DEF Opened
<1>4. Opened => Opening \notin pending'
  <2>1. subject \in Requests  BY RedemptionAssumption
  <2>. QED  BY <2>1, <1>1 DEF StartsAnew, Opening, Opened, HolderInv, HolderChain
<1>5. Gone => Gone'  BY <1>1, <1>2, <1>3, <1>4 DEF Gone
<1>6. tx.fn = "openRedemption" => tx.request = subject  BY <1>1 DEF OpenedBy
<1>7. HolderChain'
  <2>1. \A t \in pending' : HolderTx(t)  BY <1>1, <1>6 DEF HolderTx, HolderInv, HolderChain
  <2>2. \A t : HolderTx(t) => HolderTx(t)'  BY DEF HolderTx
  <2>. QED  BY <1>1, <1>2, <1>3, <1>4, <2>1, <2>2 DEF HolderInv, HolderChain
<1>8. NoCollection => NoCollection'  BY <1>1 DEF NoCollection
<1>9. HolderRow'  BY <1>1, <1>3, <1>5, <1>8 DEF HolderInv, HolderRow
<1>. QED  BY <1>1, <1>3, <1>5, <1>7, <1>9, Stutters

LEMMA ServerStepHolds ==
  ASSUME ChainInv, HolderInv, StartsAnew, OpenedBy(subject), NEW w \in Workers, runServerStep(w) \/ ServerReceipt(w)
  PROVE  HolderInv' /\ Follows
<1>1. PICK c : c = call[w]  OBVIOUS
<1>2. /\ c.pc \in {"chain", "receipt"} /\ c.request \in Requests /\ <<c.to, c.fn, c.phase>> \in ServerWrites
      /\ "pc" \in DOMAIN c
  BY <1>1 DEF ChainInv, CallsFit, CallFits, WritingPcs, runServerStep, ServerReceipt
<1>3. UNCHANGED <<status, bound>>  BY RowAndBinding DEF runServerStep, ServerReceipt, Untouched
<1>4. CASE End(w) /\ UNCHANGED chainVars  BY <1>3, <1>4, HolderEnds DEF chainVars
<1>5. CASE Continue(w, "complete") /\ UNCHANGED chainVars
  <2>1. call[w].pc \in WritingPcs  BY <1>1, <1>2 DEF WritingPcs
  <2>. QED  BY <1>3, <1>5, <2>1, HolderContinues DEF chainVars
<1>6. CASE c.pc = "chain" /\ Owed(c.request, c.phase) /\ Send(Tx(c.fn, c.request, c.pay)) /\ Continue(w, "receipt")
  <2>1. PICK tx : tx = Tx(c.fn, c.request, c.pay)  OBVIOUS
  <2>2. tx.fn = c.fn /\ tx.request = c.request  BY <2>1 DEF Tx
  <2>3. TxFits(tx)  BY <1>2, <1>6, <2>2 DEF TxFits, Writes, ServerWrites, Owed, At
  <2>4. PICK d : d = [c EXCEPT !.pc = "receipt"]  OBVIOUS
  <2>5. d.pc = "receipt" /\ d.request = c.request /\ d.to = c.to /\ d.from = c.from /\ d.key = c.key  BY <1>2, <2>4
  <2>6. call' = [call EXCEPT ![w] = d]  BY <1>1, <1>6, <2>4 DEF Continue
  <2>7. HolderCall(c)  BY <1>1 DEF HolderInv, HolderCalls
  <2>8. HolderCall(d) /\ ~Collects(d)  BY <1>6, <2>5, <2>7 DEF HolderCall, WritingPcs, Collects
  <2>9. \A x \in Workers : Collects(call[x])' => Collects(call[x])
    <3>1. call'[w] = d /\ \A x \in Workers \ {w} : call'[x] = call[x]  BY <2>6 DEF ChainInv, CallsFit
    <3>. QED  BY <2>8, <3>1 DEF Collects
  <2>10. tx.request = subject /\ tx.fn = "submitFulfillmentProof" => status[subject] \in Late
    <3>. SUFFICES ASSUME tx.request = subject, tx.fn = "submitFulfillmentProof"  PROVE status[subject] \in Late
      OBVIOUS
    <3>1. c.to = "arrived"  BY <1>2, <2>2 DEF ServerWrites
    <3>2. <<c.from, c.to>> \in HolderMoves /\ (c.from \in Late => status[subject] \in Late)
      BY <1>6, <2>2, <2>7 DEF HolderCall, WritingPcs
    <3>. QED  BY <3>1, <3>2 DEF HolderMoves, Late, APPROVAL_PENDING_STATES
  <2>11. tx.request = subject /\ tx.fn = "startFulfillment" => ~NoCollection
    BY <1>1, <1>6, <2>2 DEF NoCollection, Collects
  <2>12. tx.fn \notin {"finalizeRedemption", "executeRecovery"}  BY <1>2, <2>2 DEF ServerWrites
  <2>13. /\ HolderChain' /\ HolderRow' /\ Follows
         /\ (Opened => Opened') /\ (Gone => Gone') /\ (status[subject] \in Late => status'[subject] \in Late)
    BY <1>3, <1>6, <2>1, <2>3, <2>9, <2>10, <2>11, <2>12, SendHolds
  <2>. QED  BY <2>6, <2>8, <2>13, HolderCallsMove DEF HolderInv
<1>7. CASE runServerStep(w)  BY <1>1, <1>4, <1>5, <1>6, <1>7 DEF runServerStep
<1>8. CASE ServerReceipt(w)
  <2>1. UNCHANGED chainVars  BY <1>8 DEF ServerReceipt, Untouched
  <2>. QED  BY <1>1, <1>4, <1>5, <1>8, <2>1 DEF ServerReceipt
<1>. QED  BY <1>7, <1>8

LEMMA OwnerSendsHold ==
  ASSUME ChainInv, HolderInv, StartsAnew, OpenedBy(subject), NEW r \in Requests, OwnerSends(r)
  PROVE  HolderInv' /\ Follows
<1>1. UNCHANGED <<status, bound, call>>  BY RowAndBinding DEF OwnerSends
<1>2. PICK fn, arg : /\ Send(Tx(fn, r, arg))
                     /\ \/ fn = "openRedemption" /\ arg = None
                        \/ fn \in {"cancelRedemption", "setCollectorCommitment"}
                        \/ fn = "finalizeRedemption" /\ bound[r].authorization # None /\ arg = bound[r].authorization
  BY DEF OwnerSends
<1>3. PICK tx : tx = Tx(fn, r, arg)  OBVIOUS
<1>4. tx.fn = fn /\ tx.request = r /\ tx.arg = arg  BY <1>3 DEF Tx
<1>5. TxFits(tx)  BY <1>2, <1>3, <1>4 DEF TxFits, Writes, ChainInv, RowsBehind, RowBehind
<1>6. tx.request = subject /\ fn = "finalizeRedemption" => status[subject] \in {"owner_authorized", "chain_burned"}
  BY <1>2, <1>4 DEF HolderInv, HolderRow
<1>7. \A w \in Workers : Collects(call[w])' => Collects(call[w])  BY <1>1 DEF Collects
<1>8. /\ HolderChain' /\ HolderRow' /\ Follows
      /\ (Opened => Opened') /\ (Gone => Gone') /\ (status[subject] \in Late => status'[subject] \in Late)
  BY <1>1, <1>2, <1>3, <1>4, <1>5, <1>6, <1>7, SendHolds
<1>. QED  BY <1>1, <1>8, HolderCallsStay DEF HolderInv

LEMMA ApproverSendsHold ==
  ASSUME ChainInv, HolderInv, StartsAnew, OpenedBy(subject), NEW r \in Requests, NEW a, ApproverSends(r, a)
  PROVE  HolderInv' /\ Follows
<1>1. UNCHANGED <<status, bound, call>>  BY RowAndBinding DEF ApproverSends
<1>2. PICK fn \in {"proposeRecovery", "approveRecovery", "executeRecovery"} : Send(Tx(fn, r, a))
  BY DEF ApproverSends
<1>3. PICK tx : tx = Tx(fn, r, a)  OBVIOUS
<1>4. tx.fn = fn /\ tx.request = r  BY <1>3 DEF Tx
<1>5. At(r, 4) /\ status[r] \in AWAITING_OWNER
  <2>1. Reached(status[r]) = 4  BY ReachedIs DEF ApproverSends, AWAITING_OWNER
  <2>. QED  BY <2>1 DEF ChainInv, RowsBehind, RowBehind, CameTo, ApproverSends
<1>6. TxFits(tx)  BY <1>2, <1>4, <1>5 DEF TxFits, Writes
<1>7. \A w \in Workers : Collects(call[w])' => Collects(call[w])  BY <1>1 DEF Collects
<1>8. /\ HolderChain' /\ HolderRow' /\ Follows
      /\ (Opened => Opened') /\ (Gone => Gone') /\ (status[subject] \in Late => status'[subject] \in Late)
  BY <1>1, <1>2, <1>3, <1>4, <1>5, <1>6, <1>7, SendHolds
<1>. QED  BY <1>1, <1>8, HolderCallsStay DEF HolderInv

\* Where the token is, by the phase of the record.
LEMMA TokenByPhase ==
  ASSUME rec.workflow \in {None, subject}, rec.phase \in 0..5, rec.phase = 0 <=> rec.workflow = None
  PROVE  /\ rec.phase = 0 => TokenPlace(subject) = "free"
         /\ rec.phase = 1 => TokenPlace(subject) = "locked"
         /\ rec.phase \in 2..4 => TokenPlace(subject) = "released"
         /\ rec.phase = 5 => TokenPlace(subject) = "burned"
<1>1. subject # None  BY RedemptionAssumption
<1>. QED  BY <1>1 DEF TokenPlace, ChainPhase

\* What the holder is shown while a write is mined.
LEMMA MiningHolds ==
  ASSUME ChainInv, ChainInv', HolderInv, UNCHANGED <<status, bound, call>>, NEW tx \in pending, Mine(tx)
  PROVE  HolderInv' /\ Follows
<1>1. PICK st : st = status[subject] /\ status'[subject] = st  OBVIOUS
<1>2. Opening' = Opening  BY DEF Opening, Tx
<1>3. pending' = pending \ {tx} /\ TxFits(tx) /\ HolderTx(tx)
  BY DEF Mine, ChainInv, ChainSound, HolderInv, HolderChain
<1>4. /\ rec.workflow \in {None, subject} /\ rec.phase \in 0..5 /\ (rec.phase = 0 <=> rec.workflow = None)
      /\ rec.phase > 0 => rec.workflow = subject
  BY DEF ChainInv, ChainSound, RecSound, HolderInv, HolderChain
<1>5. rec'.phase \in 0..5 /\ (rec'.phase = 0 <=> rec'.workflow = None)  BY DEF ChainInv, ChainSound, RecSound
<1>6. tx.fn = "openRedemption" => tx = Opening  BY <1>3 DEF TxFits, HolderTx, Opening
<1>7. rec'.workflow \in {None, subject}
  <2>1. tx.fn = "openRedemption" => tx.request = subject  BY <1>3 DEF HolderTx
  <2>2. NoRecord.workflow = None  BY DEF NoRecord
  <2>. QED  BY <1>4, <2>1, <2>2, RecordMoves DEF ChainInv
<1>8. Opened => Opened' /\ Opening \notin pending'
  <2>1. mined \subseteq mined'  BY RecordMoves DEF ChainInv
  <2>. QED  BY <1>2, <1>3, <2>1 DEF Opened, HolderInv, HolderChain
<1>9. rec'.phase > 0 => Opened' /\ Opening \notin pending'
  <2>1. CASE rec.phase > 0  BY <1>8, <2>1 DEF HolderInv, HolderChain
  <2>2. CASE ~(rec.phase > 0) /\ rec'.phase > 0
    <3>1. rec.phase = 0 /\ rec' # rec  BY <1>4, <2>2
    <3>2. NoRecord.phase = 0  BY DEF NoRecord, ChainPhase
    <3>3. tx.fn = "openRedemption" /\ mined' = mined \cup {tx}  BY <2>2, <3>1, <3>2, RecordMoves DEF ChainInv
    <3>. QED  BY <1>2, <1>3, <1>6, <3>3 DEF Opened
  <2>. QED  BY <2>1, <2>2
<1>10. Opened' => Opening \notin pending'
  <2>1. CASE Opened  BY <1>8, <2>1
  <2>2. CASE Opened' /\ ~Opened
    <3>1. tx = Opening  BY <1>2, <2>2, RecordMoves DEF Opened, ChainInv
    <3>. QED  BY <1>3, <3>1
  <2>. QED  BY <2>1, <2>2
<1>11. HolderChain'
  <2>1. \A t \in pending' : HolderTx(t)'  BY <1>3 DEF HolderTx, HolderInv, HolderChain
  <2>. QED  BY <1>2, <1>7, <1>9, <1>10, <2>1 DEF HolderChain
<1>12. Gone => Gone'
  <2>1. Gone => tx.fn # "openRedemption"  BY <1>6 DEF Gone
  <2>2. Gone => rec'.phase = 0
    <3>1. NoRecord.phase = 0  BY DEF NoRecord, ChainPhase
    <3>. QED  BY <2>1, <3>1, RecordMoves DEF Gone, ChainInv
  <2>. QED  BY <1>2, <1>8, <2>2 DEF Gone
<1>13. rec'.phase >= 3 => st \in Late
  <2>1. CASE rec.phase >= 3  BY <1>1, <2>1 DEF HolderInv, HolderRow
  <2>2. CASE ~(rec.phase >= 3) /\ rec'.phase >= 3
    <3>1. NoRecord.phase = 0  BY DEF NoRecord, ChainPhase
    <3>2. tx.fn = "submitFulfillmentProof"  BY <1>4, <2>2, <3>1, RecordMoves DEF ChainInv
    <3>3. tx.request = subject  BY <1>3, <1>4, <3>2 DEF TxFits, At
    <3>. QED  BY <1>1, <1>3, <3>2, <3>3 DEF HolderTx
  <2>. QED  BY <2>1, <2>2
<1>14. HolderRow'
  <2>1. NoCollection => NoCollection'  BY <1>3 DEF NoCollection
  <2>. QED  BY <1>1, <1>8, <1>12, <1>13, <2>1 DEF HolderInv, HolderRow
<1>15. HolderCalls'
  <2>1. status'[subject] \in Late <=> status[subject] \in Late  OBVIOUS
  <2>. QED  BY <1>8, <1>12, <2>1, HolderCallsStay
<1>16. PICK token, token2 : token = TokenPlace(subject) /\ token2 = TokenPlace(subject)'  OBVIOUS
<1>17. /\ rec.phase = 0 => token = "free"
       /\ rec.phase = 1 => token = "locked"
       /\ rec.phase \in 2..4 => token = "released"
       /\ rec.phase = 5 => token = "burned"
  BY <1>4, <1>16, TokenByPhase
<1>18. /\ rec'.phase = 0 => token2 = "free"
       /\ rec'.phase = 1 => token2 = "locked"
       /\ rec'.phase \in 2..4 => token2 = "released"
       /\ rec'.phase = 5 => token2 = "burned"
  <2>1. subject # None  BY RedemptionAssumption
  <2>. QED  BY <1>5, <1>7, <1>16, <2>1 DEF TokenPlace, ChainPhase
<1>19. Follows
  <2>1. UNCHANGED <<completedSteps(status[subject]), Withdrawn(subject)>>  BY DEF Withdrawn
  <2>2. CASE token2 = token  BY <1>16, <2>1, <2>2 DEF Follows, Tracker!vars
  <2>3. CASE rec.phase = 0 /\ rec'.phase = 1
    <3>1. Tracker!Lock  BY <1>16, <1>17, <1>18, <2>1, <2>3 DEF Tracker!Lock
    <3>. QED  BY <3>1 DEF Follows, Tracker!Next
  <2>4. CASE rec.phase = 1 /\ rec'.phase = 0
    <3>1. Tracker!Unlock  BY <1>16, <1>17, <1>18, <2>1, <2>4 DEF Tracker!Unlock
    <3>. QED  BY <3>1 DEF Follows, Tracker!Next
  <2>5. CASE rec.phase = 1 /\ rec'.phase = 2
    <3>1. tx.fn = "startFulfillment"
      <4>1. NoRecord.phase = 0 /\ rec' # rec  BY <2>5 DEF NoRecord, ChainPhase
      <4>. QED  BY <2>5, <4>1, RecordMoves DEF ChainInv
    <3>2. tx.request = subject  BY <1>3, <1>4, <2>5, <3>1, RedemptionAssumption DEF TxFits
    <3>3. ~NoCollection /\ ~Gone  BY <2>5, <3>1, <3>2 DEF NoCollection, Gone
    <3>4. st # "cancelled"  BY <1>1, <3>3 DEF HolderInv, HolderRow
    <3>5. Tracker!Release  BY <1>1, <1>16, <1>17, <1>18, <2>1, <2>5, <3>4 DEF Tracker!Release, Withdrawn
    <3>. QED  BY <3>5 DEF Follows, Tracker!Next
  <2>6. CASE rec.phase = 4 /\ rec'.phase = 5
    <3>1. tx.fn = "executeRecovery" \/ (tx.fn = "finalizeRedemption" /\ tx.arg.workflow = rec.workflow)
      BY <2>6, RecordMoves DEF ChainInv
    <3>2. tx.request = subject  BY <1>3, <1>4, <2>6, <3>1 DEF TxFits, At
    <3>3. st \in AWAITING_OWNER \cup {"chain_burned"}  BY <1>1, <1>3, <3>1, <3>2 DEF HolderTx, AWAITING_OWNER
    <3>4. completedSteps(status[subject]) \in {4, 5, 6}  BY <1>1, <3>3, StepsOf DEF AWAITING_OWNER
    <3>5. Tracker!Burn  BY <1>16, <1>17, <1>18, <2>1, <2>6, <3>4 DEF Tracker!Burn
    <3>. QED  BY <3>5 DEF Follows, Tracker!Next
  <2>7. \/ rec' = rec \/ (rec.phase = 1 /\ rec'.phase = 1)
        \/ (rec.phase = 0 /\ rec'.phase = 1) \/ (rec.phase = 1 /\ rec'.phase = 0)
        \/ (rec.phase = 1 /\ rec'.phase = 2) \/ (rec.phase = 2 /\ rec'.phase = 3)
        \/ (rec.phase = 3 /\ rec'.phase = 4) \/ (rec.phase = 4 /\ rec'.phase = 5)
    <3>1. NoRecord.phase = 0  BY DEF NoRecord, ChainPhase
    <3>. QED  BY <3>1, RecordMoves DEF ChainInv
  <2>8. CASE rec' = rec
    <3>1. token2 = token  BY <1>16, <2>8 DEF TokenPlace
    <3>. QED  BY <2>2, <3>1
  <2>. QED  BY <1>17, <1>18, <2>2, <2>3, <2>4, <2>5, <2>6, <2>7, <2>8
<1>. QED  BY <1>11, <1>14, <1>15, <1>19 DEF HolderInv

-----------------------------------------------------------------------------
(* The refinement. *)

LEMMA WorkerHolds ==
  ASSUME ChainInv, HolderInv, StartsAnew, OpenedBy(subject), NEW w \in Workers, WorkerStep(w) \/ Crash(w)
  PROVE  HolderInv' /\ Follows
<1>1. CASE AssignCustodian(w)
  <2>1. UNCHANGED <<status, bound, rec, pending, mined>>  BY <1>1, RowAndBinding DEF AssignCustodian, chainVars
  <2>2. call[w].pc \in WritingPcs /\ Continue(w, "complete")  BY <1>1 DEF AssignCustodian, WritingPcs
  <2>. QED  BY <2>1, <2>2, HolderContinues
<1>2. CASE InvalidateCodes(w) \/ MailOwnerCode(w) \/ ConsumeChallenge(w) \/ Crash(w)
  <2>1. UNCHANGED <<status, bound, rec, pending, mined>>
    BY <1>2, RowAndBinding DEF InvalidateCodes, MailOwnerCode, ConsumeChallenge, Crash, Untouched, chainVars
  <2>. QED  BY <1>2, <2>1, HolderEnds DEF InvalidateCodes, MailOwnerCode, ConsumeChallenge, Crash
<1>3. CASE ReconcileNomination(w) \/ ConsumeCode(w)
  <2>1. UNCHANGED <<status, bound, rec, pending, mined>>
    BY <1>3, RowAndBinding DEF ReconcileNomination, ConsumeCode, chainVars
  <2>2. End(w) \/ \E pc \in {"consume", "challenge"} : Continue(w, pc)  BY <1>3 DEF ReconcileNomination, ConsumeCode
  <2>. QED  BY <2>1, <2>2, HolderEnds, HolderContinues DEF WritingPcs
<1>4. CASE DeliverOwnerCode(w)
  <2>1. UNCHANGED <<status, bound, rec, pending, mined>>  BY <1>4, RowAndBinding DEF DeliverOwnerCode, chainVars
  <2>2. PICK n : n = code'[call[w].request].gen  OBVIOUS
  <2>3. PICK d : d = [call[w] EXCEPT !.pc = "mail", !.pay = n]  OBVIOUS
  <2>4. call' = [call EXCEPT ![w] = d]  BY <1>4, <2>2, <2>3 DEF DeliverOwnerCode
  <2>5. HolderCall(d) /\ ~Collects(d)  BY <2>3 DEF ChainInv, CallsFit, CallFits, HolderCall, Collects, WritingPcs
  <2>. QED  BY <2>1, <2>4, <2>5, HolderCallBegins
<1>. QED  BY <1>1, <1>2, <1>3, <1>4, CompleteHolds, ServerStepHolds, SweepWritesHold DEF WorkerStep

LEMMA RequestHolds ==
  ASSUME ChainInv, HolderInv, StartsAnew, OpenedBy(subject), NEW r \in Requests, RequestStep(r)
  PROVE  HolderInv' /\ Follows
<1>1. ASSUME CodeTime(r) \/ WrongCode(r)  PROVE HolderInv' /\ Follows
  <2>1. UNCHANGED <<status, bound, rec, pending, mined, call>>  BY <1>1, RowAndBinding DEF CodeTime, WrongCode, chainVars
  <2>. QED  BY <2>1, HolderNoCall
<1>2. ASSUME NEW s, NEW x, PrepareCancellation(r, s) \/ NominateProxy(r, s, x) \/ PrepareOwnerAuthorization(r, s, x)
      PROVE  HolderInv' /\ Follows
  <2>1. UNCHANGED <<status, bound, rec, pending, mined, call>>
    BY <1>2, RowAndBinding DEF PrepareCancellation, NominateProxy, PrepareOwnerAuthorization, chainVars
  <2>. QED  BY <2>1, HolderNoCall
<1>3. ASSUME NEW x, RequestEvidenceUpload(r, x) \/ ConfirmEvidenceUpload(r, x)  PROVE HolderInv' /\ Follows
  <2>1. UNCHANGED <<status, bound, rec, pending, mined, call>>
    BY <1>3, RowAndBinding DEF RequestEvidenceUpload, ConfirmEvidenceUpload, chainVars
  <2>. QED  BY <2>1, HolderNoCall
<1>. QED  BY <1>1, <1>2, <1>3, OwnerSendsHold, ApproverSendsHold, DraftHolds, RecoveryHolds DEF RequestStep

LEMMA HolderInit == Init => HolderInv /\ Tracker!Init
<1>. SUFFICES ASSUME Init  PROVE HolderInv /\ Tracker!Init
  OBVIOUS
<1>1. subject \in Requests /\ subject # None  BY RedemptionAssumption
<1>2. /\ rec.workflow = None /\ rec.phase = 0 /\ pending = {} /\ mined = {} /\ status[subject] = "none"
      /\ bound[subject].authorization = None
  BY <1>1 DEF Init, NoRecord, ChainPhase, Unbound
<1>3. \A w \in Workers : HolderCall(call[w]) /\ ~Collects(call[w])
  <2>1. HolderCall(Idle) /\ ~Collects(Idle)  BY DEF HolderCall, Idle, WritingPcs, Collects
  <2>. QED  BY <2>1 DEF Init
<1>4. ~Opened /\ NoCollection  BY <1>2, <1>3 DEF Opened, NoCollection
<1>5. HolderInv  BY <1>2, <1>3, <1>4 DEF HolderInv, HolderChain, HolderRow, HolderCalls, Early
<1>6. Tracker!Init  BY <1>1, <1>2, StepsOf DEF Tracker!Init, TokenPlace, Withdrawn
<1>. QED  BY <1>5, <1>6

LEMMA HolderStepKeeps ==
  ChainInv /\ ChainInv' /\ HolderInv /\ [Next /\ ReopensSettled /\ StartsAnew /\ OpenedBy(subject)]_vars
    => HolderInv' /\ Follows
<1>. SUFFICES ASSUME ChainInv, ChainInv', HolderInv, [Next /\ ReopensSettled /\ StartsAnew /\ OpenedBy(subject)]_vars
              PROVE  HolderInv' /\ Follows
  OBVIOUS
<1>1. CASE UNCHANGED vars  BY <1>1, HolderNoCall DEF vars, dbVars, chainVars
<1>2. CASE GraceStep
  <2>1. UNCHANGED <<status, bound, rec, pending, mined, call>>  BY <1>2, RowAndBinding DEF GraceStep, GraceEnds
  <2>. QED  BY <2>1, HolderNoCall
<1>3. CASE ChainStep
  <2>1. UNCHANGED <<status, bound, call>>  BY <1>3, RowAndBinding DEF ChainStep
  <2>. QED  BY <1>3, <2>1, MiningHolds DEF ChainStep
<1>. QED  BY <1>1, <1>2, <1>3, OwnerCallsHold, StaffCallsHold, WorkerHolds, SweepReadsHold, RequestHolds DEF Next

\* The redemption implements the tracker: whatever calls, sweeps, receipts and
\* transactions of the holder, the staff and the approvers overlap, get lost or
\* are repeated, the holder sees six steps in order, is never shown a release or
\* a burn before it happened, cannot withdraw once the vault let go, and the
\* token is not burned before the stone was delivered.  The wallet opens the
\* request once, while the row says it is not open yet, and no other request
\* opens the token meanwhile.
THEOREM PromiseIsKept == HolderSpec => KeepsPromise
<1>1. ChainInv /\ [Next /\ ReopensSettled /\ StartsAnew /\ OpenedBy(subject)]_vars => ChainInv'
  BY ChainStepKeeps
<1>2. HolderSpec => [](ChainInv /\ HolderInv)
  BY <1>1, ChainInit, HolderInit, HolderStepKeeps, PTL DEF HolderSpec
<1>3. HolderSpec => Tracker!Init /\ [][Tracker!Next]_(Tracker!vars)
  BY <1>1, <1>2, HolderInit, HolderStepKeeps, PTL DEF HolderSpec, Follows
<1>. QED  BY <1>3 DEF KeepsPromise, Tracker!Spec

-----------------------------------------------------------------------------
(* A withdrawal. *)

\* A withdrawal in the history of the request means that its token is back.
WithdrawalsGone ==
  \A i \in DOMAIN log[subject].events : log[subject].events[i].type = "cancel_redemption" => Gone

LEMMA EventsAdded ==
  ASSUME NEW l, LogSound(l), NEW n, NEW ev
  PROVE  \A i \in DOMAIN AppendWorkflowEvent(l, n, ev).log.events :
           LET e == AppendWorkflowEvent(l, n, ev).log.events[i] IN
           e = ev \/ \E j \in DOMAIN l.events : e = l.events[j]
<1>1. PICK q : q = l.events  OBVIOUS
<1>2. q \in Seq(Values(q)) /\ DOMAIN q = 1..Len(q) /\ Len(q) \in Nat  BY <1>1 DEF LogSound
<1>3. PICK res : res = AppendWorkflowEvent(l, n, ev)  OBVIOUS
<1>4. res.log = l \/ res.log.events = Append(q, ev)
  BY <1>1, <1>3 DEF AppendWorkflowEvent, Appended, Conflict
<1>5. PICK V : V = Values(q) \cup {ev}  OBVIOUS
<1>6. q \in Seq(V) /\ ev \in V
  <2>1. Values(q) \subseteq V  BY <1>5
  <2>. QED  BY <1>2, <1>5, <2>1
<1>7. PICK t : t = Append(q, ev)  OBVIOUS
<1>8. DOMAIN t = 1..(Len(q) + 1) /\ t[Len(q) + 1] = ev /\ \A i \in DOMAIN q : t[i] = q[i]
  BY <1>2, <1>6, <1>7
<1>9. \A i \in DOMAIN t : t[i] = ev \/ \E j \in DOMAIN q : t[i] = q[j]  BY <1>2, <1>8
<1>. QED  BY <1>1, <1>3, <1>4, <1>7, <1>9

LEMMA ChainMoves ==
  ASSUME [Next]_vars  PROVE UNCHANGED <<rec, mined>> \/ \E tx \in pending : Mine(tx)
<1>1. ASSUME NEW w \in Workers, NEW r \in Requests, NEW s \in Sessions, OwnerCalls(w, r, s)  PROVE UNCHANGED <<rec, mined>>
  BY <1>1 DEF OwnerCalls, MarkOnchainRequested, ReconcileOpening, DiscardRedemption, CancelRedemption, RecordNomination,
              ResendOwnerCode, AuthorizeOwner, MarkChainBurned, Untouched, chainVars
<1>2. ASSUME NEW w \in Workers, NEW r \in Requests, NEW s \in Sessions, StaffCalls(w, r, s)  PROVE UNCHANGED <<rec, mined>>
  BY <1>2 DEF StaffCalls, CustodianCollect, CustodianDispatch, RecordArrival, AcceptRedemption, ReleaseOwnerCode, Untouched, chainVars
<1>3. ASSUME NEW w \in Workers, WorkerStep(w) \/ Crash(w)  PROVE UNCHANGED <<rec, mined>>
  BY <1>3 DEF WorkerStep, AssignCustodian, runServerStep, ServerReceipt, complete_redemption_transition, InvalidateCodes,
              DeliverOwnerCode, MailOwnerCode, ReconcileNomination, ConsumeCode, ConsumeChallenge, SweepWrites, Crash,
              Untouched, chainVars, Send
<1>4. ASSUME NEW w \in Workers, NEW r \in Requests, SweepReads(w, r)  PROVE UNCHANGED <<rec, mined>>
  BY <1>4 DEF SweepReads, Untouched, chainVars
<1>5. ASSUME NEW r \in Requests, RequestStep(r)  PROVE UNCHANGED <<rec, mined>>
  BY <1>5 DEF RequestStep, CreateDraft, CommitDraft, OwnerSends, CodeTime, WrongCode, PrepareCancellation, NominateProxy,
              PrepareOwnerAuthorization, RequestEvidenceUpload, ConfirmEvidenceUpload, ApproverSends, ProposeRecovery,
              ApproveRecovery, ExecuteRecovery, chainVars, Send
<1>6. CASE GraceStep  BY <1>6 DEF GraceStep, GraceEnds
<1>7. CASE UNCHANGED vars  BY <1>7 DEF vars, chainVars
<1>. QED  BY <1>1, <1>2, <1>3, <1>4, <1>5, <1>6, <1>7 DEF Next, ChainStep

LEMMA LogMoves ==
  ASSUME [Next]_vars
  PROVE  \/ log' = log
         \/ \E w \in Workers : complete_redemption_transition(w)
         \/ \E r \in Requests, a \in Approvers : ProposeRecovery(r, a) \/ ApproveRecovery(r, a) \/ ExecuteRecovery(r, a)
<1>1. ASSUME NEW w \in Workers, NEW r \in Requests, NEW s \in Sessions, OwnerCalls(w, r, s)  PROVE log' = log
  BY <1>1, RowAndBinding DEF OwnerCalls, MarkOnchainRequested, ReconcileOpening, DiscardRedemption, CancelRedemption,
                             RecordNomination, ResendOwnerCode, AuthorizeOwner, MarkChainBurned, Untouched
<1>2. ASSUME NEW w \in Workers, NEW r \in Requests, NEW s \in Sessions, StaffCalls(w, r, s)  PROVE log' = log
  BY <1>2, RowAndBinding DEF StaffCalls, CustodianCollect, CustodianDispatch, RecordArrival, AcceptRedemption,
                             ReleaseOwnerCode, Untouched
<1>3. ASSUME NEW w \in Workers, WorkerStep(w) \/ Crash(w)
      PROVE  log' = log \/ complete_redemption_transition(w)
  BY <1>3, RowAndBinding DEF WorkerStep, AssignCustodian, runServerStep, ServerReceipt, InvalidateCodes,
              DeliverOwnerCode, MailOwnerCode, ReconcileNomination, ConsumeCode, ConsumeChallenge, SweepWrites, Crash, Untouched
<1>4. ASSUME NEW w \in Workers, NEW r \in Requests, SweepReads(w, r)  PROVE log' = log
  BY <1>4, RowAndBinding DEF SweepReads, Untouched
<1>5. ASSUME NEW r \in Requests, RequestStep(r)
      PROVE  log' = log \/ \E a \in Approvers : ProposeRecovery(r, a) \/ ApproveRecovery(r, a) \/ ExecuteRecovery(r, a)
  BY <1>5, RowAndBinding DEF RequestStep, CreateDraft, CommitDraft, OwnerSends, CodeTime, WrongCode, PrepareCancellation,
              NominateProxy, PrepareOwnerAuthorization, RequestEvidenceUpload, ConfirmEvidenceUpload, ApproverSends
<1>6. CASE GraceStep \/ ChainStep  BY <1>6, RowAndBinding DEF GraceStep, ChainStep
<1>7. CASE UNCHANGED vars  BY <1>7 DEF vars, dbVars
<1>. QED  BY <1>1, <1>2, <1>3, <1>4, <1>5, <1>6, <1>7 DEF Next

LEMMA GoneStays ==
  ASSUME ChainInv, HolderInv, Gone, [Next /\ StartsAnew]_vars  PROVE Gone'
<1>1. Opening' = Opening  BY DEF Opening, Tx
<1>2. CASE UNCHANGED vars  BY <1>1, <1>2 DEF vars, chainVars, Gone, Opened
<1>3. CASE Next /\ StartsAnew
  <2>1. subject \in Requests  BY RedemptionAssumption
  <2>2. Opening \notin pending'  BY <1>3, <2>1 DEF StartsAnew, Gone, Opened, Opening
  <2>3. ASSUME NEW tx \in pending, Mine(tx)  PROVE mined \subseteq mined' /\ rec'.phase = 0
    <3>1. tx.fn # "openRedemption"
      <4>1. TxFits(tx) /\ HolderTx(tx)  BY DEF ChainInv, ChainSound, HolderInv, HolderChain
      <4>. QED  BY <4>1 DEF TxFits, HolderTx, Gone, Opening
    <3>2. NoRecord.phase = 0  BY DEF NoRecord, ChainPhase
    <3>. QED  BY <2>3, <3>1, <3>2, RecordMoves DEF Gone, ChainInv
  <2>4. mined \subseteq mined' /\ rec'.phase = 0  BY <1>3, <2>3, ChainMoves DEF Gone
  <2>. QED  BY <1>1, <2>2, <2>4 DEF Gone, Opened
<1>. QED  BY <1>2, <1>3

LEMMA WithdrawalsStayGone ==
  ASSUME HistoryInv, ChainInv, HolderInv, WithdrawalsGone, [Next /\ StartsAnew]_vars
  PROVE  WithdrawalsGone'
<1>1. Gone => Gone'  BY GoneStays
<1>2. LogSound(log[subject]) /\ subject \in Requests /\ log = [r \in Requests |-> log[r]]
  BY RedemptionAssumption DEF HistoryInv, TablesSound
<1>3. CASE log'[subject] = log[subject]  BY <1>1, <1>3 DEF WithdrawalsGone
<1>4. ASSUME NEW n, NEW ev, ev.type = "cancel_redemption" => Gone,
             log'[subject] = AppendWorkflowEvent(log[subject], n, ev).log
      PROVE  WithdrawalsGone'
  <2>1. PICK l, m : l = log[subject] /\ m = AppendWorkflowEvent(l, n, ev).log /\ log'[subject] = m  BY <1>4
  <2>2. \A i \in DOMAIN m.events : m.events[i] = ev \/ \E j \in DOMAIN l.events : m.events[i] = l.events[j]
    BY <1>2, <2>1, EventsAdded
  <2>3. \A i \in DOMAIN m.events : m.events[i].type = "cancel_redemption" => Gone
    BY <1>4, <2>1, <2>2 DEF WithdrawalsGone
  <2>. QED  BY <1>1, <2>1, <2>3 DEF WithdrawalsGone
<1>5. ASSUME NEW w \in Workers, complete_redemption_transition(w)  PROVE WithdrawalsGone'
  <2>1. PICK c : c = call[w]  OBVIOUS
  <2>2. PICK ev : ev = WorkflowEvent(c.key, c.key[1], c.from, c.to, c.pay)  OBVIOUS
  <2>3. \/ log' = log
        \/ log' = [log EXCEPT ![c.request] = AppendWorkflowEvent(log[c.request], c.version, ev).log]
    BY <1>5, <2>1, <2>2 DEF complete_redemption_transition
  <2>4. ev.type = c.key[1]  BY <2>2 DEF WorkflowEvent
  <2>5. c.request = subject /\ ev.type = "cancel_redemption" => Gone
    BY <1>5, <2>1, <2>4 DEF HolderInv, HolderCalls, HolderCall, complete_redemption_transition, WritingPcs
  <2>6. CASE c.request = subject /\ log' # log
    <3>1. log'[subject] = AppendWorkflowEvent(log[subject], c.version, ev).log  BY <1>2, <2>3, <2>6
    <3>. QED  BY <1>4, <2>5, <2>6, <3>1
  <2>7. CASE c.request # subject \/ log' = log
    <3>1. log'[subject] = log[subject]  BY <1>2, <2>3, <2>7
    <3>. QED  BY <1>3, <3>1
  <2>. QED  BY <2>6, <2>7
<1>6. ASSUME NEW r \in Requests, NEW a, ProposeRecovery(r, a) \/ ApproveRecovery(r, a) \/ ExecuteRecovery(r, a)
      PROVE  WithdrawalsGone'
  <2>1. PICK action, to : /\ log' = [log EXCEPT ![r] = RecoveryEvent(r, action, a, to).log]
                          /\ action \in {"propose_recovery", "approve_recovery", "execute_recovery"}
    BY <1>6 DEF ProposeRecovery, ApproveRecovery, ExecuteRecovery
  <2>2. CASE r = subject
    <3>1. PICK ev : ev = WorkflowEvent(<<action, a>>, action, status[r], to, None)  OBVIOUS
    <3>2. ev.type # "cancel_redemption"  BY <2>1, <3>1 DEF WorkflowEvent
    <3>3. log'[subject] = AppendWorkflowEvent(log[subject], log[r].version, ev).log
      BY <1>2, <2>1, <2>2, <3>1 DEF RecoveryEvent
    <3>. QED  BY <1>4, <3>2, <3>3
  <2>3. CASE r # subject
    <3>1. log'[subject] = log[subject]  BY <1>2, <2>1, <2>3
    <3>. QED  BY <1>3, <3>1
  <2>. QED  BY <2>2, <2>3
<1>. QED  BY <1>3, <1>5, <1>6, LogMoves

\* A redemption its holder withdrew has its token back, whichever call recorded
\* the cancellation and however late; a request that was only discarded says
\* nothing of an opening still on its way.
THEOREM WithdrawnIsFree == HolderSpec => []CancelledIsFree
<1>1. Init => WithdrawalsGone
  BY RedemptionAssumption DEF Init, NewLog, WithdrawalsGone
<1>2. ChainInv /\ HolderInv /\ WithdrawalsGone => CancelledIsFree
  <2>. SUFFICES ASSUME ChainInv, HolderInv, WithdrawalsGone, NEW r \in Requests,
                       \E i \in DOMAIN log[r].events : log[r].events[i].type = "cancel_redemption"
                PROVE  ~OpenFor(r)
    BY DEF CancelledIsFree
  <2>1. CASE r = subject  BY <2>1 DEF WithdrawalsGone, Gone, OpenFor, ChainPhase
  <2>2. CASE r # subject  BY <2>2, RedemptionAssumption DEF HolderInv, HolderChain, OpenFor
  <2>. QED  BY <2>1, <2>2
<1>3. ChainInv /\ [Next /\ ReopensSettled /\ StartsAnew /\ OpenedBy(subject)]_vars => ChainInv'
  BY ChainStepKeeps
<1>4. HistoryInv /\ [Next /\ ReopensSettled /\ StartsAnew /\ OpenedBy(subject)]_vars => HistoryInv'
  BY StepKeeps
<1>5. HistoryInv /\ ChainInv /\ HolderInv /\ WithdrawalsGone
      /\ [Next /\ ReopensSettled /\ StartsAnew /\ OpenedBy(subject)]_vars => WithdrawalsGone'
  BY WithdrawalsStayGone
<1>6. HolderSpec => [](HistoryInv /\ ChainInv /\ HolderInv /\ WithdrawalsGone)
  BY <1>1, <1>3, <1>4, <1>5, InitIsSound, ChainInit, HolderInit, HolderStepKeeps, PTL DEF HolderSpec
<1>. QED  BY <1>2, <1>6, PTL

-----------------------------------------------------------------------------
(* The inductive invariant of what the pages offer. *)

\* The states of a row from its insertion on; each set is left into the next.
StaffStates ==
  {"accepted", "custodian_collected", "custodian_dispatched", "arrived", "proof_approved", "owner_authorized"}
ApprovedStates == {"proof_approved", "owner_authorized", "chain_burned"}
AuthorizedStates == {"owner_authorized", "chain_burned"}
AcceptedStates == StaffStates \cup ApprovedStates \cup {"cancelled", "fulfilled"}
BegunStates == {"committed", "onchain_requested"} \cup AcceptedStates
RowStates == {"none", "draft"} \cup BegunStates

\* The states a call or the sweep takes a row between.
CallMovesRow ==
  {<<"committed", "onchain_requested">>, <<"onchain_requested", "onchain_requested">>, <<"accepted", "accepted">>,
   <<"onchain_requested", "accepted">>, <<"accepted", "custodian_collected">>,
   <<"custodian_collected", "custodian_dispatched">>, <<"custodian_dispatched", "arrived">>,
   <<"arrived", "proof_approved">>, <<"proof_approved", "owner_authorized">>,
   <<"owner_authorized", "owner_authorized">>, <<"owner_authorized", "chain_burned">>, <<"draft", "cancelled">>}
  \cup ({"committed", "onchain_requested", "accepted"} \X {"cancelled", "fulfilled"})

\* What the authorizer signed is what the manager holds.
Authorized(r, a) ==
  /\ At(r, 4)
  /\ a = [workflow |-> r, commitment |-> rec.commitment, digest |-> rec.digest, approval |-> rec.approval]

Signed(r) == bound[r].authorization # None

\* An approval is of the organisation some session keeps for its retries.
Intended(r, o) ==
  o \in Orgs /\ \E s \in Sessions : [key |-> Key("release_owner_code", s), pay |-> o] \in intents[r]

IntentsAreOne(r) ==
  /\ \A i, j \in intents[r] : i.key = j.key => i.pay = j.pay
  /\ \A i \in intents[r] :
       /\ DOMAIN i = {"key", "pay"}
       /\ i.key[1] = "record_arrival" => \E e \in Evidence : i.pay = <<e, i.pay[2]>>
       /\ i.key[1] = "release_owner_code" => i.pay \in Orgs

Recovering(r) ==
  /\ DOMAIN recovery[r] = DOMAIN NoRecovery
  /\ recovery[r].state # "none" => At(r, 4) /\ proposal.by # {} /\ recovery[r].approvals \in Nat
                                   /\ (recovery[r].approvals >= 2 => Cardinality(proposal.by) >= 2)

RowServed(r) ==
  /\ status[r] \in RowStates
  /\ assigned[r] \in Orgs \cup {None} /\ (status[r] \in StaffStates => assigned[r] \in Orgs)
  /\ bound[r].authorization # None => status[r] \in AuthorizedStates /\ Authorized(r, bound[r].authorization)
  /\ IntentsAreOne(r) /\ Recovering(r)
RowsServed ==
  /\ assigned = [r \in Requests |-> assigned[r]] /\ intents = [r \in Requests |-> intents[r]]
  /\ recovery = [r \in Requests |-> recovery[r]]
  /\ \A r \in Requests : RowServed(r)

TxServed(tx) ==
  /\ tx.fn = "openRedemption" => status[tx.request] \in BegunStates
  /\ tx.fn = "startFulfillment" => status[tx.request] \in AcceptedStates
  /\ tx.fn = "approveFulfillmentProof" => Intended(tx.request, tx.arg)
  /\ tx.fn = "finalizeRedemption" =>
       /\ status[tx.request] \in AuthorizedStates /\ Authorized(tx.request, tx.arg) /\ Signed(tx.request)
       /\ tx = Tx("finalizeRedemption", tx.request, tx.arg)
  /\ tx.fn \in {"proposeRecovery", "approveRecovery", "executeRecovery"} =>
       /\ status[tx.request] \in ApprovedStates /\ At(tx.request, 4) /\ tx.arg \in Approvers
       /\ tx = Tx(tx.fn, tx.request, tx.arg)
TxsServed == \A tx \in pending : TxServed(tx)

\* The approvers' transactions that made the proposal what it is.
ProposalIsMined ==
  /\ IsFiniteSet(proposal.by) /\ DOMAIN proposal = DOMAIN NoProposal
  /\ proposal.by # {} =>
       /\ rec.phase >= 4
       /\ \E a \in Approvers :
            /\ Tx("proposeRecovery", rec.workflow, a) \in mined
            /\ proposal.by = {a} \/ \E b \in Approvers : Tx("approveRecovery", rec.workflow, b) \in mined
  /\ \A tx \in mined : tx.fn = "proposeRecovery" => proposal.by # {}
  /\ proposal.executed =>
       /\ Cardinality(proposal.by) >= 2 /\ proposal.aged
       /\ \E a \in Approvers : Tx("executeRecovery", rec.workflow, a) \in mined

RecordServed ==
  LET r == rec.workflow IN
  /\ rec.phase >= 1 => status[r] \in BegunStates
  /\ rec.phase >= 2 => status[r] \in AcceptedStates
  /\ rec.phase >= 4 => Intended(r, rec.approval)
  /\ rec.phase = 5 =>
       /\ status[r] \in ApprovedStates
       /\ \/ proposal.executed
          \/ /\ Signed(r)
             /\ \E tx \in mined : tx.fn = "finalizeRedemption" /\ Authorized(r, tx.arg) /\ tx = Tx(tx.fn, r, tx.arg)

CallServed(c) ==
  c.pc \in WritingPcs \cup {"sweep"} =>
    /\ <<c.from, c.to>> \in CallMovesRow
    /\ c.from \in AcceptedStates => status[c.request] \in AcceptedStates
    /\ c.key[1] = "authorize_owner" => c.to = "owner_authorized" /\ Authorized(c.request, c.pay)
    /\ c.pc = "assign" => c.pay \in Orgs
    /\ c.pc \in {"complete", "sweep"} /\ c.to = "accepted" => assigned[c.request] \in Orgs
    /\ c.pc \in {"chain", "receipt"} /\ c.fn = "approveFulfillmentProof" => Intended(c.request, c.pay)
CallsServed == \A w \in Workers : CallServed(call[w])

PagesInv == RowsServed /\ TxsServed /\ ProposalIsMined /\ RecordServed /\ CallsServed
-----------------------------------------------------------------------------
(* What no step takes back. *)

GoesOn(from, to) ==
  /\ from \in BegunStates => to \in BegunStates
  /\ from \in AcceptedStates => to \in AcceptedStates
  /\ from \in ApprovedStates => to \in ApprovedStates
  /\ from \in AuthorizedStates => to \in AuthorizedStates
Frozen ==
  rec.phase >= 4 =>
    /\ rec'.phase >= 4 /\ rec'.workflow = rec.workflow
    /\ rec'.commitment = rec.commitment /\ rec'.digest = rec.digest /\ rec'.approval = rec.approval
Onward ==
  /\ \A r \in Requests : /\ GoesOn(status[r], status'[r]) /\ intents[r] \subseteq intents'[r]
                         /\ assigned[r] \in Orgs => assigned'[r] \in Orgs
                         /\ Signed(r) => Signed(r)'
  /\ Frozen

LEMMA MovesGoOn ==
  ASSUME NEW from, NEW to, <<from, to>> \in CallMovesRow
  PROVE  /\ GoesOn(from, to) /\ to \in BegunStates
         /\ to \in StaffStates => to = "accepted" \/ from \in StaffStates
BY DEF CallMovesRow, GoesOn, BegunStates, AcceptedStates, ApprovedStates, AuthorizedStates, StaffStates

LEMMA AuthorizedStays == ASSUME Frozen, NEW r, NEW a, Authorized(r, a)  PROVE Authorized(r, a)'
BY DEF Frozen, Authorized, At

LEMMA IntendedStays ==
  ASSUME Onward, NEW r \in Requests, NEW o, Intended(r, o)  PROVE Intended(r, o)'
BY DEF Onward, Intended

LEMMA AtStays == ASSUME Frozen, NEW r, At(r, 4)  PROVE At(r, 4)'
BY DEF Frozen, At

LEMMA TxStays ==
  ASSUME Onward, NEW tx, TxFits(tx), TxServed(tx)  PROVE TxServed(tx)'
<1>1. tx.request \in Requests /\ GoesOn(status[tx.request], status'[tx.request])  BY DEF TxFits, Onward
<1>2. PICK r : r = tx.request  OBVIOUS
<1>6. Signed(r) => Signed(r)'  BY <1>1, <1>2 DEF Onward
<1>3. PICK arg : arg = tx.arg  OBVIOUS
<1>4. Intended(r, arg) => Intended(r, arg)'  BY <1>1, <1>2, IntendedStays
<1>5. (At(r, 4) => At(r, 4)') /\ (Authorized(r, arg) => Authorized(r, arg)')  BY AtStays, AuthorizedStays DEF Onward
<1>. QED  BY <1>1, <1>2, <1>3, <1>4, <1>5, <1>6 DEF TxServed, GoesOn

LEMMA TxsStay ==
  ASSUME ChainInv, PagesInv, Onward, pending' \subseteq pending  PROVE TxsServed'
<1>1. ASSUME NEW tx \in pending'  PROVE TxServed(tx)'
  BY <1>1, TxStays DEF ChainInv, ChainSound, PagesInv, TxsServed
<1>. QED  BY <1>1 DEF TxsServed

LEMMA OneTxMore ==
  ASSUME ChainInv, PagesInv, Onward, NEW tx, TxServed(tx)', pending' = pending \cup {tx}  PROVE TxsServed'
<1>1. ASSUME NEW t \in pending  PROVE TxServed(t)'
  BY <1>1, TxStays DEF ChainInv, ChainSound, PagesInv, TxsServed
<1>. QED  BY <1>1 DEF TxsServed

LEMMA CallServedStays ==
  ASSUME Onward, NEW c, CallFits(c), CallServed(c)  PROVE CallServed(c)'
<1>. SUFFICES ASSUME c.pc \in WritingPcs \cup {"sweep"}  PROVE CallServed(c)'
  BY DEF CallServed
<1>1. PICK r \in Requests : r = c.request  BY DEF CallFits
<1>2. GoesOn(status[r], status'[r]) /\ (assigned[r] \in Orgs => assigned'[r] \in Orgs)  BY DEF Onward
<1>3. PICK arg : arg = c.pay  OBVIOUS
<1>4. Intended(r, arg) => Intended(r, arg)'  BY IntendedStays
<1>5. Authorized(r, arg) => Authorized(r, arg)'  BY AuthorizedStays DEF Onward
<1>. QED  BY <1>1, <1>2, <1>3, <1>4, <1>5 DEF CallServed, GoesOn

LEMMA CallsStayServed ==
  ASSUME ChainInv, PagesInv, Onward, call' = call  PROVE CallsServed'
<1>1. ASSUME NEW w \in Workers  PROVE CallServed(call[w])'
  <2>1. PICK c : c = call[w]  OBVIOUS
  <2>2. CallFits(c) /\ CallServed(c)  BY <2>1 DEF ChainInv, CallsFit, PagesInv, CallsServed
  <2>3. CallServed(c)'  BY <2>2, CallServedStays
  <2>. QED  BY <2>1, <2>3
<1>. QED  BY <1>1 DEF CallsServed

LEMMA OneServed ==
  ASSUME ChainInv, PagesInv, Onward, NEW w \in Workers, NEW c, CallServed(c)', call' = [call EXCEPT ![w] = c]
  PROVE  CallsServed'
<1>1. call'[w] = c /\ \A x \in Workers \ {w} : call'[x] = call[x]  BY DEF ChainInv, CallsFit
<1>2. ASSUME NEW x \in Workers \ {w}  PROVE CallServed(call[x])'
  <2>1. PICK d : d = call[x]  OBVIOUS
  <2>2. CallFits(d) /\ CallServed(d)  BY <2>1 DEF ChainInv, CallsFit, PagesInv, CallsServed
  <2>3. CallServed(d)'  BY <2>2, CallServedStays
  <2>. QED  BY <1>1, <2>1, <2>3
<1>3. CallServed(call[w])'
  <2>1. PICK d : d = call'[w]  OBVIOUS
  <2>2. CallServed(d)'  BY <1>1, <2>1
  <2>. QED  BY <2>1, <2>2
<1>. QED  BY <1>2, <1>3 DEF CallsServed

LEMMA RecordStays ==
  ASSUME ChainInv, PagesInv, Onward, UNCHANGED <<rec, proposal, mined>>  PROVE RecordServed' /\ ProposalIsMined'
<1>1. ProposalIsMined'  BY DEF PagesInv, ProposalIsMined
<1>2. PICK r : r = rec.workflow  OBVIOUS
<1>3. rec.phase >= 1 => r \in Requests  BY <1>2 DEF ChainInv, ChainSound, RecSound
<1>4. rec.phase \in 0..5  BY DEF ChainInv, ChainSound, RecSound
<1>5. r \in Requests => GoesOn(status[r], status'[r]) /\ (Signed(r) => Signed(r)')  BY DEF Onward
<1>6. PICK o : o = rec.approval  OBVIOUS
<1>7. r \in Requests /\ Intended(r, o) => Intended(r, o)'  BY IntendedStays
<1>8. \A a : Authorized(r, a) => Authorized(r, a)'  BY AuthorizedStays DEF Onward
<1>9. RecordServed  BY DEF PagesInv
<1>. QED  BY <1>1, <1>2, <1>3, <1>4, <1>5, <1>6, <1>7, <1>8, <1>9 DEF RecordServed, GoesOn

LEMMA StandsStill ==
  ASSUME ChainInv, UNCHANGED <<status, bound, assigned, rec>>, \A r \in Requests : intents[r] \subseteq intents'[r]
  PROVE  Onward
BY DEF Onward, GoesOn, Frozen, Signed

LEMMA RowStays ==
  ASSUME NEW r \in Requests, RowServed(r), UNCHANGED <<rec, proposal>>,
         status'[r] = status[r], bound'[r] = bound[r], assigned'[r] = assigned[r], intents'[r] = intents[r],
         recovery'[r] = recovery[r]
  PROVE  RowServed(r)'
BY DEF RowServed, Authorized, At, IntentsAreOne, Recovering

LEMMA QuietRows ==
  ASSUME PagesInv, UNCHANGED <<rec, proposal, status, bound, assigned, intents, recovery>>  PROVE RowsServed'
BY RowStays DEF PagesInv, RowsServed

\* A step of a call that leaves the tables and the chain alone.
LEMMA QuietCall ==
  ASSUME ChainInv, PagesInv, UNCHANGED <<chainVars, status, bound, assigned, intents, recovery>>,
         NEW w \in Workers, NEW c, CallServed(c), call' = [call EXCEPT ![w] = c]
  PROVE  PagesInv'
<1>1. UNCHANGED <<rec, proposal, pending, mined>>  BY DEF chainVars
<1>2. Onward  BY <1>1, StandsStill
<1>3. CallServed(c)'  BY <1>1 DEF CallServed, Authorized, At, Intended
<1>. QED  BY <1>1, <1>2, <1>3, QuietRows, TxsStay, RecordStays, OneServed DEF PagesInv

LEMMA QuietStep ==
  ASSUME ChainInv, PagesInv, UNCHANGED <<chainVars, status, bound, assigned, intents, recovery, call>>
  PROVE  PagesInv'
<1>1. UNCHANGED <<rec, proposal, pending, mined>>  BY DEF chainVars
<1>2. Onward  BY <1>1, StandsStill
<1>. QED  BY <1>1, <1>2, QuietRows, TxsStay, RecordStays, CallsStayServed DEF PagesInv

LEMMA IdleIsServed == CallServed(Idle)
BY DEF CallServed, Idle, WritingPcs

LEMMA QuietEnd ==
  ASSUME ChainInv, PagesInv, UNCHANGED <<chainVars, status, bound, assigned, intents, recovery>>,
         NEW w \in Workers, End(w)
  PROVE  PagesInv'
BY IdleIsServed, QuietCall DEF End

\* An intent that is stored stays, and a key keeps one payload.
LEMMA Stores ==
  ASSUME ChainInv, PagesInv, UNCHANGED <<chainVars, status, bound, assigned, recovery>>,
         NEW r \in Requests, NEW key, NEW pay, storeIntent(r, key, pay),
         key[1] = "record_arrival" => \E e \in Evidence : pay = <<e, pay[2]>>,
         key[1] = "release_owner_code" => pay \in Orgs
  PROVE  /\ Onward /\ RowsServed' /\ TxsServed' /\ RecordServed' /\ ProposalIsMined'
         /\ [key |-> key, pay |-> pay] \in intents'[r]
<1>1. UNCHANGED <<rec, proposal, pending, mined>>  BY DEF chainVars
<1>2. PICK i : i = [key |-> key, pay |-> pay]  OBVIOUS
<1>3. i.key = key /\ i.pay = pay /\ DOMAIN i = {"key", "pay"}  BY <1>2
<1>4. /\ intents' = [x \in Requests |-> intents'[x]] /\ intents'[r] = intents[r] \cup {i}
      /\ \A x \in Requests \ {r} : intents'[x] = intents[x]
  BY <1>2 DEF storeIntent, PagesInv, RowsServed
<1>5. Onward  BY <1>1, <1>4, StandsStill
<1>6. RowServed(r)'
  <2>1. RowServed(r)  BY DEF PagesInv, RowsServed
  <2>2. \A j \in intents[r] : j.key = key => j.pay = pay  BY DEF storeIntent, Storable, IntentFor
  <2>3. IntentsAreOne(r)'  BY <1>3, <1>4, <2>1, <2>2 DEF RowServed, IntentsAreOne
  <2>. QED  BY <1>1, <2>1, <2>3 DEF RowServed, Authorized, At, Recovering
<1>7. ASSUME NEW x \in Requests \ {r}  PROVE RowServed(x)'
  BY <1>1, <1>4, RowStays DEF PagesInv, RowsServed
<1>8. RowsServed'  BY <1>4, <1>6, <1>7 DEF PagesInv, RowsServed
<1>. QED  BY <1>1, <1>2, <1>4, <1>5, <1>8, TxsStay, RecordStays

\* A call that begins by storing its intent.
LEMMA StoresAndBegins ==
  ASSUME ChainInv, PagesInv, UNCHANGED <<chainVars, status, bound, assigned, recovery>>,
         NEW r \in Requests, NEW key, NEW pay, storeIntent(r, key, pay),
         key[1] = "record_arrival" => \E e \in Evidence : pay = <<e, pay[2]>>,
         key[1] = "release_owner_code" => pay \in Orgs,
         NEW w \in Workers, NEW c, CallServed(c)', Begin(w, c)
  PROVE  PagesInv'
BY Stores, OneServed DEF Begin, PagesInv

\* A call begins from the state its row shows.
LEMMA CallStarts ==
  ASSUME NEW r \in Requests, NEW key, key[1] # "authorize_owner", NEW to, NEW pay, NEW pc \in {"assign", "complete", "sweep"},
         <<status[r], to>> \in CallMovesRow, pc = "assign" => pay \in Orgs,
         pc \in {"complete", "sweep"} /\ to = "accepted" => assigned[r] \in Orgs
  PROVE  LET c == Call(r, key, to, pay, pc) IN CallServed(c) /\ c.request = r
<1>1. PICK c : c = Call(r, key, to, pay, pc)  OBVIOUS
<1>2. c.request = r /\ c.key = key /\ c.to = to /\ c.pay = pay /\ c.pc = pc /\ c.from = status[r]  BY <1>1 DEF Call
<1>3. CallServed(c)  BY <1>2 DEF CallServed
<1>. QED  BY <1>1, <1>2, <1>3

LEMMA ServerCallStarts ==
  ASSUME NEW r \in Requests, NEW key, key[1] # "authorize_owner", NEW to, NEW pay, NEW fn, NEW phase,
         <<status[r], to>> \in CallMovesRow, fn = "approveFulfillmentProof" => Intended(r, pay)
  PROVE  LET c == ServerCall(r, key, to, pay, fn, phase) IN CallServed(c) /\ c.request = r
<1>1. PICK c : c = ServerCall(r, key, to, pay, fn, phase)  OBVIOUS
<1>2. c.request = r /\ c.key = key /\ c.to = to /\ c.pay = pay /\ c.pc = "chain" /\ c.from = status[r] /\ c.fn = fn
  BY <1>1 DEF ServerCall, Call
<1>3. CallServed(c)  BY <1>2 DEF CallServed
<1>. QED  BY <1>1, <1>2, <1>3

LEMMA StoresAndCalls ==
  ASSUME ChainInv, PagesInv, UNCHANGED <<chainVars, status, bound, assigned, recovery>>,
         NEW r \in Requests, NEW key, key[1] \notin {"record_arrival", "release_owner_code"}, NEW pay, storeIntent(r, key, pay),
         NEW w \in Workers, NEW c, CallServed(c), c.request = r, Begin(w, c)
  PROVE  PagesInv'
<1>1. Onward /\ UNCHANGED <<rec, proposal, pending, mined>>  BY Stores DEF chainVars
<1>2. intents[r] \subseteq intents'[r]  BY <1>1 DEF Onward
<1>3. CallServed(c)'  BY <1>1, <1>2 DEF CallServed, Authorized, At, Intended
<1>. QED  BY <1>3, StoresAndBegins

LEMMA RowOf == ASSUME PagesInv, NEW r \in Requests  PROVE RowServed(r)
BY DEF PagesInv, RowsServed

LEMMA OwnerCallsServed ==
  ASSUME ChainInv, PagesInv, NEW w \in Workers, NEW r \in Requests, NEW s \in Sessions, OwnerCalls(w, r, s)
  PROVE  PagesInv'
<1>1. CASE MarkOnchainRequested(w, r, s) \/ ReconcileOpening(w, r, s)
  <2>1. UNCHANGED <<chainVars, status, bound, assigned, recovery>>
    BY <1>1 DEF MarkOnchainRequested, ReconcileOpening, DbExcept
  <2>2. PICK key : /\ key[1] \in {"mark_onchain_requested", "reconcile_onchain_request"} /\ storeIntent(r, key, None)
                   /\ Begin(w, Call(r, key, "onchain_requested", None, "complete"))
    BY <1>1 DEF MarkOnchainRequested, ReconcileOpening, Key
  <2>3. <<status[r], "onchain_requested">> \in CallMovesRow
    BY <1>1 DEF MarkOnchainRequested, ReconcileOpening, OpeningFound, CallMovesRow
  <2>4. PICK c : c = Call(r, key, "onchain_requested", None, "complete")  OBVIOUS
  <2>5. CallServed(c) /\ c.request = r  BY <2>2, <2>3, <2>4, CallStarts
  <2>. QED  BY <2>1, <2>2, <2>4, <2>5, StoresAndCalls
<1>2. CASE DiscardRedemption(w, r, s)
  <2>1. UNCHANGED <<chainVars, status, bound, assigned, intents, recovery>>
    BY <1>2 DEF DiscardRedemption, Untouched, DbExcept
  <2>2. PICK key : key[1] = "discard_redemption" /\ Begin(w, Call(r, key, "cancelled", None, "complete"))
    BY <1>2 DEF DiscardRedemption, Key
  <2>3. <<status[r], "cancelled">> \in CallMovesRow  BY <1>2 DEF DiscardRedemption, Discardable, CallMovesRow
  <2>4. PICK c : c = Call(r, key, "cancelled", None, "complete")  OBVIOUS
  <2>5. CallServed(c)  BY <2>2, <2>3, <2>4, CallStarts
  <2>. QED  BY <2>1, <2>2, <2>4, <2>5, QuietCall DEF Begin
<1>3. CASE CancelRedemption(w, r, s)
  <2>1. UNCHANGED <<chainVars, status, bound, assigned, recovery>>  BY <1>3 DEF CancelRedemption, DbExcept
  <2>2. PICK key : /\ key[1] = "cancel_redemption" /\ storeIntent(r, key, None)
                   /\ Begin(w, Call(r, key, "cancelled", None, "complete"))
    BY <1>3 DEF CancelRedemption, Key
  <2>3. <<status[r], "cancelled">> \in CallMovesRow
    BY <1>3 DEF CancelRedemption, OWNER_CANCELLABLE_STATES, CallMovesRow
  <2>4. PICK c : c = Call(r, key, "cancelled", None, "complete")  OBVIOUS
  <2>5. CallServed(c) /\ c.request = r  BY <2>2, <2>3, <2>4, CallStarts
  <2>. QED  BY <2>1, <2>2, <2>4, <2>5, StoresAndCalls
<1>4. ASSUME NEW p \in Proxies, RecordNomination(w, r, s, p)  PROVE PagesInv'
  <2>1. UNCHANGED <<chainVars, status, bound, assigned, recovery>>  BY <1>4 DEF RecordNomination, DbExcept
  <2>2. PICK to : to = status[r]  OBVIOUS
  <2>3. PICK key : /\ key[1] = "nominate_proxy" /\ storeIntent(r, key, p) /\ Begin(w, Call(r, key, to, p, "complete"))
    BY <1>4, <2>2 DEF RecordNomination, Key
  <2>4. <<status[r], to>> \in CallMovesRow  BY <1>4, <2>2 DEF RecordNomination, CallMovesRow
  <2>5. to = "accepted" => assigned[r] \in Orgs  BY <2>2, RowOf DEF RowServed, StaffStates
  <2>6. PICK c : c = Call(r, key, to, p, "complete")  OBVIOUS
  <2>7. CallServed(c) /\ c.request = r  BY <2>3, <2>4, <2>5, <2>6, CallStarts
  <2>. QED  BY <2>1, <2>3, <2>6, <2>7, StoresAndCalls
<1>5. CASE ResendOwnerCode(w, r, s)
  <2>1. UNCHANGED <<chainVars, status, bound, assigned, intents, recovery>>
    BY <1>5 DEF ResendOwnerCode, Untouched, DbExcept
  <2>2. PICK c : c = Call(r, Key("resend_owner_code", s), status[r], None, "deliver")  OBVIOUS
  <2>3. CallServed(c)  BY <2>2 DEF Call, CallServed, WritingPcs
  <2>. QED  BY <1>5, <2>1, <2>2, <2>3, QuietCall DEF ResendOwnerCode, Begin
<1>6. ASSUME NEW g, NEW ch, AuthorizeOwner(w, r, s, g, ch)  PROVE PagesInv'
  <2>1. UNCHANGED <<chainVars, status, bound, assigned, intents, recovery>>
    BY <1>6 DEF AuthorizeOwner, Untouched, DbExcept
  <2>2. PICK pay : pay = SignedBinding(r)  OBVIOUS
  <2>3. PICK c : c = Call(r, <<"authorize_owner", ch>>, "owner_authorized", pay, "complete")  OBVIOUS
  <2>4. call' = [call EXCEPT ![w] = c]  BY <1>6, <2>2, <2>3 DEF AuthorizeOwner, Begin
  <2>5. Authorized(r, pay)
    <3>1. rec.phase = 4 /\ rec.workflow = r  BY <1>6 DEF AuthorizeOwner, finalizeAuthorizationBinding, ChainPhase
    <3>. QED  BY <2>2, <3>1 DEF SignedBinding, FinalizeDigest, Authorized, At
  <2>6. /\ c.pc = "complete" /\ c.request = r /\ c.from = status[r] /\ c.to = "owner_authorized" /\ c.pay = pay
    BY <2>3 DEF Call
  <2>7. <<status[r], "owner_authorized">> \in CallMovesRow  BY <1>6 DEF AuthorizeOwner, AWAITING_OWNER, CallMovesRow
  <2>8. CallServed(c)  BY <2>5, <2>6, <2>7 DEF CallServed
  <2>. QED  BY <2>1, <2>4, <2>8, QuietCall
<1>7. CASE MarkChainBurned(w, r, s)
  <2>1. UNCHANGED <<chainVars, status, bound, assigned, intents, recovery>>
    BY <1>7 DEF MarkChainBurned, Untouched, DbExcept
  <2>2. PICK key : key[1] = "mark_chain_burned" /\ Begin(w, Call(r, key, "chain_burned", None, "complete"))
    BY <1>7 DEF MarkChainBurned, Key
  <2>3. <<status[r], "chain_burned">> \in CallMovesRow  BY <1>7 DEF MarkChainBurned, CallMovesRow
  <2>4. PICK c : c = Call(r, key, "chain_burned", None, "complete")  OBVIOUS
  <2>5. CallServed(c)  BY <2>2, <2>3, <2>4, CallStarts
  <2>. QED  BY <2>1, <2>2, <2>4, <2>5, QuietCall DEF Begin
<1>. QED  BY <1>1, <1>2, <1>3, <1>4, <1>5, <1>6, <1>7 DEF OwnerCalls

\* Of the states before an arrival, the row can only be in the one after dispatch.
LEMMA ArrivesFrom ==
  ASSUME NEW st \in RowStates, assertRedemptionTransition(st, "arrived")  PROVE st = "custodian_dispatched"
BY DEF assertRedemptionTransition, transitionGraph, ARRIVAL_FROM_STATES, RowStates, BegunStates, AcceptedStates,
       StaffStates, ApprovedStates

LEMMA ReleasedFrom ==
  ASSUME NEW st \in RowStates, assertRedemptionTransition(st, "proof_approved")  PROVE st = "arrived"
BY DEF assertRedemptionTransition, transitionGraph, ARRIVAL_FROM_STATES, RowStates, BegunStates, AcceptedStates,
       StaffStates, ApprovedStates

LEMMA CollectedFrom ==
  ASSUME NEW st, assertRedemptionTransition(st, "custodian_collected")  PROVE st = "accepted"
BY DEF assertRedemptionTransition, transitionGraph, ARRIVAL_FROM_STATES

LEMMA AcceptedFrom ==
  ASSUME NEW st, assertRedemptionTransition(st, "accepted")  PROVE st = "onchain_requested"
BY DEF assertRedemptionTransition, transitionGraph, ARRIVAL_FROM_STATES

LEMMA StaffCallsServed ==
  ASSUME ChainInv, PagesInv, NEW w \in Workers, NEW r \in Requests, NEW s \in Sessions, StaffCalls(w, r, s)
  PROVE  PagesInv'
<1>0. RowServed(r) /\ status[r] \in RowStates  BY RowOf DEF RowServed
<1>1. CASE CustodianCollect(w, r, s)
  <2>1. UNCHANGED <<chainVars, status, bound, assigned, recovery>>  BY <1>1 DEF CustodianCollect, DbExcept
  <2>2. PICK key : /\ key[1] = "custodian_collect" /\ storeIntent(r, key, None)
                   /\ Begin(w, ServerCall(r, key, "custodian_collected", None, "startFulfillment", 1))
    BY <1>1 DEF CustodianCollect, ChainPhase, Key
  <2>3. <<status[r], "custodian_collected">> \in CallMovesRow
    BY <1>1, CollectedFrom DEF CustodianCollect, Collectable, CallMovesRow
  <2>4. PICK c : c = ServerCall(r, key, "custodian_collected", None, "startFulfillment", 1)  OBVIOUS
  <2>5. CallServed(c) /\ c.request = r  BY <2>2, <2>3, <2>4, ServerCallStarts
  <2>. QED  BY <2>1, <2>2, <2>4, <2>5, StoresAndCalls
<1>2. CASE CustodianDispatch(w, r, s)
  <2>1. UNCHANGED <<chainVars, status, bound, assigned, intents, recovery>>
    BY <1>2 DEF CustodianDispatch, Untouched, DbExcept
  <2>2. PICK key : key[1] = "custodian_dispatch" /\ Begin(w, Call(r, key, "custodian_dispatched", None, "complete"))
    BY <1>2 DEF CustodianDispatch, Key
  <2>3. <<status[r], "custodian_dispatched">> \in CallMovesRow  BY <1>2 DEF CustodianDispatch, CallMovesRow
  <2>4. PICK c : c = Call(r, key, "custodian_dispatched", None, "complete")  OBVIOUS
  <2>5. CallServed(c)  BY <2>2, <2>3, <2>4, CallStarts
  <2>. QED  BY <2>1, <2>2, <2>4, <2>5, QuietCall DEF Begin
<1>3. ASSUME NEW e \in Evidence, RecordArrival(w, r, s, e)  PROVE PagesInv'
  <2>1. UNCHANGED <<chainVars, status, bound, assigned, recovery>>  BY <1>3 DEF RecordArrival, DbExcept
  <2>2. PICK key : key = Key("record_arrival", s)  OBVIOUS
  <2>3. PICK pay : pay = <<e, ArrivalVersion(r, key)>>  OBVIOUS
  <2>4. /\ storeIntent(r, key, pay) /\ Begin(w, ServerCall(r, key, "arrived", pay, "submitFulfillmentProof", 2))
    BY <1>3, <2>2, <2>3 DEF RecordArrival, ChainPhase
  <2>5. key[1] = "record_arrival" /\ pay = <<e, pay[2]>>  BY <2>2, <2>3 DEF Key
  <2>6. <<status[r], "arrived">> \in CallMovesRow  BY <1>0, <1>3, ArrivesFrom DEF RecordArrival, CallMovesRow
  <2>7. PICK c : c = ServerCall(r, key, "arrived", pay, "submitFulfillmentProof", 2)  OBVIOUS
  <2>8. CallServed(c) /\ c.request = r  BY <2>5, <2>6, <2>7, ServerCallStarts
  <2>9. CallServed(c)'
    <3>1. c.fn = "submitFulfillmentProof"  BY <2>7 DEF ServerCall, Call
    <3>2. UNCHANGED <<rec, status, assigned>>  BY <2>1 DEF chainVars
    <3>. QED  BY <2>8, <3>1, <3>2 DEF CallServed, Authorized, At
  <2>. QED  BY <2>1, <2>4, <2>5, <2>7, <2>9, StoresAndBegins
<1>4. ASSUME NEW o \in Orgs, ReleaseOwnerCode(w, r, s, o)  PROVE PagesInv'
  <2>1. UNCHANGED <<chainVars, status, bound, assigned, recovery>>  BY <1>4 DEF ReleaseOwnerCode, DbExcept
  <2>2. PICK key : key = Key("release_owner_code", s)  OBVIOUS
  <2>3. PICK pay : pay = ApprovalBinding(o)  OBVIOUS
  <2>4. /\ storeIntent(r, key, pay) /\ Begin(w, ServerCall(r, key, "proof_approved", pay, "approveFulfillmentProof", 3))
    BY <1>4, <2>2, <2>3 DEF ReleaseOwnerCode, ChainPhase
  <2>5. key[1] = "release_owner_code"  BY <2>2 DEF Key
  <2>6. pay \in Orgs
    <3>1. rec.phase >= 4 => rec.approval \in Orgs  BY DEF PagesInv, RecordServed, Intended
    <3>. QED  BY <2>3, <3>1 DEF ApprovalBinding, ChainPhase
  <2>7. [key |-> key, pay |-> pay] \in intents'[r]  BY <2>1, <2>4, <2>5, <2>6, Stores
  <2>8. Intended(r, pay)'  BY <2>2, <2>6, <2>7 DEF Intended
  <2>9. <<status[r], "proof_approved">> \in CallMovesRow
    BY <1>0, <1>4, ReleasedFrom DEF ReleaseOwnerCode, Releasable, CallMovesRow
  <2>10. PICK c : c = ServerCall(r, key, "proof_approved", pay, "approveFulfillmentProof", 3)  OBVIOUS
  <2>11. /\ c.request = r /\ c.key = key /\ c.to = "proof_approved" /\ c.pay = pay /\ c.pc = "chain" /\ c.from = status[r]
    BY <2>10 DEF ServerCall, Call
  <2>12. CallServed(c)'
    <3>1. status' = status  BY <2>1
    <3>. QED  BY <2>5, <2>8, <2>9, <2>11, <3>1 DEF CallServed
  <2>. QED  BY <2>1, <2>4, <2>5, <2>6, <2>10, <2>12, StoresAndBegins
<1>5. ASSUME NEW o \in Orgs, AcceptRedemption(w, r, s, o)  PROVE PagesInv'
  <2>1. UNCHANGED <<chainVars, status, bound, assigned, intents, recovery>>
    BY <1>5 DEF AcceptRedemption, Untouched, DbExcept
  <2>2. PICK key : key[1] = "accept_redemption" /\ Begin(w, Call(r, key, "accepted", o, "assign"))
    BY <1>5 DEF AcceptRedemption, Key
  <2>3. <<status[r], "accepted">> \in CallMovesRow
    BY <1>5, AcceptedFrom DEF AcceptRedemption, Acceptable, CallMovesRow
  <2>4. PICK c : c = Call(r, key, "accepted", o, "assign")  OBVIOUS
  <2>5. CallServed(c)  BY <2>2, <2>3, <2>4, CallStarts
  <2>. QED  BY <2>1, <2>2, <2>4, <2>5, QuietCall DEF Begin
<1>. QED  BY <1>1, <1>2, <1>3, <1>4, <1>5 DEF StaffCalls

LEMMA SweepReadsServed ==
  ASSUME ChainInv, PagesInv, NEW w \in Workers, NEW r \in Requests, SweepReads(w, r)
  PROVE  PagesInv'
<1>1. UNCHANGED <<chainVars, status, bound, assigned, intents, recovery>>  BY DEF SweepReads, Untouched, DbExcept
<1>2. PICK to \in SweptTo(r) \ {status[r]} : Begin(w, Call(r, Key("sweep", w), to, None, "sweep"))  BY DEF SweepReads
<1>3. <<status[r], to>> \in CallMovesRow /\ to # "accepted"
  <2>1. /\ to \in {"onchain_requested", "cancelled", "fulfilled"} /\ status[r] \in {"committed", "onchain_requested", "accepted"}
        /\ to = "onchain_requested" => status[r] = "committed"
    BY <1>2 DEF SweptTo, ByRegistry, ByEvents
  <2>. QED  BY <2>1 DEF CallMovesRow
<1>4. PICK key : key = Key("sweep", w)  OBVIOUS
<1>5. key[1] # "authorize_owner"  BY <1>4 DEF Key
<1>6. PICK c : c = Call(r, key, to, None, "sweep")  OBVIOUS
<1>7. CallServed(c)  BY <1>3, <1>5, <1>6, CallStarts
<1>. QED  BY <1>1, <1>2, <1>4, <1>6, <1>7, QuietCall DEF Begin

-----------------------------------------------------------------------------
(* The steps that write a row. *)

LEMMA OneRow ==
  ASSUME ChainInv, PagesInv, UNCHANGED <<intents, assigned, chainVars>>, NEW r \in Requests,
         \A x \in Requests \ {r} : status'[x] = status[x] /\ bound'[x] = bound[x] /\ recovery'[x] = recovery[x],
         recovery' = [x \in Requests |-> recovery'[x]], GoesOn(status[r], status'[r]),
         Signed(r) => Signed(r)', RowServed(r)'
  PROVE  Onward /\ RowsServed' /\ TxsServed' /\ RecordServed' /\ ProposalIsMined'
<1>1. UNCHANGED <<rec, proposal, pending, mined>>  BY DEF chainVars
<1>2. Onward  BY <1>1 DEF Onward, GoesOn, Frozen, Signed
<1>3. ASSUME NEW x \in Requests \ {r}  PROVE RowServed(x)'
  BY <1>1, RowStays DEF PagesInv, RowsServed
<1>4. RowsServed'  BY <1>3 DEF PagesInv, RowsServed
<1>. QED  BY <1>1, <1>2, <1>4, TxsStay, RecordStays

LEMMA CompleteServed ==
  ASSUME ChainInv, PagesInv, NEW w \in Workers, complete_redemption_transition(w)
  PROVE  PagesInv'
<1>1. PICK c : c = call[w]  OBVIOUS
<1>2. c.pc = "complete"  BY <1>1 DEF complete_redemption_transition
<1>3. CallFits(c) /\ CallServed(c)  BY <1>1 DEF ChainInv, CallsFit, PagesInv, CallsServed
<1>4. PICK r \in Requests : r = c.request  BY <1>2, <1>3 DEF CallFits, WritingPcs
<1>5. /\ <<c.from, c.to>> \in CallMovesRow
      /\ c.key[1] = "authorize_owner" => c.to = "owner_authorized" /\ Authorized(r, c.pay)
      /\ c.to = "accepted" => assigned[r] \in Orgs
  BY <1>2, <1>3, <1>4 DEF CallServed, WritingPcs
<1>6. PICK b : b = Rebound(bound[r], c)  OBVIOUS
<1>7. /\ UNCHANGED <<chainVars, intents, assigned, recovery>>
      /\ \/ UNCHANGED <<status, bound>>
         \/ status' = [status EXCEPT ![r] = c.to] /\ bound' = [bound EXCEPT ![r] = b] /\ status[r] = c.from
      /\ End(w) \/ \E pc \in {"deliver", "invalidate", "reconcile"} : Continue(w, pc)
  <2>1. AfterComplete(c) \in {"deliver", "invalidate", "reconcile", "end"}  BY DEF AfterComplete
  <2>. QED  BY <1>1, <1>4, <1>6, <2>1 DEF complete_redemption_transition, DbExcept
<1>8. PICK d : call' = [call EXCEPT ![w] = d] /\ CallServed(d) /\ CallServed(d)'
  <2>1. CASE End(w)  BY <2>1, IdleIsServed DEF End, CallServed, Idle, WritingPcs
  <2>2. ASSUME NEW pc \in {"deliver", "invalidate", "reconcile"}, Continue(w, pc)  PROVE \E d : call' = [call EXCEPT ![w] = d] /\ CallServed(d) /\ CallServed(d)'
    <3>1. PICK d : d = [c EXCEPT !.pc = pc]  OBVIOUS
    <3>2. d.pc = pc  BY <1>3, <3>1 DEF CallFits
    <3>. QED  BY <1>1, <2>2, <3>1, <3>2 DEF Continue, CallServed, WritingPcs
  <2>. QED  BY <1>7, <2>1, <2>2
<1>9. CASE UNCHANGED <<status, bound>>  BY <1>7, <1>8, <1>9, QuietCall
<1>10. CASE status' = [status EXCEPT ![r] = c.to] /\ bound' = [bound EXCEPT ![r] = b] /\ status[r] = c.from
  <2>1. /\ status'[r] = c.to /\ bound'[r] = b
        /\ \A x \in Requests \ {r} : status'[x] = status[x] /\ bound'[x] = bound[x]
    BY <1>10 DEF ChainInv, RowsBehind
  <2>2. /\ GoesOn(status[r], c.to) /\ c.to \in RowStates
        /\ c.to \in StaffStates => c.to = "accepted" \/ status[r] \in StaffStates
    BY <1>5, <1>10, MovesGoOn DEF RowStates
  <2>3. RowServed(r)  BY RowOf
  <2>4. b.authorization # None => c.to \in AuthorizedStates /\ Authorized(r, b.authorization)
    <3>1. PICK old : old = bound[r]  OBVIOUS
    <3>2. DOMAIN old = DOMAIN Unbound  BY <3>1 DEF ChainInv, RowsBehind, RowBehind
    <3>3. b.authorization = old.authorization \/ (c.key[1] = "authorize_owner" /\ b.authorization = c.pay)
      BY <1>6, <3>1, <3>2, Rebinds
    <3>4. old.authorization # None => status[r] \in AuthorizedStates /\ Authorized(r, old.authorization)
      BY <2>3, <3>1 DEF RowServed
    <3>. QED  BY <1>5, <2>2, <3>3, <3>4 DEF GoesOn, AuthorizedStates
  <2>9. Signed(r) => Signed(r)'
    <3>1. PICK old : old = bound[r]  OBVIOUS
    <3>2. DOMAIN old = DOMAIN Unbound  BY <3>1 DEF ChainInv, RowsBehind, RowBehind
    <3>3. b.authorization = old.authorization \/ (c.key[1] = "authorize_owner" /\ b.authorization = c.pay)
      BY <1>6, <3>1, <3>2, Rebinds
    <3>4. old.authorization # None => Authorized(r, old.authorization)  BY <2>3, <3>1 DEF RowServed
    <3>5. \A x, y : Authorized(r, x) /\ Authorized(r, y) => x = y  BY DEF Authorized
    <3>. QED  BY <1>5, <2>1, <3>1, <3>3, <3>4, <3>5 DEF Signed
  <2>5. UNCHANGED <<rec, proposal>>  BY <1>7 DEF chainVars
  <2>6. RowServed(r)'
    <3>1. IntentsAreOne(r)' /\ Recovering(r)'
      BY <1>7, <2>3, <2>5 DEF RowServed, IntentsAreOne, Recovering, At
    <3>2. bound'[r].authorization # None => c.to \in AuthorizedStates /\ Authorized(r, bound[r].authorization)'
      BY <2>1, <2>4, <2>5 DEF Authorized, At
    <3>3. c.to \in StaffStates => assigned[r] \in Orgs  BY <1>5, <2>2, <2>3 DEF RowServed
    <3>4. assigned[r] \in Orgs \cup {None}  BY <2>3 DEF RowServed
    <3>. QED  BY <1>7, <2>1, <2>2, <3>1, <3>2, <3>3, <3>4 DEF RowServed
  <2>7. recovery' = [x \in Requests |-> recovery'[x]] /\ \A x \in Requests : recovery'[x] = recovery[x]
    BY <1>7 DEF PagesInv, RowsServed
  <2>8. Onward /\ RowsServed' /\ TxsServed' /\ RecordServed' /\ ProposalIsMined'
    BY <1>7, <2>1, <2>2, <2>6, <2>7, <2>9, OneRow
  <2>. QED  BY <1>8, <2>8, OneServed DEF PagesInv
<1>. QED  BY <1>7, <1>9, <1>10

LEMMA SweepWritesServed ==
  ASSUME ChainInv, PagesInv, NEW w \in Workers, SweepWrites(w)
  PROVE  PagesInv'
<1>1. PICK c : c = call[w]  OBVIOUS
<1>2. c.pc = "sweep"  BY <1>1 DEF SweepWrites
<1>3. CallFits(c) /\ CallServed(c)  BY <1>1 DEF ChainInv, CallsFit, PagesInv, CallsServed
<1>4. PICK r \in Requests : r = c.request  BY <1>2, <1>3 DEF CallFits
<1>5. <<c.from, c.to>> \in CallMovesRow /\ (c.to = "accepted" => assigned[r] \in Orgs)
  BY <1>2, <1>3, <1>4 DEF CallServed
<1>6. End(w) /\ UNCHANGED <<chainVars, bound, intents, assigned, recovery>>  BY DEF SweepWrites, DbExcept
<1>7. CASE status' = status  BY <1>6, <1>7, QuietEnd
<1>8. CASE status[r] = c.from /\ status' = [status EXCEPT ![r] = c.to]
  <2>1. status'[r] = c.to /\ \A x \in Requests \ {r} : status'[x] = status[x]  BY <1>8 DEF ChainInv, RowsBehind
  <2>2. /\ GoesOn(status[r], c.to) /\ c.to \in RowStates
        /\ c.to \in StaffStates => c.to = "accepted" \/ status[r] \in StaffStates
    BY <1>5, <1>8, MovesGoOn DEF RowStates
  <2>3. RowServed(r) /\ UNCHANGED <<rec, proposal>>  BY <1>6, RowOf DEF chainVars
  <2>4. RowServed(r)'
    <3>1. c.to \in StaffStates => assigned[r] \in Orgs  BY <1>5, <2>2, <2>3 DEF RowServed
    <3>2. IntentsAreOne(r)' /\ Recovering(r)'  BY <1>6, <2>3 DEF RowServed, IntentsAreOne, Recovering, At
    <3>. QED  BY <1>6, <2>1, <2>2, <2>3, <3>1, <3>2 DEF RowServed, GoesOn, Authorized, At
  <2>5. recovery' = [x \in Requests |-> recovery'[x]]  BY <1>6 DEF PagesInv, RowsServed
  <2>6. Onward /\ RowsServed' /\ TxsServed' /\ RecordServed' /\ ProposalIsMined'
    BY <1>6, <2>1, <2>2, <2>4, <2>5, OneRow DEF Signed
  <2>7. CallServed(Idle)'  BY DEF CallServed, Idle, WritingPcs
  <2>. QED  BY <1>6, <2>6, <2>7, OneServed DEF End, PagesInv
<1>. QED  BY <1>1, <1>4, <1>7, <1>8 DEF SweepWrites

LEMMA DraftServed ==
  ASSUME ChainInv, PagesInv, NEW r \in Requests, CreateDraft(r) \/ CommitDraft(r)
  PROVE  PagesInv'
<1>1. UNCHANGED <<chainVars, bound, intents, assigned, recovery, call>>  BY DEF CreateDraft, CommitDraft, DbExcept
<1>2. PICK to : /\ status' = [status EXCEPT ![r] = to]
                /\ <<status[r], to>> \in {<<"none", "draft">>, <<"draft", "committed">>}
  BY DEF CreateDraft, CommitDraft
<1>3. status'[r] = to /\ \A x \in Requests \ {r} : status'[x] = status[x]  BY <1>2 DEF ChainInv, RowsBehind
<1>4. GoesOn(status[r], to) /\ to \in RowStates \ StaffStates /\ status[r] \notin AuthorizedStates
  BY <1>2 DEF GoesOn, RowStates, BegunStates, AcceptedStates, ApprovedStates, AuthorizedStates, StaffStates
<1>5. RowServed(r) /\ UNCHANGED <<rec, proposal>>  BY <1>1, RowOf DEF chainVars
<1>6. RowServed(r)'
  BY <1>1, <1>3, <1>4, <1>5 DEF RowServed, IntentsAreOne, Recovering, At
<1>7. recovery' = [x \in Requests |-> recovery'[x]]  BY <1>1 DEF PagesInv, RowsServed
<1>8. Onward /\ RowsServed' /\ TxsServed' /\ RecordServed' /\ ProposalIsMined'
  BY <1>1, <1>3, <1>4, <1>6, <1>7, OneRow DEF Signed
<1>. QED  BY <1>1, <1>8, CallsStayServed DEF PagesInv

\* A row that waits for its holder is the manager's, in its last phases.
LEMMA WaitingIsApproved ==
  ASSUME ChainInv, NEW r \in Requests, status[r] \in AWAITING_OWNER
  PROVE  At(r, 4) /\ status[r] \in ApprovedStates
<1>1. Reached(status[r]) = 4  BY ReachedIs DEF AWAITING_OWNER
<1>. QED  BY <1>1 DEF ChainInv, RowsBehind, RowBehind, CameTo, AWAITING_OWNER, ApprovedStates

LEMMA RecoveryServed ==
  ASSUME ChainInv, PagesInv, NEW r \in Requests, NEW a,
         ProposeRecovery(r, a) \/ ApproveRecovery(r, a) \/ ExecuteRecovery(r, a)
  PROVE  PagesInv'
<1>1. UNCHANGED <<chainVars, bound, intents, assigned, call>> /\ status[r] \in AWAITING_OWNER
  BY DEF ProposeRecovery, ApproveRecovery, ExecuteRecovery, DbExcept
<1>2. At(r, 4) /\ status[r] \in ApprovedStates  BY <1>1, WaitingIsApproved
<1>3. RowServed(r) /\ UNCHANGED <<rec, proposal>>  BY <1>1, RowOf DEF chainVars
<1>4. PICK n : n = Cardinality(proposal.by)  OBVIOUS
<1>5. n \in Nat  BY <1>4, FS_CardinalityType DEF PagesInv, ProposalIsMined
<1>6. /\ GoesOn(status[r], status'[r]) /\ status'[r] \in RowStates /\ (status'[r] \in StaffStates => status[r] \in StaffStates)
      /\ status[r] \in AuthorizedStates => status'[r] \in AuthorizedStates
      /\ \A x \in Requests \ {r} : status'[x] = status[x]
  <2>1. CASE status' = status  BY <1>3, <2>1 DEF GoesOn, RowServed
  <2>2. CASE status' = [status EXCEPT ![r] = "chain_burned"]
    <3>1. status'[r] = "chain_burned" /\ \A x \in Requests \ {r} : status'[x] = status[x]
      BY <2>2 DEF ChainInv, RowsBehind
    <3>. QED  BY <3>1 DEF GoesOn, RowStates, BegunStates, AcceptedStates, ApprovedStates, AuthorizedStates, StaffStates
  <2>. QED  BY <2>1, <2>2 DEF ProposeRecovery, ApproveRecovery, ExecuteRecovery
<1>7. /\ recovery' = [x \in Requests |-> recovery'[x]]
      /\ \A x \in Requests \ {r} : recovery'[x] = recovery[x]
      /\ Recovering(r)'
  <2>0. recovery = [x \in Requests |-> recovery[x]]  BY DEF PagesInv, RowsServed
  <2>1. CASE ProposeRecovery(r, a)
    <3>1. PICK st : recovery' = [recovery EXCEPT ![r] = [state |-> st, approvals |-> n, wallets |-> {a}]]
      BY <1>4, <2>1 DEF ProposeRecovery
    <3>2. PICK q : q = recovery'[r]  OBVIOUS
    <3>3. q.approvals = n /\ DOMAIN q = DOMAIN NoRecovery /\ \A x \in Requests \ {r} : recovery'[x] = recovery[x]
      BY <2>0, <3>1, <3>2 DEF NoRecovery
    <3>4. PICK tx : tx = Tx("proposeRecovery", r, a)  OBVIOUS
    <3>5. tx \in mined /\ tx.fn = "proposeRecovery"  BY <2>1, <3>4 DEF ProposeRecovery, Tx
    <3>6. proposal.by # {}  BY <3>5 DEF PagesInv, ProposalIsMined
    <3>. QED  BY <1>2, <1>3, <1>4, <1>5, <2>0, <3>1, <3>2, <3>3, <3>6 DEF Recovering, At
  <2>2. CASE ApproveRecovery(r, a)
    <3>1. PICK m : m = ApprovalCount(recovery[r].approvals, n)  OBVIOUS
    <3>2. PICK q : recovery' = [recovery EXCEPT ![r] = q] /\ q.approvals = m /\ DOMAIN q = DOMAIN NoRecovery
      <4>1. PICK st, ws : recovery' = [recovery EXCEPT ![r] = [state |-> st, approvals |-> m, wallets |-> ws]]
        BY <1>4, <2>2, <3>1 DEF ApproveRecovery
      <4>2. PICK q : q = [state |-> st, approvals |-> m, wallets |-> ws]  OBVIOUS
      <4>3. q.approvals = m /\ DOMAIN q = DOMAIN NoRecovery  BY <4>2 DEF NoRecovery
      <4>. QED  BY <4>1, <4>2, <4>3
    <3>3. recovery[r].state # "none"  BY <2>2 DEF ApproveRecovery
    <3>4. recovery[r].approvals \in Nat /\ (recovery[r].approvals >= 2 => n >= 2) /\ proposal.by # {}
      <4>1. Recovering(r)  BY <1>3 DEF RowServed
      <4>. QED  BY <1>4, <3>3, <4>1 DEF Recovering
    <3>5. m \in Nat /\ (m >= 2 => n >= 2)  BY <1>5, <3>1, <3>4 DEF ApprovalCount
    <3>6. recovery'[r] = q /\ \A x \in Requests \ {r} : recovery'[x] = recovery[x]  BY <2>0, <3>2
    <3>. QED  BY <1>2, <1>3, <1>4, <2>0, <3>2, <3>4, <3>5, <3>6 DEF Recovering, At
  <2>3. CASE ExecuteRecovery(r, a)
    <3>1. PICK q : q = [recovery[r] EXCEPT !.state = "executed"]  OBVIOUS
    <3>2. recovery' = [recovery EXCEPT ![r] = q]  BY <2>3, <3>1 DEF ExecuteRecovery
    <3>3. recovery[r].state # "none"  BY <2>3 DEF ExecuteRecovery
    <3>4. PICK old : old = recovery[r]  OBVIOUS
    <3>5. DOMAIN old = {"state", "approvals", "wallets"}  BY <1>3, <3>4 DEF RowServed, Recovering, NoRecovery
    <3>6. q.approvals = old.approvals /\ DOMAIN q = DOMAIN NoRecovery  BY <3>1, <3>4, <3>5 DEF NoRecovery
    <3>7. recovery'[r] = q /\ \A x \in Requests \ {r} : recovery'[x] = recovery[x]  BY <2>0, <3>2
    <3>. QED  BY <1>2, <1>3, <2>0, <3>2, <3>3, <3>4, <3>6, <3>7 DEF RowServed, Recovering, At
  <2>. QED  BY <2>1, <2>2, <2>3
<1>8. RowServed(r)'
  <2>1. IntentsAreOne(r)'  BY <1>1, <1>3 DEF RowServed, IntentsAreOne
  <2>. QED  BY <1>1, <1>3, <1>6, <1>7, <2>1 DEF RowServed, Authorized, At
<1>9. Onward /\ RowsServed' /\ TxsServed' /\ RecordServed' /\ ProposalIsMined'
  BY <1>1, <1>6, <1>7, <1>8, OneRow DEF Signed
<1>. QED  BY <1>1, <1>9, CallsStayServed DEF PagesInv

-----------------------------------------------------------------------------
(* The other steps of a call, and what is sent. *)

LEMMA ContinuesServed ==
  ASSUME ChainInv, PagesInv, UNCHANGED <<chainVars, status, bound, intents, recovery, assigned>>,
         NEW w \in Workers, NEW pc, pc \notin {"sweep"} \cup WritingPcs, Continue(w, pc)
  PROVE  PagesInv'
<1>1. PICK c : c = call[w]  OBVIOUS
<1>2. PICK d : d = [c EXCEPT !.pc = pc]  OBVIOUS
<1>3. d.pc = pc  BY <1>1, <1>2 DEF ChainInv, CallsFit, CallFits
<1>4. CallServed(d)  BY <1>3 DEF CallServed
<1>. QED  BY <1>1, <1>2, <1>4, QuietCall DEF Continue

LEMMA AssignServed ==
  ASSUME ChainInv, PagesInv, NEW w \in Workers, AssignCustodian(w)
  PROVE  PagesInv'
<1>1. PICK c : c = call[w]  OBVIOUS
<1>2. c.pc = "assign"  BY <1>1 DEF AssignCustodian
<1>3. CallFits(c) /\ CallServed(c)  BY <1>1 DEF ChainInv, CallsFit, PagesInv, CallsServed
<1>4. PICK r \in Requests : r = c.request /\ c.key[1] # "authorize_owner" /\ c.pay \in Orgs
  BY <1>2, <1>3 DEF CallFits, CallServed, WritingPcs
<1>5. UNCHANGED <<chainVars, status, bound, intents, recovery>>  BY DEF AssignCustodian, DbExcept
<1>6. UNCHANGED <<rec, proposal, pending, mined>>  BY <1>5 DEF chainVars
<1>7. /\ assigned' = [x \in Requests |-> assigned'[x]] /\ \A x \in Requests \ {r} : assigned'[x] = assigned[x]
      /\ assigned'[r] = (IF assigned[r] = None THEN c.pay ELSE assigned[r])
  BY <1>1, <1>4 DEF AssignCustodian, PagesInv, RowsServed
<1>8. Onward
  <2>1. assigned[r] \in Orgs => assigned'[r] \in Orgs  BY <1>4, <1>7
  <2>. QED  BY <1>5, <1>6, <1>7, <2>1 DEF Onward, GoesOn, Frozen, Signed
<1>9. RowServed(r)'
  <2>1. RowServed(r)  BY RowOf
  <2>2. assigned'[r] \in Orgs  BY <1>4, <1>7, <2>1 DEF RowServed
  <2>. QED  BY <1>5, <1>6, <2>1, <2>2 DEF RowServed, Authorized, At, IntentsAreOne, Recovering
<1>10. ASSUME NEW x \in Requests \ {r}  PROVE RowServed(x)'
  BY <1>5, <1>6, <1>7, RowStays DEF PagesInv, RowsServed
<1>11. RowsServed'  BY <1>5, <1>7, <1>9, <1>10 DEF PagesInv, RowsServed
<1>12. PICK d : d = [c EXCEPT !.pc = "complete"]  OBVIOUS
<1>13. /\ d.pc = "complete" /\ d.request = r /\ d.from = c.from /\ d.to = c.to /\ d.key = c.key
  BY <1>3, <1>4, <1>12 DEF CallFits
<1>14. CallServed(d)'
  <2>1. assigned'[r] \in Orgs  BY <1>4, <1>7, RowOf DEF RowServed
  <2>. QED  BY <1>2, <1>3, <1>4, <1>5, <1>13, <2>1 DEF CallServed, WritingPcs
<1>15. call' = [call EXCEPT ![w] = d]  BY <1>1, <1>12 DEF AssignCustodian, Continue
<1>. QED  BY <1>6, <1>8, <1>11, <1>14, <1>15, TxsStay, RecordStays, OneServed DEF PagesInv

\* What is sent when the tables stand still.
LEMMA SendsServed ==
  ASSUME ChainInv, PagesInv, UNCHANGED <<status, bound, intents, assigned, recovery>>, NEW tx, TxServed(tx), Send(tx)
  PROVE  Onward /\ RowsServed' /\ TxsServed' /\ RecordServed' /\ ProposalIsMined'
<1>1. UNCHANGED <<rec, proposal, mined>> /\ pending' = pending \cup {tx}  BY DEF Send
<1>2. Onward  BY <1>1, StandsStill
<1>3. TxServed(tx)'  BY <1>1 DEF TxServed, Authorized, At, Intended, Signed
<1>. QED  BY <1>1, <1>2, <1>3, QuietRows, OneTxMore, RecordStays

LEMMA ServerStepServed ==
  ASSUME ChainInv, PagesInv, NEW w \in Workers, runServerStep(w) \/ ServerReceipt(w)
  PROVE  PagesInv'
<1>1. PICK c : c = call[w]  OBVIOUS
<1>2. /\ c.pc \in {"chain", "receipt"} /\ CallFits(c) /\ CallServed(c)
      /\ <<c.to, c.fn, c.phase>> \in ServerWrites /\ c.key[1] # "authorize_owner"
  BY <1>1 DEF ChainInv, CallsFit, CallFits, PagesInv, CallsServed, runServerStep, ServerReceipt
<1>3. UNCHANGED <<status, bound, intents, assigned, recovery>>
  BY DEF runServerStep, ServerReceipt, Untouched, DbExcept
<1>4. ASSUME NEW pc \in {"receipt", "complete"}, Continue(w, pc)
      PROVE  \E d : call' = [call EXCEPT ![w] = d] /\ CallServed(d)
  <2>1. PICK d : d = [c EXCEPT !.pc = pc]  OBVIOUS
  <2>2. /\ d.pc = pc /\ d.request = c.request /\ d.key = c.key /\ d.from = c.from /\ d.to = c.to /\ d.pay = c.pay
        /\ d.fn = c.fn
    BY <1>2, <2>1 DEF CallFits
  <2>3. d.to # "accepted"  BY <1>2, <2>2 DEF ServerWrites
  <2>4. CallServed(d)  BY <1>2, <2>2, <2>3 DEF CallServed, WritingPcs
  <2>. QED  BY <1>1, <1>4, <2>1, <2>4 DEF Continue
<1>5. CASE UNCHANGED chainVars /\ (End(w) \/ \E pc \in {"receipt", "complete"} : Continue(w, pc))
  BY <1>3, <1>4, <1>5, QuietEnd, QuietCall
<1>6. CASE Send(Tx(c.fn, c.request, c.pay)) /\ Continue(w, "receipt")
  <2>1. PICK tx : tx = Tx(c.fn, c.request, c.pay)  OBVIOUS
  <2>2. tx.fn = c.fn /\ tx.request = c.request /\ tx.arg = c.pay  BY <2>1 DEF Tx
  <2>3. c.fn = "startFulfillment" => status[c.request] \in AcceptedStates
    <3>1. c.fn = "startFulfillment" => c.from \in AcceptedStates
      <4>1. PICK from, to : from = c.from /\ to = c.to  OBVIOUS
      <4>2. <<from, to>> \in CallMovesRow  BY <1>2, <4>1 DEF CallServed, WritingPcs
      <4>3. c.fn = "startFulfillment" => to = "custodian_collected"  BY <1>2, <4>1 DEF ServerWrites
      <4>4. to = "custodian_collected" => from = "accepted"  BY <4>2 DEF CallMovesRow
      <4>. QED  BY <4>1, <4>3, <4>4 DEF AcceptedStates, StaffStates
    <3>. QED  BY <1>2, <3>1 DEF CallServed, WritingPcs
  <2>4. c.fn = "approveFulfillmentProof" => Intended(c.request, c.pay)  BY <1>2 DEF CallServed, WritingPcs
  <2>5. TxServed(tx)  BY <1>2, <2>2, <2>3, <2>4 DEF TxServed, ServerWrites
  <2>6. Onward /\ RowsServed' /\ TxsServed' /\ RecordServed' /\ ProposalIsMined'
    BY <1>3, <1>6, <2>1, <2>5, SendsServed
  <2>7. PICK d : call' = [call EXCEPT ![w] = d] /\ CallServed(d)  BY <1>4, <1>6
  <2>8. CallServed(d)'  BY <1>3, <1>6, <2>7 DEF Send, CallServed, Authorized, At, Intended
  <2>. QED  BY <2>6, <2>7, <2>8, OneServed DEF PagesInv
<1>7. CASE runServerStep(w)  BY <1>1, <1>5, <1>6, <1>7 DEF runServerStep
<1>8. CASE ServerReceipt(w)
  <2>1. UNCHANGED chainVars  BY <1>8 DEF ServerReceipt, Untouched
  <2>. QED  BY <1>1, <1>5, <1>8, <2>1 DEF ServerReceipt
<1>. QED  BY <1>7, <1>8

LEMMA WorkerServed ==
  ASSUME ChainInv, PagesInv, NEW w \in Workers, WorkerStep(w) \/ Crash(w)
  PROVE  PagesInv'
<1>1. CASE InvalidateCodes(w) \/ MailOwnerCode(w) \/ ConsumeChallenge(w) \/ Crash(w)
  <2>1. UNCHANGED <<chainVars, status, bound, assigned, intents, recovery>>
    BY <1>1 DEF InvalidateCodes, MailOwnerCode, ConsumeChallenge, Crash, Untouched, DbExcept
  <2>. QED  BY <1>1, <2>1, QuietEnd DEF InvalidateCodes, MailOwnerCode, ConsumeChallenge, Crash
<1>2. CASE ReconcileNomination(w) \/ ConsumeCode(w)
  <2>1. UNCHANGED <<chainVars, status, bound, assigned, intents, recovery>>
    BY <1>2 DEF ReconcileNomination, ConsumeCode, DbExcept
  <2>2. End(w) \/ \E pc \in {"consume", "challenge"} : Continue(w, pc)  BY <1>2 DEF ReconcileNomination, ConsumeCode
  <2>3. \A pc \in {"consume", "challenge"} : pc \notin {"sweep"} \cup WritingPcs  BY DEF WritingPcs
  <2>. QED  BY <2>1, <2>2, <2>3, QuietEnd, ContinuesServed
<1>3. CASE DeliverOwnerCode(w)
  <2>1. UNCHANGED <<chainVars, status, bound, assigned, intents, recovery>>
    BY <1>3 DEF DeliverOwnerCode, DbExcept
  <2>2. PICK n : n = code'[call[w].request].gen  OBVIOUS
  <2>3. PICK d : d = [call[w] EXCEPT !.pc = "mail", !.pay = n]  OBVIOUS
  <2>4. call' = [call EXCEPT ![w] = d]  BY <1>3, <2>2, <2>3 DEF DeliverOwnerCode
  <2>5. d.pc = "mail"  BY <2>3 DEF ChainInv, CallsFit, CallFits
  <2>6. CallServed(d)  BY <2>5 DEF CallServed, WritingPcs
  <2>. QED  BY <2>1, <2>4, <2>6, QuietCall
<1>. QED  BY <1>1, <1>2, <1>3, AssignServed, ServerStepServed, CompleteServed, SweepWritesServed DEF WorkerStep

LEMMA OwnerSendsServed ==
  ASSUME ChainInv, PagesInv, NEW r \in Requests, OwnerSends(r)
  PROVE  PagesInv'
<1>1. UNCHANGED <<status, bound, intents, assigned, recovery, call>>  BY DEF OwnerSends, DbExcept
<1>2. PICK fn, arg : /\ Send(Tx(fn, r, arg))
                     /\ \/ fn = "openRedemption" /\ status[r] \notin {"none", "draft"}
                        \/ fn \in {"cancelRedemption", "setCollectorCommitment"}
                        \/ fn = "finalizeRedemption" /\ bound[r].authorization # None /\ arg = bound[r].authorization
  BY DEF OwnerSends
<1>3. PICK tx : tx = Tx(fn, r, arg)  OBVIOUS
<1>4. tx.fn = fn /\ tx.request = r /\ tx.arg = arg  BY <1>3 DEF Tx
<1>5. RowServed(r)  BY RowOf
<1>6. fn = "openRedemption" => status[r] \in BegunStates  BY <1>2, <1>5 DEF RowServed, RowStates
<1>7. fn = "finalizeRedemption" => status[r] \in AuthorizedStates /\ Authorized(r, arg) /\ Signed(r)
  BY <1>2, <1>5 DEF RowServed, Signed
<1>8. TxServed(tx)  BY <1>2, <1>3, <1>4, <1>6, <1>7 DEF TxServed
<1>9. Onward /\ RowsServed' /\ TxsServed' /\ RecordServed' /\ ProposalIsMined'
  BY <1>1, <1>2, <1>3, <1>8, SendsServed
<1>. QED  BY <1>1, <1>9, CallsStayServed DEF PagesInv

LEMMA ApproverSendsServed ==
  ASSUME ChainInv, PagesInv, NEW r \in Requests, NEW a \in Approvers, ApproverSends(r, a)
  PROVE  PagesInv'
<1>1. UNCHANGED <<status, bound, intents, assigned, recovery, call>>  BY DEF ApproverSends, DbExcept
<1>2. PICK fn \in {"proposeRecovery", "approveRecovery", "executeRecovery"} : Send(Tx(fn, r, a))
  BY DEF ApproverSends
<1>3. PICK tx : tx = Tx(fn, r, a)  OBVIOUS
<1>4. tx.fn = fn /\ tx.request = r /\ tx.arg = a  BY <1>3 DEF Tx
<1>5. At(r, 4) /\ status[r] \in ApprovedStates  BY WaitingIsApproved DEF ApproverSends
<1>6. TxServed(tx)  BY <1>2, <1>3, <1>4, <1>5 DEF TxServed
<1>7. Onward /\ RowsServed' /\ TxsServed' /\ RecordServed' /\ ProposalIsMined'
  BY <1>1, <1>2, <1>3, <1>6, SendsServed
<1>. QED  BY <1>1, <1>7, CallsStayServed DEF PagesInv

LEMMA RequestServed ==
  ASSUME ChainInv, PagesInv, NEW r \in Requests, RequestStep(r)
  PROVE  PagesInv'
<1>1. ASSUME CodeTime(r) \/ WrongCode(r)  PROVE PagesInv'
  <2>1. UNCHANGED <<chainVars, status, bound, assigned, intents, recovery, call>>
    BY <1>1 DEF CodeTime, WrongCode, DbExcept
  <2>. QED  BY <2>1, QuietStep
<1>2. ASSUME NEW s, NEW x, PrepareOwnerAuthorization(r, s, x) \/ RequestEvidenceUpload(r, x) \/ ConfirmEvidenceUpload(r, x)
      PROVE  PagesInv'
  <2>1. UNCHANGED <<chainVars, status, bound, assigned, intents, recovery, call>>
    BY <1>2 DEF PrepareOwnerAuthorization, RequestEvidenceUpload, ConfirmEvidenceUpload, DbExcept
  <2>. QED  BY <2>1, QuietStep
<1>3. ASSUME NEW s, NEW x, PrepareCancellation(r, s) \/ NominateProxy(r, s, x)  PROVE PagesInv'
  <2>1. UNCHANGED <<chainVars, status, bound, assigned, recovery, call>>
    BY <1>3 DEF PrepareCancellation, NominateProxy, DbExcept
  <2>2. PICK key, pay : key[1] \in {"cancel_redemption", "nominate_proxy"} /\ storeIntent(r, key, pay)
    BY <1>3 DEF PrepareCancellation, NominateProxy, Key
  <2>. QED  BY <2>1, <2>2, Stores, CallsStayServed DEF PagesInv
<1>4. ASSUME NEW e, RequestEvidenceUpload(r, e) \/ ConfirmEvidenceUpload(r, e)  PROVE PagesInv'
  BY <1>2, <1>4
<1>. QED  BY <1>1, <1>2, <1>3, <1>4, OwnerSendsServed, ApproverSendsServed, DraftServed, RecoveryServed DEF RequestStep

-----------------------------------------------------------------------------
(* Mining. *)

\* What becomes of the record and of the proposal, by what is mined.
LEMMA MinedIs ==
  ASSUME ChainInv, PagesInv, NEW tx \in pending, Mine(tx)
  PROVE  \/ UNCHANGED <<rec, proposal, mined>>
         \/ /\ mined' = mined \cup {tx}
            /\ \/ proposal' = proposal /\ tx.fn \notin {"proposeRecovery", "approveRecovery", "executeRecovery"}
               \/ /\ tx.fn = "proposeRecovery" /\ rec.phase = 4 /\ rec' = rec /\ proposal.by = {}
                  /\ proposal' = [proposal EXCEPT !.by = {tx.arg}]
               \/ /\ tx.fn = "approveRecovery" /\ rec.phase = 4 /\ rec' = rec /\ proposal.by # {} /\ tx.arg \notin proposal.by
                  /\ proposal' = [proposal EXCEPT !.by = proposal.by \cup {tx.arg}]
               \/ /\ tx.fn = "executeRecovery" /\ rec.phase = 4
                  /\ Cardinality(proposal.by) >= 2 /\ proposal.aged
                  /\ proposal' = [proposal EXCEPT !.executed = TRUE]
<1>1. CASE ~Accepts(tx)  BY <1>1 DEF Mine
<1>2. CASE Accepts(tx)
  <2>1. rec' = RecordAfter(tx) /\ mined' = mined \cup {tx}  BY <1>2 DEF Mine
  <2>2. CASE tx.fn = "proposeRecovery"
    <3>1. rec.phase = 4 /\ proposal.by = {}  BY <1>2, <2>2 DEF Accepts, ChainPhase
    <3>2. rec' = rec  BY <2>1, <2>2 DEF RecordAfter
    <3>3. proposal' = [proposal EXCEPT !.by = @ \cup {tx.arg}]  BY <1>2, <2>2 DEF Mine
    <3>4. proposal.by \cup {tx.arg} = {tx.arg}  BY <3>1
    <3>. QED  BY <2>1, <2>2, <3>1, <3>2, <3>3, <3>4
  <2>3. CASE tx.fn = "approveRecovery"
    <3>1. rec.phase = 4 /\ proposal.by # {} /\ tx.arg \notin proposal.by  BY <1>2, <2>3 DEF Accepts, ChainPhase
    <3>2. rec' = rec  BY <2>1, <2>3 DEF RecordAfter
    <3>3. proposal' = [proposal EXCEPT !.by = @ \cup {tx.arg}]  BY <1>2, <2>3 DEF Mine
    <3>. QED  BY <2>1, <2>3, <3>1, <3>2, <3>3
  <2>4. CASE tx.fn = "executeRecovery"
    BY <1>2, <2>1, <2>4 DEF Accepts, ChainPhase, Mine
  <2>5. CASE tx.fn \notin {"proposeRecovery", "approveRecovery", "executeRecovery"}
    BY <1>2, <2>1, <2>5 DEF Mine
  <2>. QED  BY <2>2, <2>3, <2>4, <2>5
<1>. QED  BY <1>1, <1>2

LEMMA ApprovalMined ==
  ASSUME ChainInv, NEW tx \in pending, Mine(tx), rec'.phase >= 4
  PROVE  \/ rec.phase >= 4 /\ rec'.approval = rec.approval
         \/ rec.phase = 3 /\ tx.fn = "approveFulfillmentProof" /\ rec'.approval = tx.arg
<1>1. DOMAIN rec = {"phase", "workflow", "commitment", "digest", "proofVersion", "approval"} /\ rec.phase \in 0..5
  BY DEF ChainInv, ChainSound, RecSound, NoRecord
<1>2. CASE rec' = rec  BY <1>2
<1>3. CASE rec' = RecordAfter(tx) /\ Accepts(tx)
  <2>1. CASE tx.fn = "approveFulfillmentProof"
    BY <1>1, <1>3, <2>1 DEF Accepts, RecordAfter, ChainPhase
  <2>2. CASE tx.fn \in {"finalizeRedemption", "executeRecovery"}
    <3>1. rec.phase = 4  BY <1>3, <2>2 DEF Accepts, ChainPhase
    <3>2. rec' = [rec EXCEPT !.phase = 5]  BY <1>3, <2>2 DEF RecordAfter, ChainPhase
    <3>. QED  BY <1>1, <3>1, <3>2
  <2>. QED  BY <1>2, <2>1, <2>2, RecordMoves DEF ChainInv, ChainSound, RecSound, NoRecord, ChainPhase
<1>. QED  BY <1>2, <1>3 DEF Mine

LEMMA MiningFreezes ==
  ASSUME ChainInv, NEW tx \in pending, Mine(tx)
  PROVE  Frozen
<1>. SUFFICES ASSUME rec.phase >= 4  PROVE Frozen
  BY DEF Frozen
<1>1. DOMAIN rec = {"phase", "workflow", "commitment", "digest", "proofVersion", "approval"} /\ rec.phase \in 4..5
  BY DEF ChainInv, ChainSound, RecSound, NoRecord
<1>2. CASE rec' = rec  BY <1>2 DEF Frozen
<1>3. CASE rec' = RecordAfter(tx) /\ Accepts(tx)
  <2>2. rec' = rec \/ tx.fn \in {"finalizeRedemption", "executeRecovery"}  BY <1>1, RecordMoves DEF ChainInv
  <2>4. CASE tx.fn \in {"finalizeRedemption", "executeRecovery"}
    <3>1. rec' = [rec EXCEPT !.phase = 5]  BY <1>3, <2>4 DEF RecordAfter, ChainPhase
    <3>. QED  BY <1>1, <3>1 DEF Frozen
  <2>. QED  BY <1>2, <2>2, <2>4
<1>. QED  BY <1>2, <1>3 DEF Mine

\* The approvers that signed only become more.
LEMMA ProposalGrows ==
  ASSUME ChainInv, PagesInv, NEW tx \in pending, Mine(tx)
  PROVE  /\ IsFiniteSet(proposal'.by) /\ DOMAIN proposal' = DOMAIN NoProposal
         /\ proposal.by \subseteq proposal'.by /\ (Cardinality(proposal.by) >= 2 => Cardinality(proposal'.by) >= 2)
<1>1. DOMAIN proposal = {"by", "aged", "executed"} /\ IsFiniteSet(proposal.by)
  BY DEF PagesInv, ProposalIsMined, NoProposal
<1>2. CASE proposal'.by = proposal.by /\ DOMAIN proposal' = DOMAIN proposal  BY <1>1, <1>2 DEF NoProposal
<1>4. CASE tx.fn = "proposeRecovery" /\ proposal.by = {} /\ proposal' = [proposal EXCEPT !.by = {tx.arg}]
  <2>1. proposal'.by = {tx.arg} /\ DOMAIN proposal' = DOMAIN proposal  BY <1>1, <1>4
  <2>2. IsFiniteSet({tx.arg}) /\ Cardinality({}) = 0  BY FS_Singleton, FS_EmptySet
  <2>. QED  BY <1>1, <1>4, <2>1, <2>2 DEF NoProposal
<1>5. CASE tx.arg \notin proposal.by /\ proposal' = [proposal EXCEPT !.by = proposal.by \cup {tx.arg}]
  <2>1. proposal'.by = proposal.by \cup {tx.arg} /\ DOMAIN proposal' = DOMAIN proposal  BY <1>1, <1>5
  <2>2. PICK n : n = Cardinality(proposal.by)  OBVIOUS
  <2>3. n \in Nat  BY <1>1, <2>2, FS_CardinalityType
  <2>4. IsFiniteSet(proposal'.by) /\ Cardinality(proposal'.by) = n + 1  BY <1>1, <1>5, <2>1, <2>2, FS_AddElement
  <2>. QED  BY <1>1, <2>1, <2>2, <2>3, <2>4 DEF NoProposal
<1>6. CASE proposal' = [proposal EXCEPT !.executed = TRUE]
  <2>1. proposal'.by = proposal.by /\ DOMAIN proposal' = DOMAIN proposal  BY <1>1, <1>6
  <2>. QED  BY <1>2, <2>1
<1>7. CASE proposal' = proposal  BY <1>2, <1>7
<1>. QED  BY <1>4, <1>5, <1>6, <1>7, MinedIs

LEMMA ProposalMining ==
  ASSUME ChainInv, PagesInv, NEW tx \in pending, Mine(tx)
  PROVE  ProposalIsMined'
<1>1. /\ DOMAIN proposal = {"by", "aged", "executed"} /\ ProposalIsMined /\ Frozen /\ TxServed(tx) /\ TxFits(tx)
      /\ mined \subseteq mined'
  BY MiningFreezes DEF PagesInv, ProposalIsMined, NoProposal, TxsServed, ChainInv, ChainSound, Mine
<1>2. IsFiniteSet(proposal'.by) /\ DOMAIN proposal' = DOMAIN NoProposal /\ proposal.by \subseteq proposal'.by
      /\ (Cardinality(proposal.by) >= 2 => Cardinality(proposal'.by) >= 2)
  BY ProposalGrows
<1>3. Cardinality({}) = 0  BY FS_EmptySet
<1>4. proposal.executed => proposal.by # {}
  <2>1. proposal.executed => Cardinality(proposal.by) >= 2  BY <1>1 DEF ProposalIsMined
  <2>. QED  BY <1>3, <2>1
<1>5. CASE UNCHANGED <<rec, proposal, mined>>  BY <1>1, <1>5 DEF ProposalIsMined
<1>6. CASE /\ mined' = mined \cup {tx} /\ proposal' = proposal
           /\ tx.fn \notin {"proposeRecovery", "approveRecovery", "executeRecovery"}
  <2>1. proposal.by # {} => rec'.phase >= 4 /\ rec'.workflow = rec.workflow  BY <1>1 DEF ProposalIsMined, Frozen
  <2>2. proposal.by # {} =>
          \E a \in Approvers :
            /\ Tx("proposeRecovery", rec.workflow, a) \in mined'
            /\ proposal.by = {a} \/ \E b \in Approvers : Tx("approveRecovery", rec.workflow, b) \in mined'
    BY <1>1 DEF ProposalIsMined
  <2>3. proposal.executed => /\ Cardinality(proposal.by) >= 2 /\ proposal.aged
                             /\ \E a \in Approvers : Tx("executeRecovery", rec.workflow, a) \in mined'
    BY <1>1 DEF ProposalIsMined
  <2>4. \A t \in mined' : t.fn = "proposeRecovery" => proposal.by # {}  BY <1>1, <1>6 DEF ProposalIsMined
  <2>. QED  BY <1>2, <1>4, <1>6, <2>1, <2>2, <2>3, <2>4 DEF ProposalIsMined
<1>7. CASE tx.fn \in {"proposeRecovery", "approveRecovery", "executeRecovery"} /\ rec.phase = 4 /\ mined' = mined \cup {tx}
  <2>1. PICK r, arg, fn : r = tx.request /\ arg = tx.arg /\ fn = tx.fn  OBVIOUS
  <2>2. tx = Tx(fn, r, arg) /\ arg \in Approvers /\ rec.workflow = r  BY <1>1, <1>7, <2>1 DEF TxServed, At
  <2>3. rec'.phase >= 4 /\ rec'.workflow = r  BY <1>1, <1>7, <2>2 DEF Frozen
  <2>4. CASE fn = "proposeRecovery" /\ proposal.by = {} /\ proposal' = [proposal EXCEPT !.by = {arg}]
    <3>1. proposal'.by = {arg} /\ proposal'.executed = proposal.executed  BY <1>1, <2>4
    <3>2. Tx("proposeRecovery", r, arg) \in mined'  BY <1>7, <2>2, <2>4
    <3>3. ~proposal'.executed  BY <1>4, <2>4, <3>1
    <3>. QED  BY <1>2, <2>2, <2>3, <3>1, <3>2, <3>3 DEF ProposalIsMined
  <2>5. CASE fn = "approveRecovery" /\ proposal.by # {} /\ proposal' = [proposal EXCEPT !.by = proposal.by \cup {arg}]
    <3>1. proposal'.executed = proposal.executed /\ proposal'.aged = proposal.aged /\ proposal'.by # {}  BY <1>1, <2>5
    <3>2. Tx("approveRecovery", r, arg) \in mined'  BY <1>7, <2>2, <2>5
    <3>3. PICK a \in Approvers : Tx("proposeRecovery", r, a) \in mined'  BY <1>1, <2>2, <2>5 DEF ProposalIsMined
    <3>4. proposal.executed => \E b \in Approvers : Tx("executeRecovery", r, b) \in mined'
      BY <1>1, <2>2 DEF ProposalIsMined
    <3>5. proposal.executed => Cardinality(proposal'.by) >= 2 /\ proposal.aged  BY <1>1, <1>2 DEF ProposalIsMined
    <3>. QED  BY <1>2, <2>2, <2>3, <3>1, <3>2, <3>3, <3>4, <3>5 DEF ProposalIsMined
  <2>6. CASE /\ fn = "executeRecovery" /\ Cardinality(proposal.by) >= 2 /\ proposal.aged
             /\ proposal' = [proposal EXCEPT !.executed = TRUE]
    <3>1. proposal'.aged = proposal.aged /\ proposal'.by = proposal.by  BY <1>1, <2>6
    <3>2. Tx("executeRecovery", r, arg) \in mined'  BY <1>7, <2>2, <2>6
    <3>3. proposal.by # {}  BY <1>3, <2>6
    <3>4. PICK a \in Approvers :
            /\ Tx("proposeRecovery", r, a) \in mined'
            /\ proposal.by = {a} \/ \E b \in Approvers : Tx("approveRecovery", r, b) \in mined'
      BY <1>1, <2>2, <3>3 DEF ProposalIsMined
    <3>. QED  BY <1>2, <2>2, <2>3, <2>6, <3>1, <3>2, <3>3, <3>4 DEF ProposalIsMined
  <2>. QED  BY <1>7, <2>1, <2>4, <2>5, <2>6, <1>5, MinedIs
<1>. QED  BY <1>5, <1>6, <1>7, MinedIs

LEMMA RecordMining ==
  ASSUME ChainInv, PagesInv, UNCHANGED <<status, bound, intents>>, NEW tx \in pending, Mine(tx)
  PROVE  RecordServed'
<1>1. /\ RecordServed /\ Frozen /\ TxServed(tx) /\ TxFits(tx) /\ mined \subseteq mined' /\ rec.phase \in 0..5
      /\ (rec.phase = 0 <=> rec.workflow = None) /\ None \notin Requests
  BY MiningFreezes, RedemptionAssumption DEF PagesInv, TxsServed, ChainInv, ChainSound, RecSound, Mine
<1>2. PICK r : r = tx.request  OBVIOUS
<1>3. PICK arg : arg = tx.arg  OBVIOUS
<1>4. \A x, o : Intended(x, o) => Intended(x, o)'  BY DEF Intended
<1>5. CASE rec' = rec
  <2>1. proposal.executed => proposal'.executed
    BY MinedIs DEF PagesInv, ProposalIsMined, NoProposal
  <2>2. \A x, a : Authorized(x, a) => Authorized(x, a)'  BY <1>1, AuthorizedStays
  <2>. QED  BY <1>1, <1>4, <1>5, <2>1, <2>2 DEF RecordServed, Signed
<1>6. CASE tx.fn = "openRedemption" /\ rec'.phase = 1 /\ rec'.workflow = tx.request
  BY <1>1, <1>6 DEF RecordServed, TxServed
<1>7. CASE rec' = NoRecord
  <2>1. rec'.phase = 0  BY <1>7 DEF NoRecord, ChainPhase
  <2>. QED  BY <2>1 DEF RecordServed
<1>8. CASE tx.fn = "setCollectorCommitment" /\ rec.phase = 1 /\ rec'.phase = 1 /\ rec'.workflow = rec.workflow
  BY <1>1, <1>8 DEF RecordServed
<1>9. CASE tx.fn = "startFulfillment" /\ rec.phase = 1 /\ rec'.phase = 2 /\ rec'.workflow = rec.workflow
  <2>1. rec.workflow = r  BY <1>1, <1>2, <1>9 DEF TxFits
  <2>2. status[r] \in AcceptedStates  BY <1>1, <1>2, <1>9 DEF TxServed
  <2>. QED  BY <1>1, <1>9, <2>1, <2>2 DEF RecordServed, BegunStates
<1>10. CASE tx.fn = "submitFulfillmentProof" /\ rec.phase = 2 /\ rec'.phase = 3 /\ rec'.workflow = rec.workflow
  BY <1>1, <1>10 DEF RecordServed
<1>11. CASE tx.fn = "approveFulfillmentProof" /\ rec.phase = 3 /\ rec'.phase = 4 /\ rec'.workflow = rec.workflow
  <2>1. rec.workflow = r  BY <1>1, <1>2, <1>11 DEF TxFits, At
  <2>2. rec'.approval = arg  BY <1>3, <1>11, ApprovalMined
  <2>3. Intended(r, arg)'  BY <1>1, <1>2, <1>3, <1>4, <1>11 DEF TxServed
  <2>4. Intended(r, rec.approval)'  BY <2>2, <2>3 DEF Intended
  <2>. QED  BY <1>1, <1>11, <2>1, <2>4 DEF RecordServed, Intended
<1>12. CASE tx.fn \in {"executeRecovery", "finalizeRedemption"} /\ rec.phase = 4 /\ rec'.phase = 5 /\ mined' = mined \cup {tx}
  <2>1. rec.workflow = r
    BY <1>1, <1>2, <1>12 DEF TxFits, TxServed, At, Authorized
  <2>2. rec'.workflow = r /\ rec'.approval = rec.approval  BY <1>1, <1>12, <2>1 DEF Frozen
  <2>3. PICK o : o = rec.approval  OBVIOUS
  <2>4. Intended(r, o)' /\ rec'.approval = o  BY <1>1, <1>4, <1>12, <2>1, <2>2, <2>3 DEF RecordServed
  <2>5. Intended(r, rec.approval)'  BY <2>4 DEF Intended
  <2>6. status[r] \in ApprovedStates /\ status[r] \in AcceptedStates /\ status[r] \in BegunStates
    BY <1>1, <1>2, <1>12 DEF TxServed, AuthorizedStates, ApprovedStates, AcceptedStates, BegunStates
  <2>7. CASE tx.fn = "executeRecovery"
    <3>1. proposal'.executed
      <4>1. proposal' = [proposal EXCEPT !.executed = TRUE]
        <5>1. rec' # rec  BY <1>12
        <5>. QED  BY <2>7, <5>1, MinedIs
      <4>2. DOMAIN proposal = {"by", "aged", "executed"}  BY DEF PagesInv, ProposalIsMined, NoProposal
      <4>. QED  BY <4>1, <4>2
    <3>. QED  BY <1>12, <2>2, <2>5, <2>6, <3>1 DEF RecordServed, Intended
  <2>8. CASE tx.fn = "finalizeRedemption"
    <3>1. tx = Tx("finalizeRedemption", r, arg) /\ Authorized(r, arg) /\ Signed(r)  BY <1>1, <1>2, <1>3, <2>8 DEF TxServed
    <3>2. Authorized(r, arg)'  BY <1>1, <3>1, AuthorizedStays
    <3>3. \E t \in mined' : t.fn = "finalizeRedemption" /\ Authorized(r, t.arg)' /\ t = Tx(t.fn, r, t.arg)
      BY <1>3, <1>12, <2>8, <3>1, <3>2
    <3>4. Signed(r)'  BY <3>1 DEF Signed
    <3>. QED  BY <1>12, <2>2, <2>5, <2>6, <3>3, <3>4 DEF RecordServed, Intended
  <2>. QED  BY <1>12, <2>7, <2>8
<1>. QED  BY <1>5, <1>6, <1>7, <1>8, <1>9, <1>10, <1>11, <1>12, RecordMoves DEF ChainInv

LEMMA ChainStepServed ==
  ASSUME ChainInv, PagesInv, ChainStep
  PROVE  PagesInv'
<1>1. UNCHANGED <<status, bound, intents, assigned, recovery, call>>  BY DEF ChainStep, DbExcept
<1>2. PICK tx \in pending : Mine(tx)  BY DEF ChainStep
<1>3. Frozen /\ ProposalIsMined' /\ RecordServed'  BY <1>1, <1>2, MiningFreezes, ProposalMining, RecordMining
<1>4. Onward  BY <1>1, <1>3 DEF Onward, GoesOn, Signed
<1>5. TxsServed'
  <2>1. pending' \subseteq pending  BY <1>2 DEF Mine
  <2>. QED  BY <1>4, <2>1, TxsStay
<1>6. ASSUME NEW r \in Requests  PROVE RowServed(r)'
  <2>1. RowServed(r)  BY RowOf
  <2>2. proposal.by # {} => proposal'.by # {}  BY <1>2, ProposalGrows
  <2>3. At(r, 4) => At(r, 4)'  BY <1>3, AtStays
  <2>4. \A a : Authorized(r, a) => Authorized(r, a)'  BY <1>3, AuthorizedStays
  <2>5. Recovering(r)'
    <3>1. Cardinality(proposal.by) >= 2 => Cardinality(proposal'.by) >= 2  BY <1>2, ProposalGrows
    <3>. QED  BY <1>1, <2>1, <2>2, <2>3, <3>1 DEF RowServed, Recovering
  <2>6. IntentsAreOne(r)'  BY <1>1, <2>1 DEF RowServed, IntentsAreOne
  <2>. QED  BY <1>1, <2>1, <2>4, <2>5, <2>6 DEF RowServed
<1>7. RowsServed'  BY <1>1, <1>6 DEF PagesInv, RowsServed
<1>. QED  BY <1>1, <1>3, <1>4, <1>5, <1>7, CallsStayServed DEF PagesInv

LEMMA GraceServed ==
  ASSUME ChainInv, PagesInv, GraceStep
  PROVE  PagesInv'
<1>1. UNCHANGED <<status, bound, intents, assigned, recovery, call, rec, pending, mined>>
  BY DEF GraceStep, GraceEnds, DbExcept
<1>2. proposal' = [proposal EXCEPT !.aged = TRUE] /\ DOMAIN proposal = {"by", "aged", "executed"}
  BY DEF GraceStep, GraceEnds, PagesInv, ProposalIsMined, NoProposal
<1>3. /\ proposal'.by = proposal.by /\ proposal'.executed = proposal.executed /\ proposal'.aged
      /\ DOMAIN proposal' = DOMAIN proposal
  BY <1>2
<1>4. Onward  BY <1>1, StandsStill
<1>5. ProposalIsMined'  BY <1>1, <1>3 DEF PagesInv, ProposalIsMined
<1>6. RecordServed'  BY <1>1, <1>3 DEF PagesInv, RecordServed, Intended, Authorized, At, Signed
<1>7. ASSUME NEW r \in Requests  PROVE RowServed(r)'
  BY <1>1, <1>3, RowOf DEF RowServed, Authorized, At, IntentsAreOne, Recovering
<1>8. RowsServed'  BY <1>1, <1>7 DEF PagesInv, RowsServed
<1>. QED  BY <1>1, <1>4, <1>5, <1>6, <1>8, TxsStay, CallsStayServed DEF PagesInv

LEMMA PagesInit == Init => PagesInv
<1>. SUFFICES ASSUME Init  PROVE PagesInv
  OBVIOUS
<1>1. RowsServed
  <2>1. ASSUME NEW r \in Requests  PROVE RowServed(r)
    BY RedemptionAssumption DEF Init, RowServed, RowStates, BegunStates, AcceptedStates, StaffStates, ApprovedStates,
       Unbound, IntentsAreOne, Recovering, NoRecovery
  <2>. QED  BY <2>1 DEF Init, RowsServed
<1>2. TxsServed  BY DEF Init, TxsServed
<1>3. ProposalIsMined  BY FS_EmptySet DEF Init, ProposalIsMined, NoProposal
<1>4. RecordServed  BY DEF Init, RecordServed, NoRecord, ChainPhase
<1>5. CallsServed  BY IdleIsServed DEF Init, CallsServed
<1>. QED  BY <1>1, <1>2, <1>3, <1>4, <1>5 DEF PagesInv

LEMMA PagesStep == ChainInv /\ PagesInv /\ [Next]_vars => PagesInv'
<1>. SUFFICES ASSUME ChainInv, PagesInv, [Next]_vars  PROVE PagesInv'
  OBVIOUS
<1>1. CASE UNCHANGED vars  BY <1>1, QuietStep DEF vars, dbVars
<1>. QED  BY <1>1, OwnerCallsServed, StaffCallsServed, WorkerServed, SweepReadsServed, RequestServed,
             ChainStepServed, GraceServed DEF Next

LEMMA PagesHold == SettledSpec => [](ChainInv /\ PagesInv)
<1>1. ChainInv /\ PagesInv /\ [Next /\ ReopensSettled]_vars => (ChainInv /\ PagesInv)'
  <2>1. [Next /\ ReopensSettled]_vars => [Next]_vars  OBVIOUS
  <2>. QED  BY <2>1, ChainStepKeeps, PagesStep
<1>. QED  BY <1>1, ChainInit, PagesInit, PTL DEF SettledSpec

-----------------------------------------------------------------------------
(* What the pages offer is served. *)

\* The states a row is in, by the lists the pages and the functions keep.
LEMMA RowIsIn ==
  ASSUME NEW st \in RowStates
  PROVE  /\ st \in ARRIVAL_FROM_STATES <=> st = "custodian_dispatched"
         /\ st \in APPROVAL_PENDING_STATES <=> st = "arrived"
         /\ st \in AWAITING_OWNER <=> st \in {"proof_approved", "owner_authorized"}
         /\ st \in OWNER_CANCELLABLE_STATES <=> st \in {"onchain_requested", "accepted"}
BY DEF RowStates, BegunStates, AcceptedStates, StaffStates, ApprovedStates, ARRIVAL_FROM_STATES,
       APPROVAL_PENDING_STATES, AWAITING_OWNER, OWNER_CANCELLABLE_STATES

\* A row that may be cancelled and owes the sweep nothing holds the token.
LEMMA CancellableHolds ==
  ASSUME ChainInv, NEW r \in Requests, status[r] \in OWNER_CANCELLABLE_STATES, ~RepairOwed(r), ~Stranded(r)
  PROVE  rec.workflow = r /\ rec.phase \in 1..4
<1>1. rec.phase \in 0..5 /\ (rec.phase = 0 <=> rec.workflow = None) /\ rec.workflow \in {None, r}
  BY DEF ChainInv, ChainSound, RecSound, Stranded
<1>2. status[r] \in {"onchain_requested", "accepted"}  BY DEF OWNER_CANCELLABLE_STATES
<1>3. ByRegistry(r) = status[r]  BY <1>2 DEF RepairOwed, SweptTo
<1>4. rec.phase # 5  BY <1>2, <1>3 DEF ByRegistry, ChainPhase
<1>5. rec.phase # 0  BY <1>2, <1>3 DEF ByRegistry, ChainPhase
<1>. QED  BY <1>1, <1>4, <1>5

LEMMA CameToIs ==
  ASSUME ChainInv, NEW r \in Requests, Reached(status[r]) > 0
  PROVE  rec.workflow = r /\ rec.phase >= Reached(status[r]) /\ rec.phase \in 0..5
BY DEF ChainInv, ChainSound, RecSound, RowsBehind, RowBehind, CameTo, At

LEMMA DiscardIsServed ==
  ASSUME ChainInv, PagesInv, NEW r \in Requests, status[r] \in {"draft", "committed"}, ~OpeningFound(r)
  PROVE  Discardable(r)
<1>1. rec.workflow = r => rec.phase \in 1..5
  BY RedemptionAssumption DEF ChainInv, ChainSound, RecSound
<1>2. rec.workflow = r => status[r] \in BegunStates  BY <1>1 DEF PagesInv, RecordServed
<1>3. rec.workflow = r => status[r] = "committed"
  BY <1>2 DEF BegunStates, AcceptedStates, StaffStates, ApprovedStates
<1>. QED  BY <1>1, <1>3 DEF Discardable, OpeningFound, ChainPhase

LEMMA AcceptIsServed ==
  ASSUME ChainInv, PagesInv, NEW r \in Requests, status[r] = "onchain_requested", ~RepairOwed(r), ~Stranded(r)
  PROVE  rec.phase = 1 /\ \E o \in Orgs : Acceptable(r, o)
<1>1. rec.workflow = r /\ rec.phase \in 1..4  BY CancellableHolds DEF OWNER_CANCELLABLE_STATES
<1>2. rec.phase >= 2 => status[r] \in AcceptedStates  BY <1>1 DEF PagesInv, RecordServed
<1>3. rec.phase = 1  BY <1>1, <1>2 DEF AcceptedStates, StaffStates, ApprovedStates
<1>4. PICK o \in Orgs : assigned[r] \in {None, o}
  BY RowOf, StaffAssumption DEF RowServed
<1>5. assertRedemptionTransition(status[r], "accepted")  BY DEF assertRedemptionTransition, transitionGraph
<1>. QED  BY <1>1, <1>3, <1>4, <1>5 DEF Acceptable, ChainPhase

LEMMA CollectIsServed ==
  ASSUME ChainInv, PagesInv, NEW r \in Requests, status[r] = "accepted", ~RepairOwed(r), ~Stranded(r)
  PROVE  assigned[r] # None /\ Collectable(r) /\ ServerServes(r, ChainPhase.Requested)
<1>1. rec.workflow = r /\ rec.phase \in 1..4  BY CancellableHolds DEF OWNER_CANCELLABLE_STATES
<1>2. assigned[r] # None  BY RowOf, RedemptionAssumption DEF RowServed, StaffStates
<1>3. assertRedemptionTransition(status[r], "custodian_collected")  BY DEF assertRedemptionTransition, transitionGraph
<1>. QED  BY <1>1, <1>2, <1>3 DEF Collectable, ServerServes, Landed, Owed, ChainPhase

LEMMA ArrivalIsServed ==
  ASSUME ChainInv, PagesInv, NEW r \in Requests, status[r] = "custodian_dispatched"
  PROVE  assigned[r] # None /\ ArrivalServed(r)
<1>1. rec.workflow = r /\ rec.phase \in 2..5  BY CameToIs, ReachedIs
<1>2. rec.phase # 5
  <2>1. status[r] \notin ApprovedStates  BY DEF ApprovedStates
  <2>. QED  BY <1>1, <2>1 DEF PagesInv, RecordServed
<1>3. ServerServes(r, ChainPhase.FulfillmentStarted)  BY <1>1, <1>2 DEF ServerServes, Landed, Owed, ChainPhase
<1>4. assigned[r] # None  BY RowOf, RedemptionAssumption DEF RowServed, StaffStates
<1>5. PICK s \in Sessions : TRUE  BY StaffAssumption
<1>6. PICK key : key = Key("record_arrival", s)  OBVIOUS
<1>7. key[1] = "record_arrival"  BY <1>6 DEF Key
<1>8. IntentsAreOne(r)  BY RowOf DEF RowServed
<1>9. \E e \in Evidence : Storable(r, key, <<e, ArrivalVersion(r, key)>>)
  <2>1. CASE IntentFor(r, key) = {}
    BY <2>1, StaffAssumption DEF Storable
  <2>2. CASE IntentFor(r, key) # {}
    <3>1. PICK i \in IntentFor(r, key) : i = (CHOOSE j \in IntentFor(r, key) : TRUE)  BY <2>2
    <3>2. i \in intents[r] /\ i.key = key  BY DEF IntentFor
    <3>3. PICK e \in Evidence : i.pay = <<e, i.pay[2]>>  BY <1>7, <1>8, <3>2 DEF IntentsAreOne
    <3>4. ArrivalVersion(r, key) = i.pay[2]  BY <2>2, <3>1 DEF ArrivalVersion
    <3>5. \A j \in IntentFor(r, key) : j.pay = i.pay  BY <1>8, <3>2 DEF IntentFor, IntentsAreOne
    <3>. QED  BY <3>3, <3>4, <3>5 DEF Storable
  <2>. QED  BY <2>1, <2>2
<1>. QED  BY <1>3, <1>4, <1>6, <1>9 DEF ArrivalServed

LEMMA ReleaseIsServed ==
  ASSUME ChainInv, PagesInv, NEW r \in Requests, status[r] = "arrived", ~Misbound(r)
  PROVE  ReleaseServed(r)
<1>1. rec.workflow = r /\ rec.phase \in 3..5  BY CameToIs, ReachedIs
<1>2. rec.phase # 5
  <2>1. status[r] \notin ApprovedStates  BY DEF ApprovedStates
  <2>. QED  BY <1>1, <2>1 DEF PagesInv, RecordServed
<1>3. ServerServes(r, ChainPhase.ProofSubmitted)  BY <1>1, <1>2 DEF ServerServes, Landed, Owed, ChainPhase
<1>4. Releasable(r)
  <2>1. assertRedemptionTransition(status[r], "proof_approved")  BY DEF assertRedemptionTransition, transitionGraph
  <2>2. rec.digest = bound[r].digest  BY DEF Misbound, BindsArrival
  <2>. QED  BY <2>1, <2>2 DEF Releasable
<1>5. IntentsAreOne(r)  BY RowOf DEF RowServed
<1>6. CASE rec.phase = 4
  <2>1. rec.approval \in Orgs /\ \E s \in Sessions : [key |-> Key("release_owner_code", s), pay |-> rec.approval] \in intents[r]
    BY <1>1, <1>6 DEF PagesInv, RecordServed, Intended
  <2>2. PICK s \in Sessions : [key |-> Key("release_owner_code", s), pay |-> rec.approval] \in intents[r]  BY <2>1
  <2>3. PICK i : i = [key |-> Key("release_owner_code", s), pay |-> rec.approval]  OBVIOUS
  <2>4. i \in intents[r] /\ i.key = Key("release_owner_code", s) /\ i.pay = rec.approval  BY <2>2, <2>3
  <2>5. Storable(r, Key("release_owner_code", s), rec.approval)
    BY <1>5, <2>4 DEF Storable, IntentFor, IntentsAreOne
  <2>6. ApprovalBinding(rec.approval) = rec.approval  BY DEF ApprovalBinding
  <2>. QED  BY <1>3, <1>4, <2>1, <2>5, <2>6 DEF ReleaseServed
<1>7. CASE rec.phase = 3
  <2>1. PICK s \in Sessions : TRUE  BY StaffAssumption
  <2>2. PICK key : key = Key("release_owner_code", s)  OBVIOUS
  <2>3. PICK o \in Orgs : Storable(r, key, o)
    <3>1. CASE IntentFor(r, key) = {}  BY <3>1, StaffAssumption DEF Storable
    <3>2. CASE IntentFor(r, key) # {}
      <4>1. PICK i \in IntentFor(r, key) : TRUE  BY <3>2
      <4>2. i \in intents[r] /\ i.key = key /\ key[1] = "release_owner_code"  BY <2>2, <4>1 DEF IntentFor, Key
      <4>3. i.pay \in Orgs  BY <1>5, <4>2 DEF IntentsAreOne
      <4>4. Storable(r, key, i.pay)  BY <1>5, <4>2 DEF Storable, IntentFor, IntentsAreOne
      <4>. QED  BY <4>3, <4>4
    <3>. QED  BY <3>1, <3>2
  <2>4. ApprovalBinding(o) = o  BY <1>7 DEF ApprovalBinding, ChainPhase
  <2>. QED  BY <1>3, <1>4, <2>2, <2>3, <2>4 DEF ReleaseServed
<1>. QED  BY <1>1, <1>2, <1>6, <1>7

\* The wallet's call that the manager takes now.
LEMMA AcceptsNow ==
  ASSUME NEW r, NEW a
  PROVE  /\ rec.phase = 0 => Accepts(Tx("openRedemption", r, a))
         /\ rec.phase = 1 => Accepts(Tx("cancelRedemption", r, a)) /\ Accepts(Tx("setCollectorCommitment", r, a))
         /\ rec.phase = 4 /\ a = FinalizeDigest(rec.workflow, rec) => Accepts(Tx("finalizeRedemption", r, a))
         /\ rec.phase = 4 /\ proposal.by = {} => Accepts(Tx("proposeRecovery", r, a))
         /\ rec.phase = 4 /\ proposal.by # {} /\ a \notin proposal.by => Accepts(Tx("approveRecovery", r, a))
         /\ rec.phase = 4 /\ Cardinality(proposal.by) >= 2 /\ proposal.aged => Accepts(Tx("executeRecovery", r, a))
<1>1. ASSUME rec.phase = 0  PROVE Accepts(Tx("openRedemption", r, a))  BY <1>1 DEF Accepts, Tx, ChainPhase
<1>2. ASSUME rec.phase = 1  PROVE Accepts(Tx("cancelRedemption", r, a)) /\ Accepts(Tx("setCollectorCommitment", r, a))
  BY <1>2 DEF Accepts, Tx, ChainPhase
<1>3. ASSUME rec.phase = 4, a = FinalizeDigest(rec.workflow, rec)  PROVE Accepts(Tx("finalizeRedemption", r, a))
  BY <1>3 DEF Accepts, Tx, ChainPhase
<1>4. ASSUME rec.phase = 4, proposal.by = {}  PROVE Accepts(Tx("proposeRecovery", r, a))
  BY <1>4 DEF Accepts, Tx, ChainPhase
<1>5. ASSUME rec.phase = 4, proposal.by # {}, a \notin proposal.by  PROVE Accepts(Tx("approveRecovery", r, a))
  BY <1>5 DEF Accepts, Tx, ChainPhase
<1>6. ASSUME rec.phase = 4, Cardinality(proposal.by) >= 2, proposal.aged  PROVE Accepts(Tx("executeRecovery", r, a))
  BY <1>6 DEF Accepts, Tx, ChainPhase
<1>. QED  BY <1>1, <1>2, <1>3, <1>4, <1>5, <1>6

\* The holder's burn is accepted, or it is the one that was mined.
LEMMA BurnIsServed ==
  ASSUME ChainInv, PagesInv, NEW r \in Requests, Signed(r), Burned(r) => ~proposal.executed
  PROVE  BurnInWallet(r)
<1>1. PICK a : a = bound[r].authorization  OBVIOUS
<1>2. status[r] \in AuthorizedStates /\ Authorized(r, a)  BY <1>1, RowOf DEF RowServed, Signed
<1>3. rec.workflow = r /\ rec.phase \in 4..5 /\ a = FinalizeDigest(rec.workflow, rec)
  BY <1>2 DEF Authorized, At, FinalizeDigest, ChainInv, ChainSound, RecSound
<1>4. CASE rec.phase = 4  BY <1>1, <1>3, <1>4, AcceptsNow DEF BurnInWallet
<1>5. CASE rec.phase = 5
  <2>1. ~proposal.executed  BY <1>3, <1>5 DEF Burned, ChainPhase
  <2>2. PICK tx \in mined : tx.fn = "finalizeRedemption" /\ Authorized(r, tx.arg) /\ tx = Tx(tx.fn, r, tx.arg)
    BY <1>3, <1>5, <2>1 DEF PagesInv, RecordServed
  <2>3. tx.arg = a  BY <1>2, <2>2 DEF Authorized
  <2>. QED  BY <1>1, <2>2, <2>3 DEF BurnInWallet
<1>. QED  BY <1>3, <1>4, <1>5

LEMMA RecoveryIsServed ==
  ASSUME ChainInv, PagesInv, NEW r \in Requests, Burned(r) => proposal.executed, NEW fn \in RecoveryOffer(r)
  PROVE  RecoverInWallet(r, fn)
<1>1. status[r] \in AWAITING_OWNER /\ (fn = "executeRecovery" => proposal.aged)  BY DEF RecoveryOffer
<1>2. rec.workflow = r /\ rec.phase \in 4..5 /\ (rec.phase = 5 => proposal.executed)
  BY <1>1, WaitingIsApproved DEF At, Burned, ChainPhase, ChainInv, ChainSound, RecSound
<1>3. ProposalIsMined /\ Recovering(r)  BY RowOf DEF PagesInv, RowServed
<1>4. Cardinality({}) = 0 /\ \A a : Cardinality({a}) = 1  BY FS_EmptySet, FS_Singleton
<1>5. proposal.executed => proposal.by # {} /\ \A a : proposal.by # {a}
  <2>1. proposal.executed => Cardinality(proposal.by) >= 2  BY <1>3 DEF ProposalIsMined
  <2>2. ASSUME NEW a, proposal.by = {a}  PROVE ~proposal.executed
    <3>1. PICK n : n = Cardinality(proposal.by)  OBVIOUS
    <3>2. n = 1  BY <1>4, <2>2, <3>1, Zenon
    <3>. QED  BY <2>1, <3>1, <3>2
  <2>3. proposal.by = {} => ~proposal.executed  BY <1>4, <2>1
  <2>. QED  BY <2>2, <2>3
<1>6. PICK a0 \in Approvers : TRUE  BY StaffAssumption
<1>7. CASE fn = "proposeRecovery"
  <2>1. CASE proposal.by = {}
    <3>1. rec.phase = 4  BY <1>2, <1>5, <2>1
    <3>. QED  BY <1>6, <1>7, <2>1, <3>1, AcceptsNow DEF RecoverInWallet
  <2>2. CASE proposal.by # {}
    <3>1. PICK a \in Approvers : Tx("proposeRecovery", r, a) \in mined  BY <1>2, <1>3, <2>2 DEF ProposalIsMined
    <3>. QED  BY <1>7, <3>1 DEF RecoverInWallet
  <2>. QED  BY <2>1, <2>2
<1>8. CASE fn = "approveRecovery"
  <2>1. recovery[r].state # "none"  BY <1>8 DEF RecoveryOffer
  <2>2. proposal.by # {}  BY <1>3, <2>1 DEF Recovering
  <2>3. PICK a \in Approvers : proposal.by = {a} \/ \E b \in Approvers : Tx("approveRecovery", r, b) \in mined
    BY <1>2, <1>3, <2>2 DEF ProposalIsMined
  <2>4. CASE proposal.by = {a}
    <3>1. rec.phase = 4  BY <1>2, <1>5, <2>4
    <3>2. PICK b \in Approvers : b \notin proposal.by  BY <2>4, StaffAssumption
    <3>. QED  BY <1>8, <2>2, <3>1, <3>2, AcceptsNow DEF RecoverInWallet
  <2>5. CASE \E b \in Approvers : Tx("approveRecovery", r, b) \in mined  BY <1>8, <2>5 DEF RecoverInWallet
  <2>. QED  BY <2>3, <2>4, <2>5
<1>9. CASE fn = "executeRecovery"
  <2>1. recovery[r].state # "none" /\ ~(recovery[r].approvals < 2)  BY <1>9 DEF RecoveryOffer
  <2>2. Cardinality(proposal.by) >= 2  BY <1>3, <2>1 DEF Recovering
  <2>3. CASE rec.phase = 4  BY <1>1, <1>6, <1>9, <2>2, <2>3, AcceptsNow DEF RecoverInWallet
  <2>4. CASE rec.phase = 5
    <3>1. PICK a \in Approvers : Tx("executeRecovery", r, a) \in mined  BY <1>2, <1>3, <2>4 DEF ProposalIsMined
    <3>. QED  BY <1>9, <3>1 DEF RecoverInWallet
  <2>. QED  BY <1>2, <2>3, <2>4
<1>. QED  BY <1>7, <1>8, <1>9 DEF RecoveryOffer

LEMMA AuthorizationIsServed ==
  ASSUME ChainInv, PagesInv, NEW r \in Requests, status[r] \in AWAITING_OWNER, ~Misbound(r), ~Burned(r)
  PROVE  finalizeAuthorizationBinding(r)
<1>1. rec.workflow = r /\ rec.phase = 4
  BY WaitingIsApproved DEF At, Burned, ChainPhase, ChainInv, ChainSound, RecSound
<1>. QED  BY <1>1 DEF finalizeAuthorizationBinding, Misbound, BindsArrival, BindsApproval, ChainPhase

LEMMA OfferIsServed ==
  ASSUME ChainInv, PagesInv, NEW r \in Requests, NEW fresh \in BOOLEAN,
         ~RepairOwed(r), ~Stranded(r), ~Misbound(r), ~Burned(r), NEW button \in Offered(r, fresh)
  PROVE  Served(r, button) \/ Overtaken(r, button)
<1>0. status[r] \in RowStates  BY RowOf DEF RowServed
<1>1. CASE button \in ReconcileOffer(r)
  BY <1>1 DEF ReconcileOffer, Served
<1>2. CASE button \in DiscardOffer(r)
  <2>1. button = "discard_redemption" /\ ~OpeningFound(r) /\ "discard_redemption" \in currentActions(status[r], "owner")
    BY <1>2 DEF DiscardOffer
  <2>2. status[r] \in {"draft", "committed"}  BY <2>1 DEF currentActions
  <2>3. Discardable(r)  BY <2>1, <2>2, DiscardIsServed
  <2>. QED  BY <2>1, <2>3 DEF Served
<1>3. CASE button \in CancelOffer(r)
  <2>1. button \in {"cancelRedemption", "prepare_cancellation"} /\ "cancel_redemption" \in currentActions(status[r], "owner")
    BY <1>3 DEF CancelOffer
  <2>2. status[r] \in OWNER_CANCELLABLE_STATES  BY <2>1 DEF currentActions
  <2>3. CASE button = "prepare_cancellation"  BY <2>3 DEF Served
  <2>4. CASE button = "cancelRedemption"
    <3>1. rec.workflow = r /\ rec.phase \in 1..4  BY <2>2, CancellableHolds
    <3>2. CASE rec.phase = 1  BY <2>4, <3>2, AcceptsNow DEF Served, CancelInWallet
    <3>3. CASE rec.phase > 1
      <4>1. Reached(status[r]) = 0  BY <2>2, ReachedIs DEF OWNER_CANCELLABLE_STATES
      <4>. QED  BY <2>4, <3>1, <3>3, <4>1 DEF Overtaken, Landed, ChainPhase
    <3>. QED  BY <3>1, <3>2, <3>3
  <2>. QED  BY <2>1, <2>3, <2>4
<1>4. CASE button \in NominateOffer(r)
  <2>1. /\ button \in {"setCollectorCommitment", "nominate_proxy"}
        /\ "nominate_proxy" \in currentActions(status[r], "owner")
    BY <1>4 DEF NominateOffer
  <2>2. status[r] = "onchain_requested"  BY <2>1 DEF currentActions
  <2>3. CASE button = "nominate_proxy"  BY <2>3 DEF Served
  <2>4. CASE button = "setCollectorCommitment"
    <3>1. rec.phase = 1  BY <2>2, AcceptIsServed
    <3>2. NominateInWallet(r)  BY <3>1, AcceptsNow DEF NominateInWallet
    <3>. QED  BY <2>4, <3>2 DEF Served
  <2>. QED  BY <2>1, <2>3, <2>4
<1>5. CASE button \in AuthorizeOffer(r, fresh)
  <2>1. button \in {"authorize_owner", "resend_owner_code"} /\ button \in currentActions(status[r], "owner")
    BY <1>5 DEF AuthorizeOffer
  <2>2. status[r] \in AWAITING_OWNER  BY <2>1 DEF currentActions
  <2>3. CASE button = "resend_owner_code"  BY <2>3 DEF Served
  <2>4. CASE button = "authorize_owner"  BY <2>2, <2>4, AuthorizationIsServed DEF Served
  <2>. QED  BY <2>1, <2>3, <2>4
<1>6. CASE button \in BurnOffer(r, fresh)
  <2>1. button = "finalizeRedemption" /\ Signed(r)  BY <1>6 DEF BurnOffer, FinalAuthorization, Signed
  <2>. QED  BY <2>1, BurnIsServed DEF Served
<1>7. CASE button \in RedeemOffer(r)
  <2>1. button = "openRedemption" /\ rec.phase = 0  BY <1>7 DEF RedeemOffer, ChainPhase
  <2>2. OpenInWallet(r)  BY <2>1, AcceptsNow DEF OpenInWallet
  <2>. QED  BY <2>1, <2>2 DEF Served
<1>8. CASE button \in DeskOffer(r, "bank")
  <2>1. button \in {"custodian_collect", "custodian_dispatch"} /\ button \in currentActions(status[r], "bank")
    BY <1>8 DEF DeskOffer, DESK_ACTIONS
  <2>2. CASE button = "custodian_dispatch"  BY <2>2 DEF Served
  <2>3. CASE button = "custodian_collect"
    <3>1. status[r] = "accepted"  BY <2>1, <2>3 DEF currentActions
    <3>. QED  BY <2>3, <3>1, CollectIsServed DEF Served
  <2>. QED  BY <2>1, <2>2, <2>3
<1>9. CASE button \in DeskOffer(r, "custodian")
  <2>1. button \in {"record_arrival", "release_owner_code"} /\ button \in currentActions(status[r], "custodian")
    BY <1>9 DEF DeskOffer, DESK_ACTIONS
  <2>2. CASE button = "record_arrival"
    <3>1. status[r] = "custodian_dispatched"  BY <1>0, <2>1, <2>2, RowIsIn DEF currentActions
    <3>. QED  BY <2>2, <3>1, ArrivalIsServed DEF Served
  <2>3. CASE button = "release_owner_code"
    <3>1. status[r] = "arrived"  BY <1>0, <2>1, <2>3, RowIsIn DEF currentActions
    <3>. QED  BY <2>3, <3>1, ReleaseIsServed DEF Served
  <2>. QED  BY <2>1, <2>2, <2>3
<1>10. CASE button \in AcceptOffer(r)
  <2>1. button = "accept_redemption" /\ status[r] = "onchain_requested"
    BY <1>10 DEF AcceptOffer, currentActions
  <2>. QED  BY <2>1, AcceptIsServed DEF Served
<1>11. CASE button \in ReleaseOffer(r)
  <2>1. button = "release_owner_code" /\ status[r] \in APPROVAL_PENDING_STATES
    BY <1>11 DEF ReleaseOffer, currentActions
  <2>2. status[r] = "arrived"  BY <1>0, <2>1, RowIsIn
  <2>. QED  BY <2>1, <2>2, ReleaseIsServed DEF Served
<1>12. CASE button \in RecoveryOffer(r)
  <2>1. button \in {"proposeRecovery", "approveRecovery", "executeRecovery"}  BY <1>12 DEF RecoveryOffer
  <2>2. RecoverInWallet(r, button)  BY <1>12, RecoveryIsServed
  <2>. QED  BY <2>1, <2>2 DEF Served
<1>. QED  BY <1>1, <1>2, <1>3, <1>4, <1>5, <1>6, <1>7, <1>8, <1>9, <1>10, <1>11, <1>12 DEF Offered, OwnerCard

LEMMA SomebodyIsServed ==
  ASSUME ChainInv, PagesInv, NEW r \in Requests, NEW fresh \in BOOLEAN,
         status[r] \notin {"none", "cancelled", "chain_burned", "fulfilled"},
         ~Stranded(r), ~Misbound(r), Burned(r) => fresh \/ proposal.executed, ~RepairOwed(r)
  PROVE  \E button \in Offered(r, fresh) \ Preparations : Served(r, button)
<1>1. status[r] \in {"draft", "committed", "onchain_requested", "accepted", "custodian_collected",
                     "custodian_dispatched", "arrived", "proof_approved", "owner_authorized"}
  BY RowOf DEF RowServed, RowStates, BegunStates, AcceptedStates, StaffStates, ApprovedStates
<1>2. ASSUME NEW button \in Offered(r, fresh), Served(r, button),
             button \notin {"prepare_cancellation", "nominate_proxy", "setCollectorCommitment", "resend_owner_code"}
      PROVE  \E b \in Offered(r, fresh) \ Preparations : Served(r, b)
  BY <1>2 DEF Preparations
<1>3. CASE status[r] \in {"draft", "committed"}
  <2>1. CASE OpeningFound(r)
    <3>1. "reconcile_onchain_request" \in Offered(r, fresh)  BY <2>1 DEF Offered, OwnerCard, ReconcileOffer
    <3>2. Served(r, "reconcile_onchain_request")  BY DEF Served
    <3>. QED  BY <1>2, <3>1, <3>2
  <2>2. CASE ~OpeningFound(r)
    <3>1. "discard_redemption" \in currentActions(status[r], "owner")  BY <1>3 DEF currentActions
    <3>2. "discard_redemption" \in Offered(r, fresh)  BY <2>2, <3>1 DEF Offered, OwnerCard, DiscardOffer
    <3>3. Served(r, "discard_redemption")  BY <1>3, <2>2, DiscardIsServed DEF Served
    <3>. QED  BY <1>2, <3>2, <3>3
  <2>. QED  BY <2>1, <2>2
<1>4. CASE status[r] = "onchain_requested"
  <2>1. "accept_redemption" \in Offered(r, fresh)  BY <1>4 DEF Offered, AcceptOffer, currentActions
  <2>2. Served(r, "accept_redemption")  BY <1>4, AcceptIsServed DEF Served
  <2>. QED  BY <1>2, <2>1, <2>2
<1>5. CASE status[r] = "accepted"
  <2>1. assigned[r] # None /\ Served(r, "custodian_collect")  BY <1>5, CollectIsServed DEF Served
  <2>2. Listed(r, "bank")  BY <1>5, <2>1 DEF Listed, BANK_QUEUE
  <2>3. "custodian_collect" \in DeskOffer(r, "bank")  BY <1>5, <2>2 DEF DeskOffer, DESK_ACTIONS, currentActions
  <2>. QED  BY <1>2, <2>1, <2>3 DEF Offered
<1>6. CASE status[r] = "custodian_collected"
  <2>1. assigned[r] # None  BY <1>6, RowOf, RedemptionAssumption DEF RowServed, StaffStates
  <2>2. Listed(r, "bank")  BY <1>6, <2>1 DEF Listed, BANK_QUEUE
  <2>3. "custodian_dispatch" \in DeskOffer(r, "bank")  BY <1>6, <2>2 DEF DeskOffer, DESK_ACTIONS, currentActions
  <2>4. Served(r, "custodian_dispatch")  BY DEF Served
  <2>. QED  BY <1>2, <2>3, <2>4 DEF Offered
<1>7. CASE status[r] = "custodian_dispatched"
  <2>1. assigned[r] # None /\ Served(r, "record_arrival")  BY <1>7, ArrivalIsServed DEF Served
  <2>2. Listed(r, "custodian")  BY <1>7, <2>1 DEF Listed, CUSTODIAN_QUEUE, ARRIVAL_FROM_STATES
  <2>3. "record_arrival" \in DeskOffer(r, "custodian")
    BY <1>7, <2>2 DEF DeskOffer, DESK_ACTIONS, currentActions, ARRIVAL_FROM_STATES
  <2>. QED  BY <1>2, <2>1, <2>3 DEF Offered
<1>8. CASE status[r] = "arrived"
  <2>1. "release_owner_code" \in ReleaseOffer(r)  BY <1>8 DEF ReleaseOffer, currentActions, APPROVAL_PENDING_STATES
  <2>2. Served(r, "release_owner_code")  BY <1>8, ReleaseIsServed DEF Served
  <2>. QED  BY <1>2, <2>1, <2>2 DEF Offered
<1>9. CASE status[r] \in {"proof_approved", "owner_authorized"}
  <2>1. status[r] \in AWAITING_OWNER  BY <1>9 DEF AWAITING_OWNER
  <2>2. rec.workflow = r /\ rec.phase \in 4..5 /\ (Burned(r) <=> rec.phase = 5)
    BY <2>1, WaitingIsApproved DEF At, Burned, ChainPhase, ChainInv, ChainSound, RecSound
  <2>3. CASE Burned(r) /\ proposal.executed
    <3>1. proposal.aged  BY <2>3 DEF PagesInv, ProposalIsMined
    <3>2. PICK fn \in {"proposeRecovery", "approveRecovery", "executeRecovery"} : fn \in RecoveryOffer(r)
      BY <2>1, <3>1 DEF RecoveryOffer
    <3>3. RecoverInWallet(r, fn)  BY <2>3, <3>2, RecoveryIsServed
    <3>4. Served(r, fn)  BY <3>2, <3>3 DEF Served
    <3>. QED  BY <1>2, <3>2, <3>4 DEF Offered
  <2>4. CASE Signed(r) /\ fresh /\ ~(Burned(r) /\ proposal.executed)
    <3>1. "finalizeRedemption" \in Offered(r, fresh)
      BY <2>4 DEF Offered, OwnerCard, BurnOffer, FinalAuthorization, Signed
    <3>2. Served(r, "finalizeRedemption")  BY <2>4, BurnIsServed DEF Served
    <3>. QED  BY <1>2, <3>1, <3>2
  <2>5. CASE ~Burned(r) /\ ~(Signed(r) /\ fresh)
    <3>1. "authorize_owner" \in currentActions(status[r], "owner")  BY <2>1 DEF currentActions
    <3>2. "authorize_owner" \in Offered(r, fresh)
      BY <2>5, <3>1 DEF Offered, OwnerCard, AuthorizeOffer, FinalAuthorization, Signed
    <3>3. Served(r, "authorize_owner")  BY <2>1, <2>5, AuthorizationIsServed DEF Served
    <3>. QED  BY <1>2, <3>2, <3>3
  <2>6. Burned(r) /\ ~proposal.executed => Signed(r)  BY <2>2 DEF PagesInv, RecordServed
  <2>. QED  BY <2>3, <2>4, <2>5, <2>6
<1>. QED  BY <1>1, <1>3, <1>4, <1>5, <1>6, <1>7, <1>8, <1>9

\* A page never offers what can only fail: every button of every page is served
\* by the server or the chain, whatever report was lost, call died or transaction
\* reverted before, unless the sweep owes the row a repair or the row belongs to
\* another redemption's token or proof.
THEOREM PagesOfferWhatIsServed == SettledSpec => []OfferedIsServed
<1>1. ChainInv /\ PagesInv => OfferedIsServed
  <2>. SUFFICES ASSUME ChainInv, PagesInv  PROVE OfferedIsServed
    OBVIOUS
  <2>. QED  BY OfferIsServed DEF OfferedIsServed
<1>. QED  BY <1>1, PagesHold, PTL

\* An unfinished redemption is never stuck: somebody is offered a step that moves
\* it on and is served, or the sweep owes the row a repair, in every state that
\* crashes, lost reports and retries lead to.
THEOREM RedemptionMovesOn == SettledSpec => []SomebodyMayAct
<1>1. ChainInv /\ PagesInv => SomebodyMayAct
  <2>. SUFFICES ASSUME ChainInv, PagesInv  PROVE SomebodyMayAct
    OBVIOUS
  <2>. QED  BY SomebodyIsServed DEF SomebodyMayAct
<1>. QED  BY <1>1, PagesHold, PTL
=============================================================================
