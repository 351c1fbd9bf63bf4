-------------------------- MODULE SellerSubmission --------------------------
(***************************************************************************)
(* A stone before it reaches the chain: v1-seller-submit, the gem lab and  *)
(* the bank over seller_submissions and their workflow log.                *)
(*                                                                         *)
(* A staff call reads the row and the version, does its own work and ends  *)
(* in one SQL function that locks the row.  A withdrawal writes the row    *)
(* first and its event afterwards, at the version it finds then.           *)
(***************************************************************************)
EXTENDS SellerRegistry, WorkflowLog

CONSTANTS Submissions, Workers, Keys, DailyLimit

ASSUME LimitsAreCounts == DailyLimit \in Nat /\ MaxSent \in Nat

VARIABLES
  row,        \* seller_submissions
  log,        \* the seller workflow log of each submission
  appraisals, \* gem_appraisals of the day: <<submission, idempotency key>>
  run         \* the invocation each worker runs

Idle == [pc |-> "idle"]

NewRow == [status |-> "none", activation |-> "pending", started |-> None, stale |-> FALSE,
           attempts |-> 0, pkg |-> None, floor |-> FALSE, hash |-> None, gem |-> None,
           appraised |-> FALSE, bank |-> FALSE, mode |-> "auction", minted |-> FALSE]

Begin(w, r) == run[w] = Idle /\ run' = [run EXCEPT ![w] = r]
End(w) == run' = [run EXCEPT ![w] = Idle]

Status(s, to) == row' = [row EXCEPT ![s].status = to]

registrationMayHaveBeenSent(r) == r.gem # None \/ r.hash # None \/ r.floor

-----------------------------------------------------------------------------
\* create: a client submission id that was seen before answers with its row.
Create(s, mode) ==
  /\ row[s].status = "none"
  /\ row' = [row EXCEPT ![s].status = "submitted", ![s].mode = mode]
  /\ UNCHANGED <<log, appraisals, run, chainVars>>

\* verify, once: queued for custody in lab mode or where the client release is
\* required, and approved outright otherwise.
Verify(s) ==
  /\ row[s].status = "submitted" /\ \E to \in {"awaiting_custody", "approved"} : Status(s, to)
  /\ UNCHANGED <<log, appraisals, run, chainVars>>

ConfirmCustody(s) ==
  /\ row[s].status = "awaiting_custody" /\ Status(s, "awaiting_grading")
  /\ UNCHANGED <<log, appraisals, run, chainVars>>

-----------------------------------------------------------------------------
\* A caller of a workflow without events names the row's status.
CurrentState(s) == IF log[s].version = 0 THEN row[s].status ELSE log[s].state

StaffCall(pc, s, key) ==
  [pc |-> pc, s |-> s, key |-> key, version |-> log[s].version, from |-> CurrentState(s)]

Staff(w, pc, s, key) ==
  /\ Begin(w, StaffCall(pc, s, key))
  /\ UNCHANGED <<row, log, appraisals, chainVars>>

AppraiseBegins(w, s, k) ==
  /\ row[s].status \notin {"none", "withdrawn"}
  /\ ~row[s].appraised \/ <<s, k>> \in appraisals
  /\ Staff(w, "appraise", s, k)
RejectBegins(w, s) ==
  row[s].status \notin {"none", "withdrawn"} /\ Staff(w, "reject", s, "reject")
ReceiptBegins(w, s) ==
  row[s].status \notin {"none", "withdrawn"} /\ Staff(w, "receive", s, "receive")

\* append_workflow_event for a call: its result, and the log it leaves.
Event(c, type, to) ==
  AppendWorkflowEvent(log[c.s], c.version, WorkflowEvent(c.key, type, c.from, to, None))

\* As it would be if the event were appended in a transaction of its own.
AppraisalAlone(w) ==
  LET c == run[w] e == Event(c, "gem_appraised", "appraised") IN
  /\ c.pc = "appraise"
  /\ IF ~row[c.s].appraised /\ Cardinality(appraisals) < DailyLimit
       THEN /\ appraisals' = appraisals \cup {<<c.s, c.key>>}
            /\ row' = [row EXCEPT ![c.s].appraised = TRUE]
            /\ log' = IF e.ok THEN [log EXCEPT ![c.s] = e.log] ELSE log
       ELSE UNCHANGED <<row, log, appraisals>>
  /\ End(w) /\ UNCHANGED chainVars
\* As it would be with the limit checked before the lock only.
AppraisalUncounted(w) ==
  LET c == run[w] e == Event(c, "gem_appraised", "appraised") IN
  /\ c.pc = "appraise"
  /\ IF ~row[c.s].appraised /\ e.ok
       THEN /\ appraisals' = appraisals \cup {<<c.s, c.key>>}
            /\ log' = [log EXCEPT ![c.s] = e.log]
            /\ row' = [row EXCEPT ![c.s].appraised = TRUE]
       ELSE UNCHANGED <<row, log, appraisals>>
  /\ End(w) /\ UNCHANGED chainVars

\* One transaction: a repeated key returns its appraisal and consumes nothing,
\* the day's limit is counted under the organisation's lock, and without the
\* event nothing is recorded.
record_gem_appraisal(w) ==
  LET c == run[w] e == Event(c, "gem_appraised", "appraised") IN
  /\ c.pc = "appraise"
  /\ IF /\ <<c.s, c.key>> \notin appraisals /\ ~row[c.s].appraised
        /\ Cardinality(appraisals) < DailyLimit /\ e.ok
       THEN /\ appraisals' = appraisals \cup {<<c.s, c.key>>}
            /\ log' = [log EXCEPT ![c.s] = e.log]
            /\ row' = [row EXCEPT ![c.s].appraised = TRUE,
                                  ![c.s].status = IF row[c.s].bank THEN "approved" ELSE @]
       ELSE UNCHANGED <<row, log, appraisals>>
  /\ End(w) /\ UNCHANGED chainVars

reject_gem_submission(w) ==
  LET c == run[w] e == Event(c, "gem_rejected", "rejected") IN
  /\ c.pc = "reject"
  /\ IF /\ ~Recorded(log[c.s], c.key) /\ ~row[c.s].appraised /\ e.ok
        /\ row[c.s].status \in {"awaiting_custody", "awaiting_grading"}
       THEN log' = [log EXCEPT ![c.s] = e.log] /\ Status(c.s, "rejected")
       ELSE UNCHANGED <<row, log>>
  /\ End(w) /\ UNCHANGED <<appraisals, chainVars>>

\* As it would be with the receipt's version not compared.
ReceiptAtAnyVersion(w) ==
  LET c == run[w] IN
  /\ c.pc = "receive"
  /\ IF row[c.s].appraised /\ ~row[c.s].bank
       THEN row' = [row EXCEPT ![c.s].bank = TRUE, ![c.s].status = "approved"]
       ELSE UNCHANGED row
  /\ UNCHANGED log /\ End(w) /\ UNCHANGED <<appraisals, chainVars>>

\* The bank's receipt approves the stone whatever its status was.
record_bank_receipt(w) ==
  LET c == run[w] e == Event(c, "bank_receipt_recorded", "bank_received") IN
  /\ c.pc = "receive"
  /\ IF ~Recorded(log[c.s], c.key) /\ row[c.s].appraised /\ ~row[c.s].bank /\ e.ok
       THEN /\ log' = [log EXCEPT ![c.s] = e.log]
            /\ row' = [row EXCEPT ![c.s].bank = TRUE, ![c.s].status = "approved"]
       ELSE UNCHANGED <<row, log>>
  /\ End(w) /\ UNCHANGED <<appraisals, chainVars>>

-----------------------------------------------------------------------------
\* withdraw: refused once anything may have reached the chain or while an
\* activation runs.  The write repeats what was checked.
sellerWithdrawalBlocker(r) ==
  \/ r.status \in {"none", "withdrawn", "rejected", "registered"}
  \/ registrationMayHaveBeenSent(r)
  \/ r.activation \notin {"pending", "prepared", "failed"}

Withdraw(w, s) ==
  /\ ~sellerWithdrawalBlocker(row[s])
  /\ Status(s, "withdrawn")
  /\ Begin(w, [pc |-> "withdrawn", s |-> s])
  /\ UNCHANGED <<log, appraisals, chainVars>>
\* A withdrawal's event has a key of its own.
WithdrawKey(s) == CHOOSE k \in {"withdrawal", "second withdrawal"} : ~Recorded(log[s], k)
WithdrawLoads(w) ==
  /\ run[w].pc = "withdrawn"
  /\ run' = [run EXCEPT ![w] = StaffCall("withdrawal", run[w].s, WithdrawKey(run[w].s))]
  /\ UNCHANGED <<row, log, appraisals, chainVars>>
WithdrawEvent(w) ==
  LET c == run[w] e == Event(c, "seller_withdrawn", "withdrawn") IN
  /\ c.pc = "withdrawal"
  /\ log' = IF e.ok THEN [log EXCEPT ![c.s] = e.log] ELSE log
  /\ End(w) /\ UNCHANGED <<row, appraisals, chainVars>>

IntakeNext ==
  \/ \E s \in Submissions :
       \/ \E mode \in {"auction", "seller_mint"} : Create(s, mode)
       \/ Verify(s) \/ ConfirmCustody(s)
  \/ \E w \in Workers, s \in Submissions :
       \/ \E k \in Keys : AppraiseBegins(w, s, k)
       \/ RejectBegins(w, s) \/ ReceiptBegins(w, s) \/ Withdraw(w, s)
  \/ \E w \in Workers :
       \/ record_gem_appraisal(w) \/ reject_gem_submission(w) \/ record_bank_receipt(w)
       \/ WithdrawLoads(w) \/ WithdrawEvent(w)
=============================================================================
