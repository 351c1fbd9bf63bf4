----------------------------- MODULE Redemption -----------------------------
(***************************************************************************)
(* v1-redemption-commitment and v1-redemption-lifecycle over the           *)
(* redemption tables, the server's writes to RedemptionManager, and the    *)
(* owner's browser, whose transactions and reports are separate steps.     *)
(*                                                                         *)
(* A call is one invocation of the function.  It begins with the row and   *)
(* the version its caller saw, may wait for a transaction, and finishes    *)
(* with complete_redemption_transition; it can die between any two steps.  *)
(* A session keeps one idempotency key per action until the action         *)
(* succeeds, so <<action, session>> is the key.                            *)
(***************************************************************************)
EXTENDS RedemptionChain, RedemptionFlow, WorkflowLog

CONSTANTS Workers, Sessions, Proxies, MaxVersion, MaxAttempts, MaxCodes,
          subject     \* the request whose holder the tracker speaks of

ASSUME RedemptionAssumption ==
  /\ MaxVersion \in Nat /\ MaxAttempts \in Nat \ {0} /\ MaxCodes \in Nat
  /\ None \notin Requests \cup Orgs \cup Evidence \cup Approvers \cup Proxies
  /\ subject \in Requests

VARIABLES
  status,      \* redemption_requests.status
  bound,       \* its binding: digest, proof version, approval, commitment, authorization
  log,         \* its workflow log
  intents,     \* redemption_action_intents: key -> payload
  nomination,  \* redemption_proxy_nominations
  code,        \* the current redemption_owner_codes row and its generation
  mail,        \* generations mailed to the owner
  challenge,   \* open redemption_authorization_challenges
  recovery,    \* redemption_recovery_proposals and its approvals
  assigned,    \* redemption_workflow_assignments: the delivering custodian
  uploads,     \* workflow_evidence: the arrival photographs and their state
  call         \* the invocation each worker runs

dbVars == <<status, bound, log, intents, nomination, code, mail, challenge, recovery,
            assigned, uploads>>
vars == <<chainVars, dbVars, call>>

Idle == [pc |-> "idle"]

Unbound == [digest |-> None, proofVersion |-> 0, approval |-> None, commitment |-> None,
            authorization |-> None]
NoNomination == [state |-> "none", commitment |-> None]
NoCode == [state |-> "none", gen |-> 0, tries |-> 0, locked |-> FALSE, recent |-> FALSE]
NoRecovery == [state |-> "none", approvals |-> 0, wallets |-> {}]

Init ==
  /\ rec = NoRecord /\ proposal = NoProposal /\ pending = {} /\ mined = {}
  /\ status = [r \in Requests |-> "none"]
  /\ bound = [r \in Requests |-> Unbound]
  /\ log = [r \in Requests |-> NewLog("committed")]
  /\ intents = [r \in Requests |-> {}]
  /\ nomination = [r \in Requests |-> NoNomination]
  /\ code = [r \in Requests |-> NoCode]
  /\ mail = [r \in Requests |-> {}]
  /\ challenge = [r \in Requests |-> {}]
  /\ recovery = [r \in Requests |-> NoRecovery]
  /\ assigned = [r \in Requests |-> None]
  /\ uploads = [r \in Requests |-> [e \in Evidence |-> "none"]]
  /\ call = [w \in Workers |-> Idle]

-----------------------------------------------------------------------------
\* The shared parts of a call.

Key(action, s) == <<action, s>>

\* A call of request r that will try to move it to a state.
Call(r, key, to, pay, next) ==
  [pc |-> next, request |-> r, key |-> key, version |-> log[r].version, from |-> status[r],
   to |-> to, pay |-> pay, fn |-> None, phase |-> 0]

ServerCall(r, key, to, pay, fn, phase) ==
  [Call(r, key, to, pay, "chain") EXCEPT !.fn = fn, !.phase = phase]

Begin(w, c) == call[w] = Idle /\ call' = [call EXCEPT ![w] = c]
Continue(w, pc) == call' = [call EXCEPT ![w].pc = pc]
End(w) == call' = [call EXCEPT ![w] = Idle]

\* The intent of a key: a retry must bring the same payload.
IntentFor(r, key) == {i \in intents[r] : i.key = key}
Storable(r, key, pay) == \A i \in IntentFor(r, key) : i.pay = pay
storeIntent(r, key, pay) ==
  /\ Storable(r, key, pay)
  /\ intents' = [intents EXCEPT ![r] = @ \cup {[key |-> key, pay |-> pay]}]

DbExcept(changed) ==
  /\ "status" \notin changed => UNCHANGED <<status, bound, log>>
  /\ "intents" \notin changed => UNCHANGED intents
  /\ "nomination" \notin changed => UNCHANGED nomination
  /\ "code" \notin changed => UNCHANGED code
  /\ "mail" \notin changed => UNCHANGED mail
  /\ "challenge" \notin changed => UNCHANGED challenge
  /\ "recovery" \notin changed => UNCHANGED recovery
  /\ "assigned" \notin changed => UNCHANGED assigned
  /\ "uploads" \notin changed => UNCHANGED uploads

Untouched == DbExcept({}) /\ UNCHANGED chainVars

\* One server-signed write.  At the phase it moves the chain from, the write is
\* owed and is sent; past it an earlier attempt landed and only the record is
\* owed; otherwise the call fails.
Landed(r, phase) ==
  rec.workflow = r /\ rec.phase > phase /\ rec.phase # ChainPhase.Completed
Owed(r, phase) == rec.workflow = r /\ rec.phase = phase

runServerStep(w) ==
  LET c == call[w] IN
  /\ c.pc = "chain"
  /\ \/ /\ Landed(c.request, c.phase) /\ Continue(w, "complete") /\ UNCHANGED chainVars
     \/ /\ Owed(c.request, c.phase)
        /\ Send(Tx(c.fn, c.request, c.pay)) /\ Continue(w, "receipt")
     \/ /\ ~Landed(c.request, c.phase) /\ ~Owed(c.request, c.phase)
        /\ End(w) /\ UNCHANGED chainVars
  /\ DbExcept({})

\* As it would be with the receipt's status not looked at.
ReceiptOfAnyStatus(w) ==
  LET c == call[w] IN
  /\ c.pc = "receipt" /\ Tx(c.fn, c.request, c.pay) \notin pending
  /\ Continue(w, "complete") /\ Untouched

\* writeAndConfirm's receipt: success goes on, a revert ends the call.
ServerReceipt(w) ==
  LET c == call[w] tx == Tx(c.fn, c.request, c.pay) IN
  /\ c.pc = "receipt" /\ tx \notin pending
  /\ IF tx \in mined THEN Continue(w, "complete") ELSE End(w)
  /\ Untouched

\* What an event leaves in the row's binding.
Rebound(b, c) ==
  CASE c.to = "arrived" -> [b EXCEPT !.digest = c.pay, !.proofVersion = c.pay[2]]
    [] c.to = "proof_approved" -> [b EXCEPT !.approval = c.pay]
    [] c.key[1] = "nominate_proxy" -> [b EXCEPT !.commitment = c.pay]
    [] c.key[1] = "authorize_owner" -> [b EXCEPT !.authorization = c.pay,
                                                !.commitment = c.pay.commitment]
    [] OTHER -> b

\* What a call does once its transition is recorded.
AfterComplete(c) ==
  CASE c.to = "proof_approved" -> "deliver"
    [] c.key[1] = "cancel_redemption" -> "invalidate"
    [] c.key[1] = "authorize_owner" -> "reconcile"
    [] OTHER -> "end"

\* As it would be if the row were moved in a transaction of its own.
CompleteRowAlone(w) ==
  LET c == call[w] r == c.request
      res == AppendWorkflowEvent(log[r], c.version,
                                 WorkflowEvent(c.key, c.key[1], c.from, c.to, c.pay))
  IN /\ c.pc = "complete"
     /\ log' = [log EXCEPT ![r] = res.log]
     /\ status' = IF status[r] = c.from THEN [status EXCEPT ![r] = c.to] ELSE status
     /\ IF res.ok /\ AfterComplete(c) # "end" THEN Continue(w, AfterComplete(c)) ELSE End(w)
     /\ bound' = IF res.ok THEN [bound EXCEPT ![r] = Rebound(@, c)] ELSE bound
     /\ DbExcept({"status"}) /\ UNCHANGED chainVars

complete_redemption_transition(w) ==
  LET c == call[w] r == c.request
      ev == WorkflowEvent(c.key, c.key[1], c.from, c.to, c.pay)
      res == AppendWorkflowEvent(log[r], c.version, ev)
      replay == Recorded(log[r], c.key)
      done == res.ok /\ (replay \/ status[r] = c.from)
  IN /\ c.pc = "complete"
     /\ IF done /\ ~replay
          THEN /\ log' = [log EXCEPT ![r] = res.log]
               /\ status' = [status EXCEPT ![r] = c.to]
               /\ bound' = [bound EXCEPT ![r] = Rebound(@, c)]
          ELSE UNCHANGED <<status, bound, log>>
     /\ IF done /\ AfterComplete(c) # "end" THEN Continue(w, AfterComplete(c)) ELSE End(w)
     /\ DbExcept({"status"}) /\ UNCHANGED chainVars

\* The invocation dies, times out or loses its answer.
Crash(w) == call[w] # Idle /\ End(w) /\ Untouched

-----------------------------------------------------------------------------
\* The owner opens, nominates and withdraws.

\* v1-redemption-commitment inserts a draft and commits it in a second write;
\* a request id that reached only the first is refused from then on.
CreateDraft(r) ==
  /\ status[r] = "none" /\ status' = [status EXCEPT ![r] = "draft"]
  /\ UNCHANGED <<bound, log, call>> /\ DbExcept({"status"}) /\ UNCHANGED chainVars
CommitDraft(r) ==
  /\ status[r] = "draft" /\ status' = [status EXCEPT ![r] = "committed"]
  /\ UNCHANGED <<bound, log, call>> /\ DbExcept({"status"}) /\ UNCHANGED chainVars

\* The owner's wallet.  A request id answers with its commitment whatever became
\* of the row since, so an opening may follow anything; a cancellation names the
\* token, whichever request has it open; the others the server prepared.
OwnerSends(r) ==
  /\ \/ /\ status[r] \notin {"none", "draft"} /\ rec.phase = ChainPhase.None
        /\ Send(Tx("openRedemption", r, None))
     \/ /\ \E i \in intents[r] : i.key[1] = "cancel_redemption"
        /\ status[r] \in OWNER_CANCELLABLE_STATES
        /\ rec.phase = ChainPhase.Requested /\ Send(Tx("cancelRedemption", r, None))
     \/ /\ nomination[r].state = "pending" /\ OpenFor(r)
        /\ Send(Tx("setCollectorCommitment", r, nomination[r].commitment))
     \/ /\ bound[r].authorization # None
        /\ Send(Tx("finalizeRedemption", r, bound[r].authorization))
  /\ DbExcept({}) /\ UNCHANGED call

\* mark_onchain_requested with the receipt of the opening.
MarkOnchainRequested(w, r, s) ==
  /\ status[r] = "committed" /\ Tx("openRedemption", r, None) \in mined
  /\ storeIntent(r, Key("mark_onchain_requested", s), None)
  /\ Begin(w, Call(r, Key("mark_onchain_requested", s), "onchain_requested", None, "complete"))
  /\ DbExcept({"intents"}) /\ UNCHANGED chainVars

\* reconcile_onchain_request: the opening is found from its event.
OpeningFound(r) == status[r] = "committed" /\ rec.workflow = r /\ rec.phase # ChainPhase.None

ReconcileOpening(w, r, s) ==
  /\ OpeningFound(r)
  /\ storeIntent(r, Key("reconcile_onchain_request", s), None)
  /\ Begin(w, Call(r, Key("reconcile_onchain_request", s), "onchain_requested", None,
                   "complete"))
  /\ DbExcept({"intents"}) /\ UNCHANGED chainVars

Discardable(r) == status[r] \in {"draft", "committed"} /\ ~(rec.workflow = r)

DiscardRedemption(w, r, s) ==
  /\ Discardable(r)
  /\ Begin(w, Call(r, Key("discard_redemption", s), "cancelled", None, "complete"))
  /\ Untouched

\* nominate_proxy before its transaction: the nomination is stored as pending.
NominateProxy(r, s, p) ==
  /\ status[r] = "onchain_requested"
  /\ storeIntent(r, Key("nominate_proxy", s), p)
  /\ nomination' = [nomination EXCEPT ![r] = [state |-> "pending", commitment |-> p]]
  /\ UNCHANGED call /\ DbExcept({"intents", "nomination"}) /\ UNCHANGED chainVars

\* nominate_proxy with its receipt, which is recorded after acceptance too.
RecordNomination(w, r, s, p) ==
  /\ status[r] \in {"onchain_requested", "accepted"}
  /\ Tx("setCollectorCommitment", r, p) \in mined
  /\ storeIntent(r, Key("nominate_proxy", s), p)
  /\ nomination' = [nomination EXCEPT ![r] = [state |-> "approved", commitment |-> p]]
  /\ Begin(w, Call(r, Key("nominate_proxy", s), status[r], p, "complete"))
  /\ DbExcept({"intents", "nomination"}) /\ UNCHANGED chainVars

PrepareCancellation(r, s) ==
  /\ status[r] \in OWNER_CANCELLABLE_STATES
  /\ storeIntent(r, Key("cancel_redemption", s), None)
  /\ UNCHANGED call /\ DbExcept({"intents"}) /\ UNCHANGED chainVars

\* As it would be if the event of the token were enough.
CancelOnEvent(w, r, s) ==
  /\ status[r] \in OWNER_CANCELLABLE_STATES
  /\ \E q \in Requests : Tx("cancelRedemption", q, None) \in mined
  /\ storeIntent(r, Key("cancel_redemption", s), None)
  /\ Begin(w, Call(r, Key("cancel_redemption", s), "cancelled", None, "complete"))
  /\ DbExcept({"intents"}) /\ UNCHANGED chainVars

\* cancel_redemption with a receipt: the event names only the token, so the
\* manager must no longer show this workflow open.
CancelRedemption(w, r, s) ==
  /\ status[r] \in OWNER_CANCELLABLE_STATES
  /\ \E q \in Requests : Tx("cancelRedemption", q, None) \in mined
  /\ ~OpenFor(r)
  /\ storeIntent(r, Key("cancel_redemption", s), None)
  /\ Begin(w, Call(r, Key("cancel_redemption", s), "cancelled", None, "complete"))
  /\ DbExcept({"intents"}) /\ UNCHANGED chainVars

InvalidateCodes(w) ==
  /\ call[w].pc = "invalidate"
  /\ code' = [code EXCEPT ![call[w].request].state = "none"]
  /\ End(w) /\ DbExcept({"code"}) /\ UNCHANGED chainVars

-----------------------------------------------------------------------------
\* Staff fulfil.

\* The custodian is named before the acceptance is recorded: looked up, then
\* inserted; an insert that finds one already there is taken for done.
Acceptable(r, o) ==
  /\ assertRedemptionTransition(status[r], "accepted")
  /\ rec.workflow = r /\ rec.phase = ChainPhase.Requested
  /\ assigned[r] \in {None, o}

AcceptRedemption(w, r, s, o) ==
  /\ Acceptable(r, o)
  /\ Begin(w, Call(r, Key("accept_redemption", s), "accepted", o, "assign"))
  /\ Untouched

AssignCustodian(w) ==
  LET r == call[w].request IN
  /\ call[w].pc = "assign"
  /\ assigned' = IF assigned[r] = None THEN [assigned EXCEPT ![r] = call[w].pay] ELSE assigned
  /\ Continue(w, "complete") /\ DbExcept({"assigned"}) /\ UNCHANGED chainVars

Collectable(r) ==
  assertRedemptionTransition(status[r], "custodian_collected") /\ assigned[r] # None

CustodianCollect(w, r, s) ==
  LET key == Key("custodian_collect", s) IN
  /\ Collectable(r)
  /\ storeIntent(r, key, None)
  /\ Begin(w, ServerCall(r, key, "custodian_collected", None, "startFulfillment",
                         ChainPhase.Requested))
  /\ DbExcept({"intents"}) /\ UNCHANGED chainVars

CustodianDispatch(w, r, s) ==
  /\ status[r] = "custodian_collected"
  /\ Begin(w, Call(r, Key("custodian_dispatch", s), "custodian_dispatched", None, "complete"))
  /\ Untouched

\* The custodian photographs the arrival: a row, the upload, and the check of
\* its digest, which a wrong upload never passes.
RequestEvidenceUpload(r, e) ==
  /\ status[r] \in ARRIVAL_FROM_STATES /\ uploads[r][e] = "none"
  /\ uploads' = [uploads EXCEPT ![r][e] = "pending"]
  /\ UNCHANGED call /\ DbExcept({"uploads"}) /\ UNCHANGED chainVars
ConfirmEvidenceUpload(r, e) ==
  /\ uploads[r][e] = "pending"
  /\ uploads' = [uploads EXCEPT ![r][e] = "verified"]
  /\ UNCHANGED call /\ DbExcept({"uploads"}) /\ UNCHANGED chainVars

\* A retry with the same key commits to the digest it committed to before; a
\* new key to the chain's next proof version.
ArrivalVersion(r, key) ==
  IF IntentFor(r, key) # {} THEN (CHOOSE i \in IntentFor(r, key) : TRUE).pay[2]
                            ELSE rec.proofVersion + 1

RecordArrival(w, r, s, e) ==
  LET key == Key("record_arrival", s) digest == <<e, ArrivalVersion(r, key)>> IN
  /\ assertRedemptionTransition(status[r], "arrived") /\ uploads[r][e] = "verified"
  /\ storeIntent(r, key, digest)
  /\ Begin(w, ServerCall(r, key, "arrived", digest, "submitFulfillmentProof",
                         ChainPhase.FulfillmentStarted))
  /\ DbExcept({"intents"}) /\ UNCHANGED chainVars

\* Approved already: the chain's approval; not yet: one of this organisation.
ApprovalBinding(o) ==
  IF rec.phase >= ChainPhase.ProofApproved THEN rec.approval ELSE o

Releasable(r) ==
  assertRedemptionTransition(status[r], "proof_approved") /\ rec.digest = bound[r].digest

ReleaseOwnerCode(w, r, s, o) ==
  LET key == Key("release_owner_code", s) IN
  /\ Releasable(r)
  /\ storeIntent(r, key, ApprovalBinding(o))
  /\ Begin(w, ServerCall(r, key, "proof_approved", ApprovalBinding(o),
                         "approveFulfillmentProof", ChainPhase.ProofSubmitted))
  /\ DbExcept({"intents"}) /\ UNCHANGED chainVars

-----------------------------------------------------------------------------
\* The owner's code.

\* deliverOwnerCode, up to the provider: a live code is mailed again, any other
\* is replaced by a new generation, of which one can be current.
DeliverOwnerCode(w) ==
  LET r == call[w].request IN
  /\ call[w].pc = "deliver"
  /\ IF code[r].state = "live"
       THEN UNCHANGED code
       ELSE /\ code[r].gen < MaxCodes
            /\ code' = [code EXCEPT ![r] = [NoCode EXCEPT !.state = "live",
                                                          !.gen = code[r].gen + 1]]
  /\ call' = [call EXCEPT ![w] = [@ EXCEPT !.pc = "mail", !.pay = code'[r].gen]]
  /\ DbExcept({"code"}) /\ UNCHANGED chainVars

MailOwnerCode(w) ==
  LET r == call[w].request IN
  /\ call[w].pc = "mail"
  /\ mail' = [mail EXCEPT ![r] = @ \cup {call[w].pay}]
  /\ code' = IF code[r].gen = call[w].pay THEN [code EXCEPT ![r].recent = TRUE] ELSE code
  /\ End(w) /\ DbExcept({"mail", "code"}) /\ UNCHANGED chainVars

\* resend_owner_code waits out the resend window of a live code.
ResendOwnerCode(w, r, s) ==
  /\ status[r] \in AWAITING_OWNER
  /\ ~(code[r].state = "live" /\ code[r].recent)
  /\ Begin(w, Call(r, Key("resend_owner_code", s), status[r], None, "deliver"))
  /\ Untouched

CodeTime(r) ==
  /\ \/ code[r].state = "live" /\ code' = [code EXCEPT ![r].state = "expired"]
     \/ code[r].locked /\ code' = [code EXCEPT ![r].locked = FALSE]
     \/ code[r].recent /\ code' = [code EXCEPT ![r].recent = FALSE]
  /\ UNCHANGED call /\ DbExcept({"code"}) /\ UNCHANGED chainVars

\* verify_redemption_owner_code: g is the generation the presented code is of.
Answerable(r) == code[r].state = "live" /\ ~code[r].locked
verify_redemption_owner_code(r, g) == Answerable(r) /\ g = code[r].gen
AfterWrongCode(cd) ==
  [cd EXCEPT !.tries = IF @ < MaxAttempts THEN @ + 1 ELSE @,
             !.locked = @ \/ cd.tries + 1 >= MaxAttempts]

WrongCode(r) ==
  /\ status[r] \in AWAITING_OWNER /\ Answerable(r)
  /\ code' = [code EXCEPT ![r] = AfterWrongCode(@)]
  /\ UNCHANGED call /\ DbExcept({"code"}) /\ UNCHANGED chainVars

\* prepare_owner_authorization: a challenge for the holder of the code.
PrepareOwnerAuthorization(r, s, g) ==
  /\ status[r] \in AWAITING_OWNER /\ g \in mail[r]
  /\ verify_redemption_owner_code(r, g)
  /\ challenge' = [challenge EXCEPT ![r] = @ \cup {log[r].version}]
  /\ UNCHANGED call /\ DbExcept({"challenge"}) /\ UNCHANGED chainVars

\* finalizeAuthorizationBinding: sign what the chain holds, when it is the
\* row's redemption in every part but the commitment.
finalizeAuthorizationBinding(r) ==
  /\ rec.phase = ChainPhase.ProofApproved /\ rec.workflow = r
  /\ rec.digest = bound[r].digest /\ rec.proofVersion = bound[r].proofVersion
  /\ rec.approval = bound[r].approval

SignedBinding(r) == FinalizeDigest(r, rec)

AuthorizeOwner(w, r, s, g, ch) ==
  /\ status[r] \in AWAITING_OWNER /\ g \in mail[r]
  /\ verify_redemption_owner_code(r, g) /\ ch \in challenge[r]
  /\ finalizeAuthorizationBinding(r)
  /\ log[r].version < MaxVersion
  /\ Begin(w, Call(r, <<"authorize_owner", ch>>, "owner_authorized", SignedBinding(r),
                   "complete"))
  /\ Untouched

\* reconcileProxyNomination, then the code and the challenge are consumed, each
\* in a write of its own.
ReconcileNomination(w) ==
  LET r == call[w].request matches == nomination[r].commitment = call[w].pay.commitment IN
  /\ call[w].pc = "reconcile"
  /\ nomination' =
       IF matches /\ nomination[r].state = "pending"
         THEN [nomination EXCEPT ![r].state = "approved"]
       ELSE IF ~matches /\ nomination[r].state \in {"pending", "approved"}
         THEN [nomination EXCEPT ![r].state = "revoked"]
       ELSE nomination
  /\ Continue(w, "consume") /\ DbExcept({"nomination"}) /\ UNCHANGED chainVars

ConsumeCode(w) ==
  LET r == call[w].request IN
  /\ call[w].pc = "consume"
  /\ IF Answerable(r)
       THEN code' = [code EXCEPT ![r].state = "none"] /\ Continue(w, "challenge")
       ELSE UNCHANGED code /\ End(w)
  /\ DbExcept({"code"}) /\ UNCHANGED chainVars

ConsumeChallenge(w) ==
  /\ call[w].pc = "challenge"
  /\ challenge' = [challenge EXCEPT ![call[w].request] = @ \ {call[w].key[2]}]
  /\ End(w) /\ DbExcept({"challenge"}) /\ UNCHANGED chainVars

\* As it would be if the owner's word were enough.
MarkBurnedUnproven(w, r, s) ==
  /\ status[r] = "owner_authorized"
  /\ Begin(w, Call(r, Key("mark_chain_burned", s), "chain_burned", None, "complete"))
  /\ Untouched

\* mark_chain_burned with the receipt of the holder's finalization.
MarkChainBurned(w, r, s) ==
  /\ status[r] = "owner_authorized"
  /\ \E tx \in mined : tx.fn = "finalizeRedemption" /\ tx.request = r
  /\ Begin(w, Call(r, Key("mark_chain_burned", s), "chain_burned", None, "complete"))
  /\ Untouched

-----------------------------------------------------------------------------
\* Recovery by two approvers.  The chain step is the approver's transaction.

ApproverSends(r, a) ==
  /\ status[r] \in AWAITING_OWNER /\ OpenFor(r)
  /\ \/ recovery[r].state = "none" /\ Send(Tx("proposeRecovery", r, a))
     \/ /\ recovery[r].state = "proposed" /\ a \notin recovery[r].wallets
        /\ Send(Tx("approveRecovery", r, a))
     \/ /\ recovery[r].state = "approved" /\ proposal.aged
        /\ Send(Tx("executeRecovery", r, a))
  /\ DbExcept({}) /\ UNCHANGED call

\* The record_recovery functions append at the projection's current version,
\* whatever version the caller saw.
RecoveryEvent(r, action, a, to) ==
  LET ev == WorkflowEvent(<<action, a>>, action, status[r], to, None) IN
  AppendWorkflowEvent(log[r], log[r].version, ev)

ProposeRecovery(r, a) ==
  LET res == RecoveryEvent(r, "propose_recovery", a, status[r]) IN
  /\ status[r] \in AWAITING_OWNER /\ recovery[r].state = "none"
  /\ Tx("proposeRecovery", r, a) \in mined /\ res.ok
  /\ log' = [log EXCEPT ![r] = res.log]
  /\ recovery' = [recovery EXCEPT ![r] =
                   [state |-> IF Cardinality(proposal.by) >= 2 THEN "approved" ELSE "proposed",
                    approvals |-> Cardinality(proposal.by), wallets |-> {a}]]
  /\ UNCHANGED <<status, bound, call>> /\ DbExcept({"status", "recovery"})
  /\ UNCHANGED chainVars

ApprovalCount(stored, reported) == IF stored >= reported THEN stored ELSE reported

ApproveRecovery(r, a) ==
  LET res == RecoveryEvent(r, "approve_recovery", a, status[r])
      n == ApprovalCount(recovery[r].approvals, Cardinality(proposal.by))
  IN
  /\ status[r] \in AWAITING_OWNER /\ recovery[r].state \in {"proposed", "approved"}
  /\ a \notin recovery[r].wallets
  /\ Tx("approveRecovery", r, a) \in mined /\ res.ok
  /\ log' = [log EXCEPT ![r] = res.log]
  /\ recovery' = [recovery EXCEPT ![r] =
                   [state |-> IF n >= 2 THEN "approved" ELSE @.state, approvals |-> n,
                    wallets |-> @.wallets \cup {a}]]
  /\ UNCHANGED <<status, bound, call>> /\ DbExcept({"status", "recovery"})
  /\ UNCHANGED chainVars

ExecuteRecovery(r, a) ==
  LET res == RecoveryEvent(r, "execute_recovery", a, "chain_burned") IN
  /\ status[r] \in AWAITING_OWNER /\ recovery[r].state = "approved" /\ proposal.aged
  /\ Tx("executeRecovery", r, a) \in mined /\ proposal.executed /\ res.ok
  /\ log' = [log EXCEPT ![r] = res.log]
  /\ status' = [status EXCEPT ![r] = "chain_burned"]
  /\ recovery' = [recovery EXCEPT ![r].state = "executed"]
  /\ UNCHANGED <<bound, call>> /\ DbExcept({"status", "recovery"}) /\ UNCHANGED chainVars

-----------------------------------------------------------------------------
\* v1-notify-sweep repairs rows from the chain, without an event: it reads the
\* row and the chain, then writes if the row is still as it was read.

\* By the gem's registry status, whichever request the token is open for.
ByRegistry(r) ==
  CASE rec.phase = ChainPhase.Completed -> "fulfilled"
    [] rec.phase = ChainPhase.None -> IF status[r] = "committed" THEN status[r] ELSE "cancelled"
    [] OTHER -> IF status[r] = "committed" THEN "onchain_requested" ELSE status[r]

\* By the manager's events, replayed: the row whose opening they hold, and, for a
\* closing, a row opened before it that the manager no longer shows open.
ByEvents(r) ==
  IF Tx("openRedemption", r, None) \notin mined THEN {}
  ELSE {"onchain_requested"}
       \cup (IF OpenFor(r) THEN {}
             ELSE IF rec.phase = ChainPhase.Completed THEN {"fulfilled"} ELSE {"cancelled"})

SweptTo(r) ==
  (IF status[r] \in {"committed", "onchain_requested", "accepted"} THEN {ByRegistry(r)} ELSE {})
  \cup (IF status[r] \in {"committed", "onchain_requested"} THEN ByEvents(r) ELSE {})

SweepReads(w, r) ==
  /\ \E to \in SweptTo(r) \ {status[r]} :
       Begin(w, Call(r, Key("sweep", w), to, None, "sweep"))
  /\ Untouched
SweepWrites(w) ==
  LET c == call[w] IN
  /\ c.pc = "sweep"
  /\ status' = IF status[c.request] = c.from THEN [status EXCEPT ![c.request] = c.to] ELSE status
  /\ End(w) /\ UNCHANGED <<bound, log>> /\ DbExcept({"status"}) /\ UNCHANGED chainVars

-----------------------------------------------------------------------------
OwnerCalls(w, r, s) ==
  \/ MarkOnchainRequested(w, r, s) \/ ReconcileOpening(w, r, s)
  \/ DiscardRedemption(w, r, s) \/ CancelRedemption(w, r, s)
  \/ \E p \in Proxies : RecordNomination(w, r, s, p)
  \/ ResendOwnerCode(w, r, s)
  \/ \E g \in mail[r], ch \in challenge[r] : AuthorizeOwner(w, r, s, g, ch)
  \/ MarkChainBurned(w, r, s)

StaffCalls(w, r, s) ==
  \/ CustodianCollect(w, r, s) \/ CustodianDispatch(w, r, s)
  \/ \E e \in Evidence : RecordArrival(w, r, s, e)
  \/ \E o \in Orgs : AcceptRedemption(w, r, s, o) \/ ReleaseOwnerCode(w, r, s, o)

WorkerStep(w) ==
  \/ AssignCustodian(w) \/ runServerStep(w) \/ ServerReceipt(w) \/ complete_redemption_transition(w)
  \/ InvalidateCodes(w) \/ DeliverOwnerCode(w) \/ MailOwnerCode(w)
  \/ ReconcileNomination(w) \/ ConsumeCode(w) \/ ConsumeChallenge(w) \/ SweepWrites(w)

RequestStep(r) ==
  \/ CreateDraft(r) \/ CommitDraft(r) \/ OwnerSends(r) \/ CodeTime(r) \/ WrongCode(r)
  \/ \E s \in Sessions : \/ PrepareCancellation(r, s)
                         \/ \E p \in Proxies : NominateProxy(r, s, p)
                         \/ \E g \in mail[r] : PrepareOwnerAuthorization(r, s, g)
  \/ \E e \in Evidence : RequestEvidenceUpload(r, e) \/ ConfirmEvidenceUpload(r, e)
  \/ \E a \in Approvers : \/ ApproverSends(r, a) \/ ProposeRecovery(r, a)
                          \/ ApproveRecovery(r, a) \/ ExecuteRecovery(r, a)

ChainStep == (\E tx \in pending : Mine(tx)) /\ DbExcept({}) /\ UNCHANGED call
GraceStep == GraceEnds /\ DbExcept({}) /\ UNCHANGED call

Next ==
  \/ \E w \in Workers, r \in Requests, s \in Sessions : OwnerCalls(w, r, s) \/ StaffCalls(w, r, s)
  \/ \E w \in Workers : WorkerStep(w) \/ Crash(w) \/ \E r \in Requests : SweepReads(w, r)
  \/ \E r \in Requests : RequestStep(r)
  \/ ChainStep \/ GraceStep

Spec == Init /\ [][Next]_vars

-----------------------------------------------------------------------------
\* Properties.

\* The phase the chain must have reached before a row may show a state.
Reached(st) ==
  CASE st \in {"custodian_collected", "custodian_dispatched"} -> ChainPhase.FulfillmentStarted
    [] st = "arrived" -> ChainPhase.ProofSubmitted
    [] st \in AWAITING_OWNER -> ChainPhase.ProofApproved
    [] st = "chain_burned" -> ChainPhase.Completed
    [] OTHER -> 0

\* The row never runs ahead of the chain: whatever call was retried, crashed or
\* raced, a recorded step has its transaction mined for this very redemption.
RowBehindChain ==
  \A r \in Requests :
    Reached(status[r]) > 0 => rec.workflow = r /\ rec.phase >= Reached(status[r])

\* The row of a recorded arrival holds the proof of the manager's record: a code is
\* released for no other.
BindsArrival(r) == bound[r].digest = rec.digest /\ bound[r].proofVersion = rec.proofVersion

\* The row of a released code binds the approval of the manager's record, whoever
\* triggered it: the holder's authorization is refused wherever they differ.
BindsApproval(r) == bound[r].approval = rec.approval
ApprovalBindsChain ==
  \A r \in Requests : status[r] \in AWAITING_OWNER => BindsApproval(r)

\* The events of a request are one history that ends in the row's status, or in
\* one from which the sweep closed the row.
SweptFrom(st) ==
  IF st \in {"fulfilled", "cancelled"} THEN OWNER_CANCELLABLE_STATES \cup {st} ELSE {st}
HistoryEndsInStatus ==
  \A r \in Requests :
    /\ OneHistory(log[r])
    /\ log[r].version > 0 => log[r].state \in SweptFrom(status[r])

\* A redemption withdrawn by its holder has its token back, unless it was
\* discarded with the opening still on its way.
CancelledIsFree ==
  \A r \in Requests :
    /\ status[r] = "cancelled"
    /\ \E i \in DOMAIN log[r].events : log[r].events[i].type = "cancel_redemption"
    => ~OpenFor(r)

\* What the proofs assume of wallets, and the runs of theirs: a wallet opens a
\* request once, while its row says it is not open yet;
StartsAnew ==
  \A r \in Requests : LET opening == Tx("openRedemption", r, None) IN
    opening \in pending' \ pending => status[r] = "committed" /\ opening \notin mined
\* the token is not opened for another request while a collection of the one
\* before is still on its way, which the contract would take for the new one's;
ReopensSettled ==
  rec'.workflow \notin {None, rec.workflow} =>
    \A tx \in pending' : tx.fn = "startFulfillment" => tx.request = rec'.workflow
\* and, where one request's holder is concerned, no other request opens it.
OpenedBy(r) == \A tx \in pending' : tx.fn = "openRedemption" => tx.request = r

SettledSpec == Init /\ [][Next /\ ReopensSettled]_vars
HolderSpec == Init /\ [][Next /\ ReopensSettled /\ StartsAnew /\ OpenedBy(subject)]_vars

\* Where the token of request r is, and whether the request was withdrawn, as
\* HolderTracker speaks of them.
TokenPlace(r) ==
  IF rec.workflow # r \/ rec.phase = ChainPhase.None THEN "free"
  ELSE IF rec.phase = ChainPhase.Requested THEN "locked"
  ELSE IF rec.phase = ChainPhase.Completed THEN "burned" ELSE "released"
Withdrawn(r) == status[r] = "cancelled"

Tracker == INSTANCE HolderTracker
             WITH step <- completedSteps(status[subject]), token <- TokenPlace(subject),
                  closed <- Withdrawn(subject)

\* What the holder of a request is shown and what happens to the token is the
\* tracker's promise: six steps in order, no withdrawal once the vault released
\* the stone, no burn before delivery.
KeepsPromise == Tracker!Spec
=============================================================================
