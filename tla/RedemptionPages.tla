--------------------------- MODULE RedemptionPages ---------------------------
(***************************************************************************)
(* What the pages offer for a redemption, and whether the server and the   *)
(* chain still serve it: RedeemPage's card and RedeemModal for the holder, *)
(* RedemptionDesk for the bank and the custodian, VerifyPage for Digital   *)
(* Carat's approvers.  A page offers what the row says; the row can be     *)
(* behind the chain by a lost report, and ahead of nothing.                *)
(***************************************************************************)
EXTENDS Redemption

\* Somebody is there to act: the manager wants two approvers for a recovery.
ASSUME StaffAssumption ==
  /\ Sessions # {} /\ Orgs # {} /\ Evidence # {}
  /\ \E a, b \in Approvers : a # b

\* The rows a desk's queue lists, with the assignments of its organisation.
BANK_QUEUE == {"accepted", "custodian_collected", "custodian_dispatched"}
CUSTODIAN_QUEUE == ARRIVAL_FROM_STATES \cup APPROVAL_PENDING_STATES \cup AWAITING_OWNER

Listed(r, scope) ==
  CASE scope \in {"owner", "admin"} -> status[r] # "none"
    [] scope = "bank" -> status[r] \in BANK_QUEUE /\ assigned[r] # None
    [] scope = "custodian" -> status[r] \in CUSTODIAN_QUEUE /\ assigned[r] # None

-----------------------------------------------------------------------------
\* The wallet's calls.  A call of a browser that sent it before is found again
\* by its event and answers with the transaction that is already mined.

OpenInWallet(r) == Accepts(Tx("openRedemption", r, None)) \/ Tx("openRedemption", r, None) \in mined

\* The event names the token only: any cancellation answers.
CancelInWallet(r) ==
  \/ Accepts(Tx("cancelRedemption", r, None))
  \/ \E q \in Requests : Tx("cancelRedemption", q, None) \in mined /\ ~OpenFor(r)

NominateInWallet(r) ==
  LET tx == Tx("setCollectorCommitment", r, nomination[r].commitment) IN
  Accepts(tx) \/ tx \in mined

BurnInWallet(r) ==
  LET tx == Tx("finalizeRedemption", r, bound[r].authorization) IN Accepts(tx) \/ tx \in mined

\* A recovery step of a Safe, or of a browser that is gone, is recorded by its
\* hash once it is executed.
RecoverInWallet(r, fn) ==
  \E a \in Approvers : Accepts(Tx(fn, r, a)) \/ Tx(fn, r, a) \in mined

-----------------------------------------------------------------------------
\* The holder's card.

\* The card looks for a lost opening before it offers to discard.
ReconcileOffer(r) == IF OpeningFound(r) THEN {"reconcile_onchain_request"} ELSE {}

DiscardOffer(r) ==
  IF "discard_redemption" \in currentActions(status[r], "owner") /\ ~OpeningFound(r)
    THEN {"discard_redemption"} ELSE {}

\* resume_action_intent: a cancellation prepared and not recorded yet.
PendingCancellation(r) == \E i \in intents[r] : i.key[1] = "cancel_redemption"

CancelOffer(r) ==
  IF "cancel_redemption" \notin currentActions(status[r], "owner") THEN {}
  ELSE IF PendingCancellation(r) THEN {"cancelRedemption"} ELSE {"prepare_cancellation"}

\* The form, and the wallet's button once the nomination was signed.
NominateOffer(r) ==
  IF "nominate_proxy" \notin currentActions(status[r], "owner") THEN {}
  ELSE IF nomination[r].state = "pending" THEN {"setCollectorCommitment"} ELSE {"nominate_proxy"}

\* The server's signature as the card has it, until its deadline.
FinalAuthorization(r, fresh) == bound[r].authorization # None /\ fresh

AuthorizeOffer(r, fresh) ==
  IF FinalAuthorization(r, fresh) THEN {}
  ELSE currentActions(status[r], "owner") \cap {"authorize_owner", "resend_owner_code"}

BurnOffer(r, fresh) == IF FinalAuthorization(r, fresh) THEN {"finalizeRedemption"} ELSE {}

OwnerCard(r, fresh) ==
  ReconcileOffer(r) \cup DiscardOffer(r) \cup CancelOffer(r) \cup NominateOffer(r)
  \cup AuthorizeOffer(r, fresh) \cup BurnOffer(r, fresh)

\* RedeemModal: the same details resume the row they were committed to.
RedeemOffer(r) ==
  IF status[r] = "committed" /\ rec.phase = ChainPhase.None THEN {"openRedemption"} ELSE {}

-----------------------------------------------------------------------------
\* The desks and the approvers' review.

DESK_ACTIONS == [bank |-> {"custodian_collect", "custodian_dispatch"},
                 custodian |-> {"record_arrival", "release_owner_code"}]

DeskOffer(r, scope) ==
  IF Listed(r, scope) THEN currentActions(status[r], scope) \cap DESK_ACTIONS[scope] ELSE {}

AcceptOffer(r) == currentActions(status[r], "admin") \cap {"accept_redemption"}
ReleaseOffer(r) == currentActions(status[r], "admin") \cap {"release_owner_code"}

\* The panel's one action, by the recovery it is shown.
RecoveryOffer(r) ==
  LET action == CASE recovery[r].state = "none" -> "proposeRecovery"
                  [] recovery[r].state # "none" /\ recovery[r].approvals < 2 -> "approveRecovery"
                  [] OTHER -> "executeRecovery"
  IN IF status[r] \in AWAITING_OWNER /\ (action = "executeRecovery" => proposal.aged)
       THEN {action} ELSE {}

Offered(r, fresh) ==
  OwnerCard(r, fresh) \cup RedeemOffer(r) \cup DeskOffer(r, "bank") \cup DeskOffer(r, "custodian")
  \cup AcceptOffer(r) \cup ReleaseOffer(r) \cup RecoveryOffer(r)

-----------------------------------------------------------------------------
\* Whether a button of a page that is reloaded now is served.

ServerServes(r, phase) == Landed(r, phase) \/ Owed(r, phase)

ArrivalServed(r) ==
  \E s \in Sessions, e \in Evidence :
    LET key == Key("record_arrival", s) IN
    Storable(r, key, <<e, ArrivalVersion(r, key)>>) /\ ServerServes(r, ChainPhase.FulfillmentStarted)

ReleaseServed(r) ==
  /\ Releasable(r) /\ ServerServes(r, ChainPhase.ProofSubmitted)
  /\ \E s \in Sessions, o \in Orgs : Storable(r, Key("release_owner_code", s), ApprovalBinding(o))

Served(r, button) ==
  CASE button = "openRedemption" -> OpenInWallet(r)
    [] button = "cancelRedemption" -> CancelInWallet(r)
    [] button = "setCollectorCommitment" -> NominateInWallet(r)
    [] button = "finalizeRedemption" -> BurnInWallet(r)
    [] button \in {"proposeRecovery", "approveRecovery", "executeRecovery"} ->
         RecoverInWallet(r, button)
    [] button = "discard_redemption" -> Discardable(r)
    [] button = "accept_redemption" -> \E o \in Orgs : Acceptable(r, o)
    [] button = "custodian_collect" -> Collectable(r) /\ ServerServes(r, ChainPhase.Requested)
    [] button = "record_arrival" -> ArrivalServed(r)
    [] button = "release_owner_code" -> ReleaseServed(r)
    [] button = "authorize_owner" -> finalizeAuthorizationBinding(r)
    [] OTHER -> TRUE

-----------------------------------------------------------------------------
\* Properties.

\* The sweep has yet to repair the row.
RepairOwed(r) == SweptTo(r) \ {status[r]} # {}

\* A row the sweep opened by its gem while another request holds the token.
Stranded(r) == status[r] \in OWNER_CANCELLABLE_STATES /\ rec.workflow \notin {None, r}

\* A row that binds a proof or an approval the manager does not have: an arrival
\* whose report was lost was reported again from another session, or two
\* organisations released the code together (run TwoApprovals).
Misbound(r) ==
  \/ status[r] \in {"arrived"} \cup AWAITING_OWNER /\ ~BindsArrival(r)
  \/ status[r] \in AWAITING_OWNER /\ ~BindsApproval(r)

\* The token is burned.  Until it is recorded the form for a new authorization
\* stays, and until it expires the button of the one that was given.
Burned(r) == rec.workflow = r /\ rec.phase = ChainPhase.Completed

\* The vault started, and the row has yet to say so.
Overtaken(r, button) ==
  /\ button \in {"cancelRedemption", "setCollectorCommitment"}
  /\ Landed(r, ChainPhase.Requested) /\ Reached(status[r]) = 0

\* A page never offers what can only fail: every button of every page is served
\* by the server or the chain, whatever report was lost, call died or transaction
\* reverted before and whichever are under way, unless the sweep owes the row a
\* repair or the row belongs to another redemption's token or proof.
OfferedIsServed ==
  \A r \in Requests :
    status[r] # "none" /\ ~Burned(r) /\ ~Stranded(r) /\ ~Misbound(r) /\ ~RepairOwed(r)
      => \A fresh \in BOOLEAN : \A button \in Offered(r, fresh) :
           Served(r, button) \/ Overtaken(r, button)

\* The buttons that leave the row where it is.
Preparations == {"prepare_cancellation", "nominate_proxy", "setCollectorCommitment", "resend_owner_code"}

\* An unfinished redemption is never stuck: somebody is offered a step that moves
\* it on and is served, or the sweep owes the row a repair; but for a row that the
\* sweep opened by its gem, and for one that binds what the manager does not have.
\* The holder's burn whose report was lost is recorded as long as its
\* authorization is fresh.
SomebodyMayAct ==
  \A r \in Requests :
    /\ status[r] \notin {"none", "cancelled", "chain_burned", "fulfilled"}
    /\ ~Stranded(r) /\ ~Misbound(r) /\ ~RepairOwed(r)
    => \A fresh \in BOOLEAN :
         (Burned(r) => fresh \/ proposal.executed)
           => \E button \in Offered(r, fresh) \ Preparations : Served(r, button)
=============================================================================
