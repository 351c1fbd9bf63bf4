--------------------------- MODULE RedemptionFlow ---------------------------
(***************************************************************************)
(* The redemption flow's tables (redemptionFlow.ts) and what a request's   *)
(* tracker shows of them, with the offers of v1-redemption-lifecycle.      *)
(***************************************************************************)
EXTENDS Naturals

ARRIVAL_FROM_STATES == {"custodian_dispatched", "bank_received", "pickup_handover_recorded"}

APPROVAL_PENDING_STATES == {"arrived", "pickup_proof_submitted", "delivery_proof_submitted"}

\* As it would be with a stone the vault released offered for cancellation.
CancellableUntilDispatch == {"onchain_requested", "accepted", "custodian_collected"}
OWNER_CANCELLABLE_STATES == {"onchain_requested", "accepted"}

AWAITING_OWNER == {"proof_approved", "owner_authorized"}

RedemptionStatus ==
  {"none", "draft", "committed", "onchain_requested", "accepted", "custodian_collected",
   "custodian_dispatched", "arrived", "proof_approved", "owner_authorized",
   "chain_burned", "cancelled", "fulfilled"}
   \cup ARRIVAL_FROM_STATES \cup APPROVAL_PENDING_STATES

transitionGraph ==
  {<<"onchain_requested", "accepted">>, <<"onchain_requested", "cancelled">>,
   <<"accepted", "custodian_collected">>, <<"accepted", "cancelled">>,
   <<"custodian_collected", "custodian_dispatched">>, <<"arrived", "proof_approved">>,
   <<"proof_approved", "owner_authorized">>, <<"owner_authorized", "chain_burned">>,
   <<"pickup_proof_submitted", "proof_approved">>,
   <<"delivery_proof_submitted", "proof_approved">>}
   \cup (ARRIVAL_FROM_STATES \X {"arrived"})

assertRedemptionTransition(from, to) == <<from, to>> \in transitionGraph

\* How many of the six steps the holder sees are complete.
completedSteps(state) ==
  CASE state = "accepted" -> 1
    [] state = "custodian_collected" -> 2
    [] state \in ARRIVAL_FROM_STATES -> 3
    [] state \in APPROVAL_PENDING_STATES \cup {"proof_approved"} -> 4
    [] state = "owner_authorized" -> 5
    [] state = "chain_burned" -> 6
    [] OTHER -> 0

\* As it would be with the states before the opening left to the browser.
offersAfterOpening(status, role) ==
  IF role = "owner" /\ status \in OWNER_CANCELLABLE_STATES THEN {"cancel_redemption"}
  ELSE IF role = "admin" /\ status \in AWAITING_OWNER THEN {"execute_recovery"}
  ELSE IF role = "bank" /\ status \in {"accepted", "custodian_collected"}
    THEN {"custodian_dispatch"}
  ELSE IF role = "custodian" /\ status \in ARRIVAL_FROM_STATES \cup APPROVAL_PENDING_STATES
    THEN {"record_arrival"}
  ELSE {}

\* The actions the tracker offers to a role in a state.
currentActions(status, role) ==
  CASE role = "owner" ->
         (IF status \in {"draft", "committed"} THEN {"discard_redemption"} ELSE {})
         \cup (IF status = "committed" THEN {"mark_onchain_requested"} ELSE {})
         \cup (IF status = "onchain_requested" THEN {"nominate_proxy"} ELSE {})
         \cup (IF status \in OWNER_CANCELLABLE_STATES THEN {"cancel_redemption"} ELSE {})
         \cup (IF status \in AWAITING_OWNER
                 THEN {"authorize_owner", "resend_owner_code"} ELSE {})
         \cup (IF status = "owner_authorized" THEN {"mark_chain_burned"} ELSE {})
    [] role = "admin" ->
         (IF status = "onchain_requested" THEN {"accept_redemption"} ELSE {})
         \cup (IF status \in APPROVAL_PENDING_STATES THEN {"release_owner_code"} ELSE {})
         \cup (IF status \in AWAITING_OWNER
                 THEN {"propose_recovery", "approve_recovery", "execute_recovery"} ELSE {})
    [] role = "bank" ->
         (IF status = "accepted" THEN {"custodian_collect"} ELSE {})
         \cup (IF status = "custodian_collected" THEN {"custodian_dispatch"} ELSE {})
    [] role = "custodian" ->
         (IF status \in ARRIVAL_FROM_STATES THEN {"record_arrival"} ELSE {})
         \cup (IF status \in APPROVAL_PENDING_STATES THEN {"release_owner_code"} ELSE {})
=============================================================================
