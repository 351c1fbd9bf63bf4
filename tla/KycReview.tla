------------------------------ MODULE KycReview ------------------------------
(***************************************************************************)
(* The copy of the reviewer's verdict on a person (v1-sumsub-webhook,      *)
(* v1-sumsub-token and apply_sumsub_webhook_event): webhooks arrive late,  *)
(* twice and out of order, while the person opens the SDK again.           *)
(***************************************************************************)
EXTENDS Integers, Sequences, FiniteSets

CONSTANTS MaxEvents, Absent

\* Absent stands for null: no time, no status, no row.
ASSUME AbsentIsNoValue ==
  /\ Absent \notin Nat
  /\ Absent \notin {"approved", "rejected", "pending", "not_started", "on_hold", "completed", "onHold", "init"}
  /\ Absent \notin [status : {"approved", "rejected", "pending", "not_started", "on_hold"}, last : Nat \cup {Absent}]

VARIABLES
  made,      \* events Sumsub created, each with its creation time
  handled,   \* sumsub_webhook_events: deliveries on record
  kyc,       \* the kyc_profiles row
  session    \* the token request: "none", "restart"

kycVars == <<made, handled, kyc, session>>

\* Housekeeping and action events have a review of something else, or none.
APPLICANT_REVIEW_TYPES ==
  {"applicantPending", "applicantReviewed", "applicantReset", "applicantDeactivated", "applicantPersonalInfoChanged"}
Payload(type, review, answer) == [type |-> type, review |-> review, answer |-> answer]
Payloads ==
  {Payload("applicantReviewed", "completed", "GREEN"), Payload("applicantReviewed", "completed", "RED"),
   Payload("applicantPending", "pending", Absent), Payload("applicantReviewed", "onHold", Absent),
   Payload("applicantReset", "init", Absent), Payload("applicantDeactivated", "completed", "GREEN"),
   Payload("applicantPersonalInfoChanged", Absent, Absent), Payload("applicantActionReviewed", "completed", "RED")}

statusFromReview(e) ==
  IF e.type \notin APPLICANT_REVIEW_TYPES THEN Absent
  ELSE IF e.type = "applicantReset" THEN "not_started"
  ELSE IF e.type = "applicantDeactivated" \/ e.review = "onHold" THEN "on_hold"
  ELSE IF e.review = Absent THEN Absent
  ELSE IF e.review = "completed" THEN IF e.answer = "GREEN" THEN "approved" ELSE "rejected"
  ELSE "pending"

\* External: Sumsub's clock may not move between two events.
SumsubCreates ==
  /\ Len(made) < MaxEvents
  /\ \E e \in Payloads, tick \in {0, 1} :
       LET at == (IF made = <<>> THEN 0 ELSE made[Len(made)].at) + tick IN
       made' = Append(made, [at |-> at, e |-> e])
  /\ UNCHANGED <<handled, kyc, session>>

\* Mutant: the last delivery wins.
ApplyAlways(i) ==
  /\ i \in DOMAIN made \ handled /\ handled' = handled \cup {i}
  /\ kyc' = IF statusFromReview(made[i].e) = Absent THEN kyc
            ELSE [status |-> statusFromReview(made[i].e), last |-> made[i].at]
  /\ UNCHANGED <<made, session>>
\* One transaction.  A delivery on record changes nothing when it comes again.
apply_sumsub_webhook_event(i) ==
  /\ i \in DOMAIN made \ handled /\ handled' = handled \cup {i}
  /\ kyc' = IF /\ statusFromReview(made[i].e) # Absent
               /\ kyc = Absent \/ kyc.last = Absent \/ kyc.last <= made[i].at
            THEN [status |-> statusFromReview(made[i].e), last |-> made[i].at]
            ELSE kyc
  /\ UNCHANGED <<made, session>>

\* Mutant: the row is written whether or not it exists.
TokenUpserts ==
  /\ session = "none" /\ session' = "restart"
  /\ kyc' = IF kyc = Absent THEN [status |-> "pending", last |-> Absent] ELSE [kyc EXCEPT !.status = "pending"]
  /\ UNCHANGED <<made, handled>>
\* A token was issued: the row exists from the first one on.
TokenInserts ==
  /\ session = "none" /\ session' = "restart"
  /\ kyc' = IF kyc = Absent THEN [status |-> "pending", last |-> Absent] ELSE kyc
  /\ UNCHANGED <<made, handled>>

\* A reset applicant who opens the SDK is in progress; the request may fail first.
TokenRestarts ==
  /\ session = "restart" /\ session' = "none"
  /\ kyc' \in {kyc, IF kyc.status = "not_started" THEN [kyc EXCEPT !.status = "pending"] ELSE kyc}
  /\ UNCHANGED <<made, handled>>

KycInit == made = <<>> /\ handled = {} /\ kyc = Absent /\ session = "none"
KycNext == SumsubCreates \/ (\E i \in 1..MaxEvents : apply_sumsub_webhook_event(i)) \/ TokenInserts \/ TokenRestarts
KycSpec == KycInit /\ [][KycNext]_kycVars

-----------------------------------------------------------------------------
\* In whatever order events arrive, and however often, the row says what the one
\* created last said; only a reset is turned into a new start by the person.
Verdicts == {i \in handled : statusFromReview(made[i].e) # Absent}
Latest == {i \in Verdicts : \A j \in Verdicts : made[j].at <= made[i].at}
VerdictIsLatest ==
  kyc # Absent =>
    IF Verdicts = {} THEN kyc.status = "pending"
    ELSE \E i \in Latest : LET verdict == statusFromReview(made[i].e) IN
           kyc.status = verdict \/ (verdict = "not_started" /\ kyc.status = "pending")

\* An approval ends only on a word of the reviewer's that is no older and says so.
ApprovalStands ==
  [][kyc # Absent /\ kyc.status = "approved" /\ kyc'.status # "approved" =>
       \E i \in handled' \ handled :
         /\ made[i].at >= kyc.last /\ made[i].e.type \in APPLICANT_REVIEW_TYPES
         /\ made[i].e.review # Absent /\ made[i].e # Payload("applicantReviewed", "completed", "GREEN")]_kycVars
=============================================================================
