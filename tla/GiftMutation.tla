---------------------------- MODULE GiftMutation ----------------------------
(***************************************************************************)
(* The vocabulary of a gift card row and the decision table that settles a *)
(* gift transfer whose submission may have outlived the HTTP request that  *)
(* started it (supabase/functions/_shared/giftMutation.ts).  The module is *)
(* stateless: GiftLedger and the modules above it hold the state.          *)
(***************************************************************************)
EXTENDS Integers

\* Nulls of the row: operation_nonce, a transaction hash, operation_started_at.
NoNonce == -1
NoHash  == 0
NoStart == 0

\* The statuses of the gift_cards check constraint; "absent" is a row not yet
\* inserted.
OpenStatus == {"pending_escrow", "active", "claim_pending", "cancel_pending"}
Terminal   == {"claimed", "cancelled"}
CardStatus == OpenStatus \cup Terminal \cup {"absent"}

\* Ages in seconds at which the table changes its answer, and one age on each
\* side of every threshold: an operation younger than 30 s, one that may be
\* resent, one past UNSUBMITTED_OPERATION_RESET_MS.
RetryAge == 30
UNSUBMITTED_OPERATION_RESET == 300
Ages == {0, RetryAge, UNSUBMITTED_OPERATION_RESET}

\* pendingOperationAgeMs: an operation with no start time counts as abandoned.
pendingOperationAge(started, elapsed) ==
  IF started = NoStart THEN UNSUBMITTED_OPERATION_RESET ELSE elapsed

Verdict == {"complete", "failed", "pending", "retry_same_nonce",
            "retry_fresh_nonce", "reset_unsubmitted"}

\* A bug for the runs to catch: a consumed nonce is taken for the gift's own
\* transfer, although another writer may have used it.
reconcileConsumedIsComplete(t) ==
  IF t.owner = t.destination \/ (t.nonce # NoNonce /\ t.latest > t.nonce)
  THEN "complete"
  ELSE IF t.hash = NoHash /\ t.nonce = NoNonce
          /\ t.age >= UNSUBMITTED_OPERATION_RESET
  THEN "reset_unsubmitted" ELSE "pending"

\* A bug for the runs to catch: an operation without a nonce is never given up.
reconcileWithoutReset(t) ==
  IF t.owner = t.destination THEN "complete" ELSE "pending"

(***************************************************************************)
(* reconcileGiftTransfer.  t is a record of what the caller read: the      *)
(* owner, the destination, the recorded hash with its receipt ("none" when *)
(* there is none), the recorded nonce, the operator account's pending and  *)
(* latest transaction counts (NoNonce when not read) and the age.          *)
(***************************************************************************)
reconcileGiftTransfer(t) ==
  LET hashed    == t.hash # NoHash
      recorded  == t.nonce # NoNonce
      consumed  == t.latest # NoNonce /\ t.latest > t.nonce
      unseen    == t.pending # NoNonce /\ t.pending <= t.nonce
  IN  IF t.owner = t.destination THEN "complete"
      ELSE IF hashed /\ t.receipt = "success" /\ t.matches THEN "complete"
      ELSE IF hashed /\ t.receipt = "reverted" THEN "failed"
      ELSE IF ~hashed /\ ~recorded /\ t.age >= UNSUBMITTED_OPERATION_RESET
             THEN "reset_unsubmitted"
      ELSE IF ~hashed /\ recorded /\ consumed THEN "retry_fresh_nonce"
      ELSE IF ~hashed /\ recorded /\ unseen /\ t.age >= RetryAge
             THEN "retry_same_nonce"
      ELSE "pending"
=============================================================================
