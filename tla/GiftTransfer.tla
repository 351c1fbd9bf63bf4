---------------------------- MODULE GiftTransfer ----------------------------
(***************************************************************************)
(* The handlers that move a token out of custody: v1-gift-claim towards    *)
(* the recipient and v1-gift-cancel back to the sender.  Both take the row *)
(* into their own pending status, hold the operator lease, record a nonce  *)
(* before the transaction is broadcast and its hash after, and settle what *)
(* an earlier invocation left behind before they start anything new.       *)
(***************************************************************************)
EXTENDS GiftLedger

\* The two directions differ in these columns only.
PendingStatus(op) == IF op = "claim" THEN "claim_pending" ELSE "cancel_pending"
FinalStatus(op) == IF op = "claim" THEN "claimed" ELSE "cancelled"
HashOf(row, op) == IF op = "claim" THEN row.claimHash ELSE row.returnHash
Destination(op, c, row) == IF op = "claim" THEN row.wallet ELSE SenderOf[c]

ledgerOnly == <<owner, locked, approved, txs, latest, deposit, told, expired,
                mail>>

\* A row without the marks of an operation: what "reopen" writes.
Cleared(row) == [row EXCEPT !.started = NoStart, !.nonce = NoNonce]
ReopenedClaim(row) == [Cleared(row) EXCEPT !.status = "active", !.wallet = None]
\* A bug: the previous status is read after it was cleared.
ReopenedReturnFromCleared(row, status) ==
  LET cleared == [Cleared(row) EXCEPT !.from = None]
  IN  [cleared EXCEPT !.status = cleared.from]
ReopenedReturn(row, status) ==
  [Cleared(row) EXCEPT !.status = status, !.from = None]

\* The reset condition shared by both handlers: still exactly the attempt that
\* was read, and still without a nonce or a hash.
StillUnsubmitted(c, op, seen) ==
  /\ card[c].status = PendingStatus(op)
  /\ card[c].nonce = NoNonce
  /\ HashOf(card[c], op) = NoHash
  /\ card[c].started = seen.started

\* A new value for operation_started_at.  Attempts begin while the bound lets
\* them; an attempt that has begun may always write its second value.
NextStart == clock' = clock + 1
FreshStart == clock < MaxStarts /\ NextStart

-----------------------------------------------------------------------------
\* v1-gift-claim, up to the transfer.

\* The card is loaded by its code and must be active and unexpired, or have a
\* claim pending; w is the caller's verified wallet.  A pending claim keeps the
\* wallet it was started for.
ClaimRead(p, c, w) ==
  /\ "claim" \in Handlers /\ req[p].pc = "idle"
  /\ w \in (Users \ {SenderOf[c]}) \cup {None}
  /\ \/ card[c].status = "active" /\ c \notin expired /\ w # None
     \/ card[c].status = "claim_pending" /\ (card[c].wallet # None \/ w # None)
  /\ req' = [req EXCEPT ![p] = [Idle EXCEPT !.op = "claim", !.gift = c,
                                  !.pc = "chain", !.seen = card[c], !.wallet = w]]
  /\ UNCHANGED <<card, lease, clock, abandoned, ledgerOnly>>

\* ownerOf, transferLocked and, for an approval card, getApproved.
ReadChain(p) ==
  LET t == TokenOf[req[p].gift]
  IN  /\ req[p].pc = "chain"
      /\ req' = [req EXCEPT ![p] = [@ EXCEPT
                   !.holder = owner[t], !.locked = t \in locked,
                   !.approved = t \in approved,
                   !.pc = IF req[p].seen.status = PendingStatus(req[p].op)
                          THEN "reconcile" ELSE "take"]]
      /\ UNCHANGED <<card, lease, clock, abandoned, ledgerOnly>>

\* What the chain said when it was read would let the transfer through.
SeenTransferable(p) ==
  /\ req[p].holder = CustodyOf(req[p].gift)
  /\ ~req[p].locked
  /\ ~Escrowed(req[p].gift) => req[p].approved

\* The receipt lookup may also fail, which reads as no receipt.
Receipt(h, r) ==
  r = "none" \/ (h # NoHash /\ txs[h].state = r /\ r \in {"success", "reverted"})

\* reconcilePendingClaim and its counterpart in v1-gift-cancel: the receipt and
\* the account's nonces are read now, the owner was read before.
Reconcile(p) ==
  LET c == req[p].gift
      seen == req[p].seen
      h == HashOf(seen, req[p].op)
      dest == Destination(req[p].op, c, seen)
      counts == h = NoHash /\ seen.nonce # NoNonce
  IN  /\ req[p].pc = "reconcile"
      /\ \E r \in {"none", "success", "reverted"}, elapsed \in Ages,
            n \in latest .. latest + Len(txs) :
           /\ Receipt(h, r) /\ PendingCount(n)
           /\ LET v == reconcileGiftTransfer(
                         [owner |-> req[p].holder, destination |-> dest,
                          hash |-> h, receipt |-> r,
                          matches |-> r = "success" /\ txs[h].to = dest,
                          nonce |-> seen.nonce,
                          pending |-> IF counts THEN n ELSE NoNonce,
                          latest |-> IF counts THEN latest ELSE NoNonce,
                          age |-> pendingOperationAge(seen.started, elapsed)])
              IN  IF v = "pending" THEN Return(p)
                  ELSE req' = [req EXCEPT ![p] = [@ EXCEPT !.pc = "apply",
                                                           !.verdict = v]]
      /\ UNCHANGED <<card, lease, clock, abandoned, ledgerOnly>>

\* "complete": only the status is compared.
ApplyComplete(p) ==
  LET c == req[p].gift
      op == req[p].op
  IN  /\ req[p].pc = "apply" /\ req[p].verdict = "complete"
      /\ Update(c, card[c].status = PendingStatus(op),
                [Cleared(card[c]) EXCEPT !.status = FinalStatus(op),
                   !.from = IF op = "cancel" THEN None ELSE @])
      /\ Return(p)
      /\ UNCHANGED <<lease, clock, abandoned, ledgerOnly>>

\* A bug: a reverted hash stays in the row that is reopened.
ApplyFailedKeepingHash(p) ==
  LET c == req[p].gift
  IN  /\ req[p].pc = "apply" /\ req[p].verdict = "failed"
      /\ Update(c, card[c].status = PendingStatus(req[p].op),
                ReopenedClaim(card[c]))
      /\ Return(p)
      /\ UNCHANGED <<lease, clock, abandoned, ledgerOnly>>

\* "failed": only the status is compared, and the hash is cleared.
ApplyFailed(p) ==
  LET c == req[p].gift
      from == req[p].seen.from
  IN  /\ req[p].pc = "apply" /\ req[p].verdict = "failed"
      /\ IF req[p].op = "claim"
         THEN Update(c, card[c].status = "claim_pending",
                     [ReopenedClaim(card[c]) EXCEPT !.claimHash = NoHash])
         ELSE Update(c, card[c].status = "cancel_pending",
                     [ReopenedReturn(card[c], IF from = None THEN "active" ELSE from)
                        EXCEPT !.returnHash = NoHash])
      /\ Return(p)
      /\ UNCHANGED <<lease, clock, abandoned, ledgerOnly>>

\* "reset_unsubmitted" of a claim: the card is reopened and the invocation goes
\* on as a fresh claim to the caller's current wallet.
ResetClaim(p) ==
  LET c == req[p].gift
      still == StillUnsubmitted(c, "claim", req[p].seen)
  IN  /\ At(p, "claim", "apply") /\ req[p].verdict = "reset_unsubmitted"
      /\ Update(c, still, ReopenedClaim(card[c]))
      /\ abandoned' = IF still THEN abandoned \cup {card[c].started} ELSE abandoned
      /\ IF still /\ c \notin expired /\ req[p].wallet # None
         THEN Goto(p, "take") ELSE Return(p)
      /\ UNCHANGED <<lease, clock, ledgerOnly>>

\* "reset_unsubmitted" of a return: the open status is restored and the
\* invocation goes on to cancel from it.
ResetReturn(p) ==
  LET c == req[p].gift
      seen == req[p].seen
      still == StillUnsubmitted(c, "cancel", seen)
      open == IF seen.from = None THEN "active" ELSE seen.from
  IN  /\ At(p, "cancel", "apply") /\ req[p].verdict = "reset_unsubmitted"
      /\ Update(c, still, ReopenedReturn(card[c], open))
      /\ abandoned' = IF still THEN abandoned \cup {card[c].started} ELSE abandoned
      /\ IF still
         THEN req' = [req EXCEPT ![p] = [@ EXCEPT !.pc = "take",
                                           !.seen = ReopenedReturn(seen, open)]]
         ELSE Return(p)
      /\ UNCHANGED <<lease, clock, ledgerOnly>>

\* A bug: a retry always allocates a nonce of its own.
ApplyRetryFreshNonce(p) ==
  LET c == req[p].gift
      op == req[p].op
  IN  /\ req[p].pc = "apply"
      /\ req[p].verdict \in {"retry_same_nonce", "retry_fresh_nonce"}
      /\ SeenTransferable(p) /\ card[c].status = PendingStatus(op)
      /\ card[c].started = req[p].seen.started
      /\ FreshStart
      /\ card' = [card EXCEPT ![c].started = clock']
      /\ req' = [req EXCEPT ![p] = [Idle EXCEPT !.op = op, !.gift = c,
                   !.pc = "lease", !.start = clock',
                   !.wallet = Destination(op, c, req[p].seen)]]
      /\ UNCHANGED <<lease, abandoned, ledgerOnly>>

\* Both retries: the token must have been seen in custody, and the row must
\* still carry the start that was read; the attempt gets a start of its own.
ApplyRetry(p) ==
  LET c == req[p].gift
      op == req[p].op
      same == req[p].verdict = "retry_same_nonce"
      mine == /\ SeenTransferable(p)
              /\ card[c].status = PendingStatus(op)
              /\ card[c].started = req[p].seen.started
  IN  /\ req[p].pc = "apply"
      /\ req[p].verdict \in {"retry_same_nonce", "retry_fresh_nonce"}
      /\ IF mine
         THEN /\ FreshStart
              /\ card' = [card EXCEPT ![c].started = clock']
              /\ req' = [req EXCEPT ![p] = [Idle EXCEPT !.op = op, !.gift = c,
                           !.pc = "lease", !.start = clock',
                           !.wallet = Destination(op, c, req[p].seen),
                           !.nonce = IF same THEN req[p].seen.nonce ELSE NoNonce]]
         ELSE Return(p) /\ UNCHANGED <<card, clock>>
      /\ UNCHANGED <<lease, abandoned, ledgerOnly>>

\* A fresh claim takes an active card.
TakeClaim(p) ==
  LET c == req[p].gift
  IN  /\ At(p, "claim", "take")
      /\ IF SeenTransferable(p) /\ card[c].status = "active"
         THEN /\ FreshStart
              /\ card' = [card EXCEPT ![c] = [@ EXCEPT !.status = "claim_pending",
                            !.wallet = req[p].wallet, !.started = clock']]
              /\ req' = [req EXCEPT ![p] = [Idle EXCEPT !.op = "claim", !.gift = c,
                           !.pc = "lease", !.start = clock', !.initial = TRUE,
                           !.wallet = req[p].wallet]]
         ELSE Return(p) /\ UNCHANGED <<card, clock>>
      /\ UNCHANGED <<lease, abandoned, ledgerOnly>>

-----------------------------------------------------------------------------
\* v1-gift-cancel, up to the transfer.

\* The sender's open card.  A pending claim can be cancelled only when its
\* attempt never recorded anything and is past the reset window.
CancelRead(p, c) ==
  LET row == card[c]
  IN  /\ "cancel" \in Handlers /\ req[p].pc = "idle"
      /\ Open(c)
      /\ row.status = "claim_pending" =>
           row.claimHash = NoHash /\ row.nonce = NoNonce
      /\ req' = [req EXCEPT ![p] = [Idle EXCEPT !.op = "cancel", !.gift = c,
                   !.seen = row,
                   !.pc = IF row.status = "claim_pending" THEN "reopen"
                          ELSE IF Escrowed(c) THEN "chain" ELSE "retire"]]
      /\ UNCHANGED <<card, lease, clock, abandoned, ledgerOnly>>

CancelReopen(p) ==
  LET c == req[p].gift
      seen == req[p].seen
      still == StillUnsubmitted(c, "claim", seen)
  IN  /\ At(p, "cancel", "reopen")
      /\ Update(c, still, ReopenedClaim(card[c]))
      /\ abandoned' = IF still THEN abandoned \cup {card[c].started} ELSE abandoned
      /\ IF still
         THEN req' = [req EXCEPT ![p] = [@ EXCEPT
                        !.seen = [Cleared(seen) EXCEPT !.status = "active"],
                        !.pc = IF Escrowed(c) THEN "chain" ELSE "retire"]]
         ELSE Return(p)
      /\ UNCHANGED <<lease, clock, ledgerOnly>>

\* An approval card is only marked.
CancelLegacy(p) ==
  LET c == req[p].gift
  IN  /\ At(p, "cancel", "retire") /\ ~Escrowed(c)
      /\ Update(c, card[c].status = req[p].seen.status,
                [card[c] EXCEPT !.status = "cancelled"])
      /\ Return(p)
      /\ UNCHANGED <<lease, clock, abandoned, ledgerOnly>>

\* The row leaves the status that was read: towards a return transfer when
\* escrow was seen to hold the token, to "cancelled" otherwise.
TakeReturn(p) ==
  LET c == req[p].gift
      status == req[p].seen.status
      held == req[p].holder = Escrow
      refused == \/ status = "active" /\ req[p].holder \notin {SenderOf[c], Escrow}
                 \/ req[p].locked /\ held
  IN  /\ At(p, "cancel", "take")
      /\ IF refused \/ card[c].status # status
         THEN Return(p) /\ UNCHANGED <<card, clock>>
         ELSE \/ /\ held
                 /\ FreshStart
                 /\ card' = [card EXCEPT ![c] = [@ EXCEPT !.status = "cancel_pending",
                               !.from = status, !.started = clock']]
                 /\ req' = [req EXCEPT ![p] = [Idle EXCEPT !.op = "cancel",
                              !.gift = c, !.pc = "lease", !.start = clock',
                              !.initial = TRUE, !.wallet = SenderOf[c],
                              !.seen.status = status]]
              \/ /\ ~held
                 /\ card' = [card EXCEPT ![c] = [@ EXCEPT !.status = "cancelled",
                               !.from = None, !.started = NoStart]]
                 /\ Goto(p, "retire")
                 /\ UNCHANGED clock
      /\ UNCHANGED <<lease, abandoned, ledgerOnly>>

\* The last write of the direct path carries no status condition.
CancelRetire(p) ==
  LET c == req[p].gift
  IN  /\ At(p, "cancel", "retire") /\ Escrowed(c)
      /\ card' = [card EXCEPT ![c] = [Cleared(@) EXCEPT !.status = "cancelled",
                    !.returnHash = NoHash, !.from = None]]
      /\ Return(p)
      /\ UNCHANGED <<lease, clock, abandoned, ledgerOnly>>

-----------------------------------------------------------------------------
\* submitClaimTransfer and submitReturn, with writeAndConfirm inlined.

\* claimGiftTransferLease: granted when free or expired.  A fresh attempt that
\* is refused is undone, a retry leaves the row as it is.
TakeLease(p) ==
  /\ req[p].pc = "lease"
  /\ \/ /\ lease = None
        /\ lease' = p
        /\ Goto(p, "simulate")
     \/ /\ lease # None
        /\ IF req[p].initial THEN Goto(p, "undo") ELSE Return(p)
        /\ UNCHANGED lease
  /\ UNCHANGED <<card, clock, abandoned, ledgerOnly>>

\* The simulated transfer reverts or its RPC call fails.
SimulateFails(p) ==
  /\ req[p].pc = "simulate"
  /\ Goto(p, IF req[p].initial THEN "undo" ELSE "release")
  /\ UNCHANGED <<card, lease, clock, abandoned, ledgerOnly>>

\* The simulation passes; a nonce is allocated unless the retry brought one.
Simulate(p) ==
  /\ req[p].pc = "simulate"
  /\ Transferable(req[p].gift)
  /\ \E n \in latest .. latest + Len(txs) :
       LET nonce == IF req[p].nonce = NoNonce THEN n ELSE req[p].nonce
       IN  /\ PendingCount(n)
           /\ req' = [req EXCEPT ![p] = [@ EXCEPT !.pc = "record", !.nonce = nonce]]
  /\ UNCHANGED <<card, lease, clock, abandoned, ledgerOnly>>

\* A bug: only the status is compared, a later attempt's row is taken for one's own.
RecordNonceByStatus(p) ==
  LET c == req[p].gift
  IN  /\ req[p].pc = "record"
      /\ card[c].status = PendingStatus(req[p].op)
      /\ NextStart
      /\ card' = [card EXCEPT ![c] = [@ EXCEPT !.nonce = req[p].nonce,
                                               !.started = clock']]
      /\ Goto(p, "broadcast")
      /\ UNCHANGED <<lease, abandoned, ledgerOnly>>

\* onSubmitting: the nonce is written only under the attempt's own start, which
\* it replaces.
RecordNonce(p) ==
  LET c == req[p].gift
      mine == /\ card[c].status = PendingStatus(req[p].op)
              /\ card[c].started = req[p].start
  IN  /\ req[p].pc = "record"
      /\ IF mine
         THEN /\ NextStart
              /\ card' = [card EXCEPT ![c] = [@ EXCEPT !.nonce = req[p].nonce,
                                                       !.started = clock']]
              /\ Goto(p, "broadcast")
         ELSE /\ Goto(p, IF req[p].initial THEN "undo" ELSE "release")
              /\ UNCHANGED <<card, clock>>
      /\ UNCHANGED <<lease, abandoned, ledgerOnly>>

\* writeContract: the RPC accepts the transaction, replacing a pending one of
\* the same nonce.  The reply arrives, or is lost and the invocation ends.
Broadcast(p) ==
  LET n == req[p].nonce
  IN  /\ req[p].pc = "broadcast"
      /\ n >= latest /\ Len(txs) < MaxTxs
      /\ Accept(req[p].gift, req[p].wallet, n)
      /\ \/ /\ req' = [req EXCEPT ![p] = [@ EXCEPT !.pc = "hash",
                                                   !.hash = Len(txs) + 1]]
            /\ UNCHANGED lease
         \/ ReturnKeepingLease(p)
      /\ UNCHANGED <<card, owner, locked, approved, latest, deposit, told,
                     expired, clock, mail, abandoned>>

\* writeContract: nonce too low, replacement underpriced, or no connection.
\* submissionAttempted is set, so the row and the lease are kept.
BroadcastFails(p) ==
  /\ req[p].pc = "broadcast"
  /\ ReturnKeepingLease(p)
  /\ UNCHANGED <<card, clock, abandoned, ledgerOnly>>

\* onSubmitted: only the status is compared.
RecordHash(p) ==
  LET c == req[p].gift
      op == req[p].op
      h == req[p].hash
  IN  /\ req[p].pc = "hash"
      /\ Update(c, card[c].status = PendingStatus(op),
                IF op = "claim" THEN [card[c] EXCEPT !.claimHash = h]
                ELSE [card[c] EXCEPT !.returnHash = h])
      /\ Goto(p, "receipt")
      /\ UNCHANGED <<lease, clock, abandoned, ledgerOnly>>

\* A bug: a receipt is taken for success without its status.
ConfirmedByAnyReceipt(p) ==
  /\ req[p].pc = "receipt"
  /\ \E i \in DOMAIN txs : /\ txs[i].nonce = req[p].nonce
                           /\ txs[i].state \in {"success", "reverted"}
  /\ Goto(p, "release-final")
  /\ UNCHANGED <<card, lease, clock, abandoned, ledgerOnly>>

\* waitForTransactionReceipt: the transaction of that account and nonce is
\* mined successfully; a replacement's receipt counts as the answer.
Confirmed(p) ==
  /\ req[p].pc = "receipt"
  /\ \E i \in DOMAIN txs : txs[i].nonce = req[p].nonce /\ txs[i].state = "success"
  /\ Goto(p, "release-final")
  /\ UNCHANGED <<card, lease, clock, abandoned, ledgerOnly>>

\* The receipt is a revert, or does not arrive in 90 seconds.
Unconfirmed(p) ==
  /\ req[p].pc = "receipt"
  /\ ReturnKeepingLease(p)
  /\ UNCHANGED <<card, clock, abandoned, ledgerOnly>>

\* releaseUnsubmittedClaim, releaseUnsubmittedReturn: the attempt never
\* broadcast and is undone if the row is still its own.
UndoAttempt(p) ==
  LET c == req[p].gift
      op == req[p].op
  IN  /\ req[p].pc = "undo"
      /\ Update(c, card[c].status = PendingStatus(op) /\ card[c].started = req[p].start,
                IF op = "claim" THEN ReopenedClaim(card[c])
                ELSE ReopenedReturn(card[c], req[p].seen.status))
      /\ Goto(p, "release")
      /\ UNCHANGED <<lease, clock, abandoned, ledgerOnly>>

\* releaseGiftTransferLease: conditional on still being the holder.
ReleaseLease(p) ==
  /\ req[p].pc \in {"release", "release-final"}
  /\ lease' = IF lease = p THEN None ELSE lease
  /\ IF req[p].pc = "release" THEN Return(p) ELSE Goto(p, "final")
  /\ UNCHANGED <<card, clock, abandoned, ledgerOnly>>

\* The confirmed transfer closes the card; only the status is compared.
Finalize(p) ==
  LET c == req[p].gift
      op == req[p].op
  IN  /\ req[p].pc = "final"
      /\ Update(c, card[c].status = PendingStatus(op),
                IF op = "claim" THEN [Cleared(card[c]) EXCEPT !.status = "claimed"]
                ELSE [Cleared(card[c]) EXCEPT !.status = "cancelled",
                        !.returnHash = req[p].hash, !.from = None])
      /\ Return(p)
      /\ UNCHANGED <<lease, clock, abandoned, ledgerOnly>>

submitTransfer(p) ==
  \/ TakeLease(p) \/ SimulateFails(p) \/ Simulate(p) \/ RecordNonce(p)
  \/ Broadcast(p) \/ BroadcastFails(p) \/ RecordHash(p)
  \/ Confirmed(p) \/ Unconfirmed(p) \/ UndoAttempt(p)
  \/ ReleaseLease(p) \/ Finalize(p)

\* An invocation begins, or one that runs takes its next step.
ClaimBegins(p) == \E c \in Cards, w \in Users \cup {None} : ClaimRead(p, c, w)
CancelBegins(p) == \E c \in Cards : CancelRead(p, c)

TransferStep(p) ==
  \/ ReadChain(p) \/ Reconcile(p)
  \/ ApplyComplete(p) \/ ApplyFailed(p) \/ ApplyRetry(p)
  \/ ResetClaim(p) \/ ResetReturn(p) \/ TakeClaim(p) \/ TakeReturn(p)
  \/ CancelReopen(p) \/ CancelLegacy(p) \/ CancelRetire(p)
  \/ submitTransfer(p)

TransferNext == \E p \in Reqs :
  ClaimBegins(p) \/ CancelBegins(p) \/ TransferStep(p)
=============================================================================
