-------------------------- MODULE RedemptionChain --------------------------
(***************************************************************************)
(* RedemptionManager's record of one token and the writes the wallets and  *)
(* the server send to it, as the functions and the browser rely on them.   *)
(***************************************************************************)
EXTENDS Naturals, FiniteSets

CONSTANTS Requests, Orgs, Evidence, Approvers, None

ChainPhase == [None |-> 0, Requested |-> 1, FulfillmentStarted |-> 2,
               ProofSubmitted |-> 3, ProofApproved |-> 4, Completed |-> 5]

\* A proof digest stands for the arrival evidence and the proof version it
\* commits to, an approval for the organisation whose call derived it.
Digests == Evidence \X {1, 2}

NoRecord == [phase |-> ChainPhase.None, workflow |-> None, commitment |-> None,
             digest |-> None, proofVersion |-> 0, approval |-> None]

VARIABLES
  rec,        \* the manager's record of the token
  proposal,   \* its recovery proposal: the approvers that signed, and its grace
  pending,    \* transactions sent and not mined
  mined       \* transactions that succeeded

chainVars == <<rec, proposal, pending, mined>>

NoProposal == [by |-> {}, aged |-> FALSE, executed |-> FALSE]

OpenFor(r) == rec.workflow = r /\ rec.phase \notin {ChainPhase.None, ChainPhase.Completed}

Tx(fn, r, arg) == [fn |-> fn, request |-> r, arg |-> arg]
Send(tx) == pending' = pending \cup {tx} /\ UNCHANGED <<rec, proposal, mined>>

\* What an authorization is signed over.
FinalizeDigest(r, record) ==
  [workflow |-> r, commitment |-> record.commitment, digest |-> record.digest,
   approval |-> record.approval]

Accepts(tx) ==
  CASE tx.fn = "openRedemption" -> rec.phase = ChainPhase.None
    [] tx.fn \in {"cancelRedemption", "setCollectorCommitment", "startFulfillment"} ->
         rec.phase = ChainPhase.Requested
    [] tx.fn = "submitFulfillmentProof" -> rec.phase = ChainPhase.FulfillmentStarted
    [] tx.fn = "approveFulfillmentProof" -> rec.phase = ChainPhase.ProofSubmitted
    [] tx.fn = "finalizeRedemption" ->
         rec.phase = ChainPhase.ProofApproved /\ tx.arg = FinalizeDigest(rec.workflow, rec)
    [] tx.fn = "proposeRecovery" -> rec.phase = ChainPhase.ProofApproved /\ proposal.by = {}
    [] tx.fn = "approveRecovery" ->
         rec.phase = ChainPhase.ProofApproved /\ proposal.by # {} /\ tx.arg \notin proposal.by
    [] tx.fn = "executeRecovery" ->
         /\ rec.phase = ChainPhase.ProofApproved
         /\ Cardinality(proposal.by) >= 2 /\ proposal.aged

RecordAfter(tx) ==
  CASE tx.fn = "openRedemption" ->
         [NoRecord EXCEPT !.phase = ChainPhase.Requested, !.workflow = tx.request]
    [] tx.fn = "cancelRedemption" -> NoRecord
    [] tx.fn = "setCollectorCommitment" -> [rec EXCEPT !.commitment = tx.arg]
    [] tx.fn = "startFulfillment" -> [rec EXCEPT !.phase = ChainPhase.FulfillmentStarted]
    [] tx.fn = "submitFulfillmentProof" ->
         [rec EXCEPT !.phase = ChainPhase.ProofSubmitted, !.digest = tx.arg,
                     !.proofVersion = @ + 1]
    [] tx.fn = "approveFulfillmentProof" ->
         [rec EXCEPT !.phase = ChainPhase.ProofApproved, !.approval = tx.arg]
    [] tx.fn \in {"finalizeRedemption", "executeRecovery"} ->
         [rec EXCEPT !.phase = ChainPhase.Completed]
    [] OTHER -> rec

\* A pending transaction is included: it takes effect or reverts.
Mine(tx) ==
  /\ tx \in pending
  /\ pending' = pending \ {tx}
  /\ IF Accepts(tx)
       THEN /\ rec' = RecordAfter(tx)
            /\ proposal' = CASE tx.fn \in {"proposeRecovery", "approveRecovery"} ->
                                  [proposal EXCEPT !.by = @ \cup {tx.arg}]
                             [] tx.fn = "executeRecovery" -> [proposal EXCEPT !.executed = TRUE]
                             [] OTHER -> proposal
            /\ mined' = mined \cup {tx}
       ELSE UNCHANGED <<rec, proposal, mined>>

\* The seven days of a proposal pass.
GraceEnds == /\ proposal.by # {} /\ ~proposal.aged
             /\ proposal' = [proposal EXCEPT !.aged = TRUE]
             /\ UNCHANGED <<rec, pending, mined>>
=============================================================================
