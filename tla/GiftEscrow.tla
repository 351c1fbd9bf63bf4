----------------------------- MODULE GiftEscrow -----------------------------
(***************************************************************************)
(* The gift subsystem: v1-gift-create, v1-gift-claim and v1-gift-cancel    *)
(* running concurrently over one gift_cards table, one operator lease, one *)
(* operator account and the chain.                                         *)
(***************************************************************************)
EXTENDS GiftCreate, GiftTransfer

\* Live cards were escrowed (or approved, for a legacy card) before the
\* behaviour starts; every other row is yet to be prepared.
LiveRow == [NoRow EXCEPT !.status = "active", !.code = 1]

Init ==
  /\ card = [c \in Cards |-> IF c \in LiveCards THEN LiveRow ELSE NoRow]
  /\ req = [p \in Reqs |-> Idle]
  /\ lease = None
  /\ owner \in [Tokens -> Wallets]
  /\ \A c \in LiveCards : owner[TokenOf[c]] = CustodyOf(c)
  /\ \A t \in Tokens : t \notin {TokenOf[c] : c \in LiveCards} =>
       \E c \in Cards : TokenOf[c] = t /\ owner[t] = SenderOf[c]
  /\ locked = {}
  /\ approved = {TokenOf[c] : c \in LegacyCards}
  /\ txs = <<>>
  /\ latest = 0
  /\ deposit = [c \in Cards |->
                  IF c \in LiveCards \ LegacyCards THEN "done" ELSE "none"]
  /\ told = LiveCards \ LegacyCards
  /\ expired = {}
  /\ clock = 0
  /\ mail = [c \in Cards |-> IF c \in LiveCards THEN <<1>> ELSE <<>>]
  /\ abandoned = {}

Next == CreateNext \/ TransferNext \/ Environment

Spec == Init /\ [][Next]_vars

\* Nothing holds this in the code, it is an assumption about time.  What a settling
\* invocation concluded from a row is written while the row is still that row,
\* although the write of a failure compares its status only; and the hash of a
\* transfer is reported before the next attempt begins, although only the status
\* is compared there too.
Early == {"lease", "simulate", "record", "undo"}
Trying(q, c) ==
  req[q].gift = c /\ req[q].pc \in Early /\ card[c].started = req[q].start
ReportsInTime ==
  \A p \in Reqs :
    LET c == req[p].gift
    IN  /\ (ApplyFailed(p) \/ ApplyRetry(p)) /\ card' # card => card[c] = req[p].seen
        /\ RecordHash(p) /\ card' # card =>
             card[c].nonce = req[p].nonce /\ \A q \in Reqs : ~Trying(q, c)

InTimeSpec == Init /\ [][Next /\ ReportsInTime]_vars

\* Two more assumptions.  An invocation ends before its operator lease expires; and
\* nobody puts a token into escrow while a transfer of it is being settled, which
\* takes an old setup of whoever just received it.
LeaseIsKept == LeaseExpires => lease = Orphan
NotGivenOn ==
  \A c, d \in Cards :
    /\ DepositMined(c) /\ TokenOf[d] = TokenOf[c] /\ Escrowed(d)
    /\ card[d].status \in {"claim_pending", "cancel_pending"}
    => UNCHANGED owner

HeldSpec == Init /\ [][Next /\ ReportsInTime /\ LeaseIsKept /\ NotGivenOn]_vars

\* The recipient keeps opening the claim page, also past the reset window, a
\* running invocation goes on, and workers are not killed at the same step of
\* every attempt.
ClaimSomeGift(p) == \E c \in Cards, w \in Users : ClaimRead(p, c, w)
ReconcileLater(p) == Reconcile(p) /\ req'[p].verdict = "reset_unsubmitted"
Patience ==
  \A p \in Reqs : /\ SF_vars(ClaimSomeGift(p))
                  /\ WF_vars(TransferStep(p))
                  /\ SF_vars(ReadChain(p))
                  /\ SF_vars(ReconcileLater(p))
                  /\ SF_vars(ResetClaim(p))

PatientSpec == Spec /\ Patience

-----------------------------------------------------------------------------
\* Types.

Rows == [status : CardStatus, wallet : Users \cup {None}, claimHash : Nat,
         returnHash : Nat, nonce : Nat \cup {NoNonce}, started : Nat,
         from : {"pending_escrow", "active", None}, code : Nat]

Steps == {"idle", "supersede", "insert", "proof", "activate", "mail", "send", "custody",
          "reissue", "chain", "reconcile", "apply", "take", "reopen", "retire",
          "lease", "simulate", "record", "broadcast", "hash", "receipt", "undo",
          "release", "release-final", "final"}

Requests == [pc : Steps, op : HandlerNames \cup {None}, gift : Cards \cup {None},
             seen : Rows, holder : Wallets \cup {None}, locked : BOOLEAN,
             approved : BOOLEAN, wallet : Users \cup {None}, verdict : Verdict,
             start : Nat, initial : BOOLEAN, nonce : Nat \cup {NoNonce},
             hash : Nat, code : Nat]

\* An invocation that runs works on a card, and a cancellation goes on to take
\* only a card it saw open and unclaimed.
Invocations ==
  {r \in Requests :
     /\ r.pc # "idle" => r.gift \in Cards
     /\ r.op = "cancel" =>
          /\ r.pc = "chain" =>
               r.seen.status \in {"pending_escrow", "active", "cancel_pending"}
          /\ r.pc = "take" => r.seen.status \in {"pending_escrow", "active"}}

Transactions == [gift : Cards \cup {Other}, to : Wallets \cup {None}, nonce : Nat,
                 state : {"pending", "success", "reverted", "gone"}]

\* Every variable has the shape the table, the contract or the handler gives it.
TypeOK ==
  /\ card \in [Cards -> Rows]
  /\ req \in [Reqs -> Invocations]
  /\ lease \in Reqs \cup {None, Orphan}
  /\ owner \in [Tokens -> Wallets \cup {None}]
  /\ locked \subseteq Tokens /\ approved \subseteq Tokens
  /\ txs \in Seq(Transactions)
  /\ latest \in Nat
  /\ deposit \in [Cards -> {"none", "pending", "done"}]
  /\ told \subseteq Cards /\ expired \subseteq Cards
  /\ clock \in Nat
  /\ mail \in [Cards -> Seq(Nat)]
  /\ abandoned \subseteq Nat

-----------------------------------------------------------------------------
\* What the proofs strengthen the properties below with: AbandonedNeverBroadcasts
\* with the two parts of AttemptInv.

\* operation_started_at names an attempt: no row carries a value not yet
\* written, the value of another row's attempt, or that of an abandoned one.
StartsNameAttempts ==
  /\ abandoned \subseteq 0 .. clock
  /\ \A c \in Cards :
       /\ card[c].started <= clock
       /\ card[c].started # NoStart =>
            /\ card[c].started \notin abandoned
            /\ \A d \in Cards : card[d].started = card[c].started => d = c

\* An invocation between its take and its broadcast has a value of its own;
\* once it may broadcast, no row carries that value any more, so nothing can
\* abandon it.
Attempt == {"lease", "simulate", "record", "broadcast"}
AttemptsAreStarted ==
  \A p \in Reqs :
    /\ req[p].pc \in Attempt => req[p].start \in 1 .. clock
    /\ req[p].pc = "broadcast" =>
         /\ req[p].start \notin abandoned
         /\ \A c \in Cards : card[c].started # req[p].start

AttemptInv == TypeOK /\ StartsNameAttempts /\ AttemptsAreStarted

\* And FinishedStays with: the second write of a direct cancellation, which has no
\* condition, finds the card as the first one left it; the one write of a legacy
\* cancellation compares with a status that was open.
RetiresClosed ==
  \A p \in Reqs : req[p].pc = "retire" =>
    IF Escrowed(req[p].gift) THEN card[req[p].gift].status = "cancelled"
    ELSE req[p].seen.status \in OpenStatus

RetireInv == TypeOK /\ RetiresClosed

-----------------------------------------------------------------------------
\* Safety.

\* An attempt that was reset as abandoned never reaches the broadcast: what
\* v1-gift-claim and v1-gift-cancel say of onSubmitting and operation_started_at.
AbandonedNeverBroadcasts ==
  \A p \in Reqs : req[p].pc = "broadcast" => req[p].start \notin abandoned

\* The nonces under which a card's transfer can still be mined: pending ones,
\* and ones an invocation is about to broadcast.
MovableNonces(c) ==
  {txs[i].nonce : i \in {j \in DOMAIN txs :
                           txs[j].gift = c /\ txs[j].state = "pending"}}
  \cup {req[p].nonce : p \in {q \in Reqs : req[q].gift = c
                  /\ req[q].pc = "broadcast" /\ req[q].nonce >= latest}}

\* However often a claim or a cancellation is retried, the transfers of one
\* card that can still be mined all carry one nonce, so at most one is mined;
\* and a card that may be claimed or cancelled afresh has none.
OneMovableNonce ==
  \A c \in Cards :
    /\ \A m, n \in MovableNonces(c) : m = n
    /\ card[c].status \in {"pending_escrow", "active"} => MovableNonces(c) = {}

\* A card ends as claimed only after its own transfer delivered the token to
\* the wallet the row names.
ClaimedIsDelivered ==
  \A c \in Cards : card[c].status = "claimed" /\ Escrowed(c) =>
    \E i \in DOMAIN txs : /\ txs[i].gift = c /\ txs[i].state = "success"
                          /\ txs[i].to = card[c].wallet

\* A claimable escrow card is backed by the token in escrow.
ActiveIsBacked ==
  \A c \in Cards : card[c].status = "active" /\ Escrowed(c) =>
    owner[TokenOf[c]] = Escrow

\* A recorded transaction hash is a transfer of this card to the destination
\* the row names.
HashIsOwnTransfer ==
  \A c \in Cards :
    /\ card[c].claimHash # NoHash =>
         txs[card[c].claimHash].gift = c /\ txs[card[c].claimHash].to = card[c].wallet
    /\ card[c].returnHash # NoHash =>
         txs[card[c].returnHash].gift = c /\ txs[card[c].returnHash].to = SenderOf[c]

\* A token the operator holds always has an open card that explains it.
EscrowIsExplained ==
  \A t \in Tokens : owner[t] = Escrow =>
    \E c \in Cards : TokenOf[c] = t /\ Open(c)

-----------------------------------------------------------------------------
\* What a step may never do.

\* A finished card stays as it is, but for the bookkeeping of the invocation
\* that cancelled it.
FinishedStays ==
  [][\A c \in Cards : card[c].status \in Terminal => card'[c].status = card[c].status]_vars

\* A code that opens a live card is never replaced: only a pending card, whose
\* code nobody could use, has its code reissued.
LiveCodeStays ==
  [][\A c \in Cards : card'[c].code # card[c].code =>
       card[c].status \in {"absent", "pending_escrow"}]_vars

-----------------------------------------------------------------------------
\* Liveness.

\* The row of a claim that recorded neither a nonce nor a hash.
Unsubmitted(c) ==
  /\ card[c].status = "claim_pending"
  /\ card[c].nonce = NoNonce /\ card[c].claimHash = NoHash

\* A worker that dies before recording the nonce does not leave the card being
\* claimed forever: a retry past the reset window reopens it.
UnsubmittedIsReopened == \A c \in Cards : Unsubmitted(c) ~> ~Unsubmitted(c)
=============================================================================
