----------------------------- MODULE GiftLedger -----------------------------
(***************************************************************************)
(* The state every gift handler shares, and the steps of the world around  *)
(* the handlers: the gift_cards table, the operator lease row, the DGE NFT *)
(* contract, the operator account with its mempool, and the sender's       *)
(* browser.  The handlers themselves are in GiftCreate (v1-gift-create)    *)
(* and GiftTransfer (v1-gift-claim, v1-gift-cancel); GiftEscrow composes   *)
(* the three.                                                              *)
(*                                                                         *)
(* A request is one running invocation of an edge function.  Its program   *)
(* counter stands between two awaited calls, so everything another request *)
(* can do between those calls is an interleaving of the model.  Whatever a *)
(* handler keeps in local variables across an await is kept in its record. *)
(***************************************************************************)
EXTENDS GiftMutation, Sequences

CONSTANTS
  Cards,        \* gift_cards rows, one per (sender, client_request_id)
  Tokens,       \* DGE token ids
  TokenOf,      \* the token a card gives away
  SenderOf,     \* the verified wallet that prepared the card
  LegacyCards,  \* cards with custody_mode = 'approval'
  LiveCards,    \* cards already active in the initial state
  Users,        \* wallets of senders and recipients
  Escrow,       \* the operator wallet, escrow of every gift
  Reqs,         \* edge function invocations that may run at once
  None,         \* no card, no wallet, no invocation
  Other,        \* any other writer that signs with the operator key
  Orphan,       \* a lease holder id whose invocation has ended
  Handlers,     \* which handlers clients call
  Faults,       \* which of the environment's steps below may happen
  MaxStarts,    \* bound on the clock when an attempt begins
  MaxTxs,       \* bound on operator transactions
  MaxCodes      \* bound on code reissues of one card

FaultKinds == {"crash", "straggler", "lock", "drop", "other", "move", "expire",
               "revoke"}

HandlerNames == {"prepare", "confirm", "resume", "claim", "cancel"}

ASSUME GiftConstants ==
  /\ TokenOf \in [Cards -> Tokens]
  /\ SenderOf \in [Cards -> Users]
  /\ LegacyCards \subseteq LiveCards /\ LiveCards \subseteq Cards
  /\ \A c, d \in LiveCards : TokenOf[c] = TokenOf[d] => c = d
  /\ Escrow \notin Users /\ None \notin Users \cup {Escrow} \cup Cards \cup Reqs
  /\ Other \notin Cards \cup {None}
  /\ {Other, Orphan, None} \cap Reqs = {} /\ Orphan # None
  /\ Faults \subseteq FaultKinds /\ Handlers \subseteq HandlerNames
  /\ MaxStarts \in Nat /\ MaxTxs \in Nat /\ MaxCodes \in Nat

VARIABLES
  card,      \* the gift_cards table
  req,       \* the local state of every invocation
  lease,     \* holder of the unexpired operator lease, None when free
  owner,     \* DGENFT.ownerOf
  locked,    \* tokens whose DGENFT.transferLocked is set
  approved,  \* tokens with the operator as DGENFT.getApproved
  txs,       \* operator transactions ever accepted by the RPC; the index is the hash
  latest,    \* the operator account's latest transaction count
  deposit,   \* the sender's own escrow transfer for a card
  told,      \* cards whose sender's browser holds a preparation reply
  expired,   \* cards past expires_at
  clock,     \* the last operation_started_at written, each value is written once
  mail,      \* the codes inside the invitations a card's recipient was sent
  abandoned  \* history: attempts reset because nothing had been broadcast

chainVars == <<owner, locked, approved, txs, latest, deposit>>
vars == <<card, req, lease, owner, locked, approved, txs, latest, deposit,
          told, expired, clock, mail, abandoned>>

Wallets == Users \cup {Escrow}
Escrowed(c) == c \notin LegacyCards
CustodyOf(c) == IF Escrowed(c) THEN Escrow ELSE SenderOf[c]

\* An empty row: what the columns hold before anything is written to them.
NoRow == [status |-> "absent", wallet |-> None, claimHash |-> NoHash,
          returnHash |-> NoHash, nonce |-> NoNonce, started |-> NoStart,
          from |-> None, code |-> 0]

Idle == [pc |-> "idle", op |-> None, gift |-> None, seen |-> NoRow,
         holder |-> None, locked |-> FALSE, approved |-> FALSE,
         wallet |-> None, verdict |-> "pending", start |-> NoStart,
         initial |-> FALSE, nonce |-> NoNonce, hash |-> NoHash, code |-> 0]

-----------------------------------------------------------------------------
\* Control of one invocation.

At(p, op, pc) == req[p].op = op /\ req[p].pc = pc
Goto(p, pc) == req' = [req EXCEPT ![p].pc = pc]
Return(p) == req' = [req EXCEPT ![p] = Idle]

\* The invocation is over but its lease row is not released: the holder id
\* belongs to nobody from here on, and only expiry frees the lease.
ReturnKeepingLease(p) ==
  /\ Return(p)
  /\ lease' = IF lease = p THEN Orphan ELSE lease

\* A conditional UPDATE: `write` is applied to the row of c when `guard` holds.
\* The step's continuation must look at the same guard.
Update(c, guard, row) == card' = IF guard THEN [card EXCEPT ![c] = row] ELSE card

Open(c) == card[c].status \in OpenStatus

-----------------------------------------------------------------------------
\* The operator account.

Pending(n) == \E i \in DOMAIN txs : txs[i].nonce = n /\ txs[i].state = "pending"

\* getTransactionCount at the 'pending' tag: the first nonce that no mined or
\* pending transaction uses.
PendingCount(n) ==
  /\ n \in latest .. latest + Len(txs)
  /\ ~Pending(n)
  /\ \A m \in latest .. n - 1 : Pending(m)

\* The RPC accepts a transaction with nonce n: it is appended, and a pending
\* transaction of the same nonce is replaced.
Accept(g, to, n) ==
  txs' = Append([i \in DOMAIN txs |->
                   IF txs[i].nonce = n /\ txs[i].state = "pending"
                   THEN [txs[i] EXCEPT !.state = "gone"] ELSE txs[i]],
                [gift |-> g, to |-> to, nonce |-> n, state |-> "pending"])

\* safeTransferFrom(custody, to, token) succeeds in the current chain state.
Transferable(c) ==
  /\ owner[TokenOf[c]] = CustodyOf(c)
  /\ TokenOf[c] \notin locked
  /\ ~Escrowed(c) => TokenOf[c] \in approved

-----------------------------------------------------------------------------
\* Steps of the environment.

\* The next operator transaction is mined; it succeeds when the transfer is
\* possible, another writer's transaction does not touch gift tokens.
MineNext == \E i \in DOMAIN txs :
  LET x == txs[i]
      ok == x.gift = Other \/ Transferable(x.gift)
  IN  /\ x.state = "pending" /\ x.nonce = latest
      /\ txs' = [txs EXCEPT ![i].state = IF ok THEN "success" ELSE "reverted"]
      /\ latest' = latest + 1
      /\ IF x.gift # Other /\ ok
         THEN /\ owner' = [owner EXCEPT ![TokenOf[x.gift]] = x.to]
              /\ approved' = approved \ {TokenOf[x.gift]}
         ELSE UNCHANGED <<owner, approved>>
      /\ UNCHANGED <<card, req, lease, locked, deposit, told, expired, clock,
                     mail, abandoned>>

\* A pending transaction is evicted from the mempool.
DropTx == \E i \in DOMAIN txs :
  /\ "drop" \in Faults
  /\ txs[i].state = "pending"
  /\ txs' = [txs EXCEPT ![i].state = "gone"]
  /\ UNCHANGED <<card, req, lease, owner, locked, approved, latest, deposit,
                 told, expired, clock, mail, abandoned>>

\* Seller activation, a redemption or the auction sweep signs with the operator
\* key: it takes the free lease, allocates the pending nonce and sends.  Its
\* lease ends by release or by expiry, which are the same step here.
OtherWriterSends == \E n \in latest .. latest + Len(txs) :
  /\ "other" \in Faults
  /\ lease = None /\ Len(txs) < MaxTxs
  /\ PendingCount(n)
  /\ Accept(Other, Escrow, n)
  /\ lease' = Orphan
  /\ UNCHANGED <<card, req, owner, locked, approved, latest, deposit, told,
                 expired, clock, mail, abandoned>>

\* The lease row passes expires_at.  Without stragglers no invocation outlives
\* its own lease, so only a lease nobody will release expires.
LeaseExpires ==
  /\ lease # None
  /\ lease = Orphan \/ "straggler" \in Faults
  /\ lease' = None
  /\ UNCHANGED <<card, req, owner, locked, approved, txs, latest, deposit,
                 told, expired, clock, mail, abandoned>>

\* The worker of an invocation dies between two awaits.
Crash(p) ==
  /\ "crash" \in Faults
  /\ req[p].pc # "idle"
  /\ ReturnKeepingLease(p)
  /\ UNCHANGED <<card, owner, locked, approved, txs, latest, deposit, told,
                 expired, clock, mail, abandoned>>

\* The redemption contracts set or clear a token's transfer lock.
ToggleLock(t) ==
  /\ "lock" \in Faults
  /\ locked' = IF t \in locked THEN locked \ {t} ELSE locked \cup {t}
  /\ UNCHANGED <<card, req, lease, owner, approved, txs, latest, deposit, told,
                 expired, clock, mail, abandoned>>

\* A user moves a token of theirs to another user.
HolderMoves(t, u) ==
  /\ "move" \in Faults
  /\ owner[t] \in Users \ {u} /\ t \notin locked
  /\ owner' = [owner EXCEPT ![t] = u]
  /\ approved' = approved \ {t}
  /\ UNCHANGED <<card, req, lease, locked, txs, latest, deposit, told, expired,
                 clock, mail, abandoned>>

\* The owner of a token clears the operator's approval.
RevokeApproval(t) ==
  /\ "revoke" \in Faults
  /\ t \in approved
  /\ approved' = approved \ {t}
  /\ UNCHANGED <<card, req, lease, owner, locked, txs, latest, deposit, told,
                 expired, clock, mail, abandoned>>

\* expires_at of a card passes.
Expire(c) ==
  /\ "expire" \in Faults
  /\ c \notin expired
  /\ expired' = expired \cup {c}
  /\ UNCHANGED <<card, req, lease, owner, locked, approved, txs, latest,
                 deposit, told, clock, mail, abandoned>>

\* The sender's wallet signs and sends the escrow transfer.  The browser asks
\* for it once it holds a preparation reply, whatever the row says by then.
WalletSendsDeposit(c) ==
  /\ c \in told /\ deposit[c] = "none"
  /\ owner[TokenOf[c]] = SenderOf[c] /\ TokenOf[c] \notin locked
  /\ deposit' = [deposit EXCEPT ![c] = "pending"]
  /\ UNCHANGED <<card, req, lease, owner, locked, approved, txs, latest, told,
                 expired, clock, mail, abandoned>>

\* The escrow transfer is mined: it moves the token or reverts.
DepositMined(c) ==
  LET t == TokenOf[c]
      ok == owner[t] = SenderOf[c] /\ t \notin locked
  IN  /\ deposit[c] = "pending"
      /\ deposit' = [deposit EXCEPT ![c] = IF ok THEN "done" ELSE "none"]
      /\ owner' = IF ok THEN [owner EXCEPT ![t] = Escrow] ELSE owner
      /\ approved' = IF ok THEN approved \ {t} ELSE approved
      /\ UNCHANGED <<card, req, lease, locked, txs, latest, told, expired,
                     clock, mail, abandoned>>

Environment ==
  \/ MineNext \/ DropTx \/ OtherWriterSends \/ LeaseExpires
  \/ \E p \in Reqs : Crash(p)
  \/ \E t \in Tokens : ToggleLock(t) \/ RevokeApproval(t)
  \/ \E t \in Tokens, u \in Users : HolderMoves(t, u)
  \/ \E c \in Cards : Expire(c) \/ WalletSendsDeposit(c) \/ DepositMined(c)
=============================================================================
