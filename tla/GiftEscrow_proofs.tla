------------------------- MODULE GiftEscrow_proofs --------------------------
(***************************************************************************)
(* GiftEscrow for every set of cards, tokens, wallets and invocations,     *)
(* every choice of handlers and faults, and every bound.  Its types are    *)
(* right; an abandoned attempt never broadcasts, a finished card stays     *)
(* finished, and the code of a live card stays.                            *)
(***************************************************************************)
EXTENDS GiftEscrow, TLAPS

-----------------------------------------------------------------------------
\* How the shapes of a row and of an invocation survive what the handlers do.

\* An invocation that only moves on keeps its shape; "chain" and "take" ask more
\* of it and are treated where they are entered.
LEMMA GotoShape ==
  ASSUME TypeOK, NEW p \in Reqs, NEW s \in Steps \ {"chain", "take"},
         req[p].pc # "idle", Goto(p, s)
  PROVE  req' \in [Reqs -> Invocations]
<1>1. req[p] \in Requests /\ req[p].gift \in Cards  BY DEF TypeOK, Invocations
<1>2. [req[p] EXCEPT !.pc = s] \in Invocations
  BY <1>1 DEF Invocations, Requests
<1>3. req' = [req EXCEPT ![p] = [req[p] EXCEPT !.pc = s]]  BY DEF Goto
<1>. QED  BY <1>2, <1>3 DEF TypeOK

\* An empty row is a row.
LEMMA EmptyRow == GiftConstants => NoRow \in Rows
BY DEF NoRow, Rows, CardStatus, NoHash, NoNonce, NoStart, GiftConstants

\* An idle invocation is an invocation.
LEMMA IdleShape == GiftConstants => Idle \in Invocations /\ Idle.pc = "idle"
BY EmptyRow DEF Idle, Invocations, Requests, Steps, Verdict, NoHash, NoNonce, NoStart

\* An invocation that has answered is idle and well-formed.
LEMMA ReturnShape ==
  ASSUME GiftConstants, TypeOK, NEW p \in Reqs, Return(p)
  PROVE  req' \in [Reqs -> Invocations]
BY IdleShape DEF TypeOK, Return

\* A conditional update with a well-formed row keeps the table well-formed.
LEMMA UpdateShape ==
  ASSUME TypeOK, NEW c \in Cards, NEW guard, NEW row,
         guard => row \in Rows, Update(c, guard, row)
  PROVE  card' \in [Cards -> Rows]
BY DEF TypeOK, Update

\* The rows the handlers write when they clear, reopen or close a card.
LEMMA RowShapes ==
  ASSUME NEW row \in Rows
  PROVE  /\ Cleared(row) \in Rows
         /\ ReopenedClaim(row) \in Rows
         /\ \A s \in CardStatus : ReopenedReturn(row, s) \in Rows
         /\ \A s \in CardStatus : [row EXCEPT !.status = s] \in Rows
BY DEF Rows, Cleared, ReopenedClaim, ReopenedReturn, NoNonce, NoStart, CardStatus,
       OpenStatus, Terminal

\* The pending count is a nonce.
LEMMA CountIsNat ==
  ASSUME TypeOK, NEW n \in latest .. latest + Len(txs)
  PROVE  n \in Nat
BY DEF TypeOK

-----------------------------------------------------------------------------
\* Type correctness, one lemma for each module's steps.

\* The initial states are well-formed.
LEMMA TypeInit == GiftConstants /\ Init => TypeOK
<1>. SUFFICES ASSUME GiftConstants, Init  PROVE TypeOK  OBVIOUS
<1>1. LiveRow \in Rows
  BY EmptyRow DEF LiveRow, Rows, CardStatus, OpenStatus
<1>2. card \in [Cards -> Rows]  BY <1>1, EmptyRow DEF Init
<1>3. req \in [Reqs -> Invocations]  BY IdleShape DEF Init
<1>4. txs \in Seq(Transactions) /\ latest \in Nat  BY DEF Init
<1>5. mail \in [Cards -> Seq(Nat)]
  <2>. <<1>> \in Seq(Nat) /\ <<>> \in Seq(Nat)  OBVIOUS
  <2>. QED  BY DEF Init
<1>6. deposit \in [Cards -> {"none", "pending", "done"}]  BY DEF Init
<1>7. locked \subseteq Tokens /\ approved \subseteq Tokens /\ told \subseteq Cards
      /\ expired \subseteq Cards
  BY DEF Init, GiftConstants
<1>. QED  BY <1>2, <1>3, <1>4, <1>5, <1>6, <1>7 DEF Init, TypeOK

\* The handlers of v1-gift-create keep the types.
LEMMA TypeCreate ==
  ASSUME GiftConstants, TypeOK, CreateNext
  PROVE  TypeOK'
<1>1. ASSUME NEW c \in Cards, PrepareRepeat(c)  PROVE TypeOK'
  BY <1>1 DEF PrepareRepeat, untouched, TypeOK
<1>2. ASSUME NEW p \in Reqs, NEW c \in Cards, NEW op \in HandlerNames \ {"cancel"},
             NEW s \in Steps, NEW k \in Nat, Enter(p, op, c, s, k),
             UNCHANGED <<card, told, mail, untouched>>
      PROVE  TypeOK'
  <2>. DEFINE r == [Idle EXCEPT !.op = op, !.gift = c, !.pc = s, !.code = k]
  <2>1. r \in Invocations
    BY IdleShape DEF Invocations, Requests
  <2>2. req' \in [Reqs -> Invocations]  BY <1>2, <2>1 DEF Enter, TypeOK
  <2>. QED  BY <1>2, <2>2 DEF TypeOK, untouched
<1>3. ASSUME NEW p \in Reqs, NEW c \in Cards, PrepareRead(p, c)  PROVE TypeOK'
  BY <1>2, <1>3 DEF PrepareRead, HandlerNames, Steps
<1>4. ASSUME NEW p \in Reqs, NEW c \in Cards, ResumeRead(p, c)  PROVE TypeOK'
  BY <1>2, <1>4 DEF ResumeRead, HandlerNames, Steps
<1>5. ASSUME NEW p \in Reqs, NEW c \in Cards, NEW k \in 1 .. MaxCodes,
             ConfirmRead(p, c, k)
      PROVE  TypeOK'
  BY <1>2, <1>5 DEF ConfirmRead, HandlerNames, Steps
<1>6. ASSUME NEW p \in Reqs, PrepareSupersede(p)  PROVE TypeOK'
  <2>1. req' \in [Reqs -> Invocations]
    BY <1>6, GotoShape DEF PrepareSupersede, At, Steps
  <2>2. card' \in [Cards -> Rows]
    BY <1>6, RowShapes DEF PrepareSupersede, TypeOK, CardStatus, Terminal
  <2>. QED  BY <1>6, <2>1, <2>2 DEF PrepareSupersede, TypeOK, untouched
<1>7. ASSUME NEW p \in Reqs, PrepareInsert(p)  PROVE TypeOK'
  <2>. DEFINE row == [NoRow EXCEPT !.status = "pending_escrow", !.code = FirstCode]
  <2>1. req' \in [Reqs -> Invocations]  BY <1>7, ReturnShape DEF PrepareInsert
  <2>2. req[p].gift \in Cards  BY <1>7 DEF PrepareInsert, At, TypeOK, Invocations
  <2>3. row \in Rows  BY EmptyRow DEF Rows, CardStatus, OpenStatus, FirstCode
  <2>4. card' \in [Cards -> Rows]  BY <1>7, <2>2, <2>3 DEF PrepareInsert, TypeOK
  <2>5. told' \subseteq Cards  BY <1>7, <2>2 DEF PrepareInsert, TypeOK
  <2>. QED  BY <1>7, <2>1, <2>4, <2>5 DEF PrepareInsert, TypeOK, untouched
<1>8. ASSUME NEW p \in Reqs, ConfirmProof(p)  PROVE TypeOK'
  <2>1. req' \in [Reqs -> Invocations]
    BY <1>8, GotoShape, ReturnShape DEF ConfirmProof, At, Steps
  <2>. QED  BY <1>8, <2>1 DEF ConfirmProof, TypeOK, untouched
<1>9. ASSUME NEW p \in Reqs, ConfirmActivate(p)  PROVE TypeOK'
  <2>1. req' \in [Reqs -> Invocations]
    BY <1>9, GotoShape, ReturnShape DEF ConfirmActivate, At, Steps
  <2>2. card' \in [Cards -> Rows]
    <3>. DEFINE c == req[p].gift
    <3>1. c \in Cards  BY <1>9 DEF ConfirmActivate, At, TypeOK, Invocations
    <3>2. [card[c] EXCEPT !.status = "active"] \in Rows
      BY <3>1, RowShapes DEF TypeOK, CardStatus, OpenStatus
    <3>. QED  BY <1>9, <3>1, <3>2, UpdateShape DEF ConfirmActivate
  <2>. QED  BY <1>9, <2>1, <2>2 DEF ConfirmActivate, TypeOK, untouched
<1>10. ASSUME NEW p \in Reqs, ConfirmMailCheck(p)  PROVE TypeOK'
  <2>1. req' \in [Reqs -> Invocations]
    BY <1>10, GotoShape, ReturnShape DEF ConfirmMailCheck, At, Steps
  <2>. QED  BY <1>10, <2>1 DEF ConfirmMailCheck, TypeOK, untouched
<1>11. ASSUME NEW p \in Reqs, sendGiftInvitation(p)  PROVE TypeOK'
  <2>1. req' \in [Reqs -> Invocations]
    BY <1>11, ReturnShape DEF sendGiftInvitation
  <2>2. req[p].code \in Nat  BY DEF TypeOK, Invocations, Requests
  <2>3. mail' \in [Cards -> Seq(Nat)]
    <3>. DEFINE c == req[p].gift
                codes == Append(mail[c], req[p].code)
    <3>1. c \in Cards  BY <1>11 DEF sendGiftInvitation, At, TypeOK, Invocations
    <3>2. mail \in [Cards -> Seq(Nat)]  BY DEF TypeOK
    <3>3. codes \in Seq(Nat)  BY <2>2, <3>1, <3>2
    <3>4. mail' = [mail EXCEPT ![c] = codes] \/ mail' = mail
      BY <1>11 DEF sendGiftInvitation
    <3>. HIDE DEF codes
    <3>. QED  BY <3>2, <3>3, <3>4
  <2>. QED  BY <1>11, <2>1, <2>3 DEF sendGiftInvitation, TypeOK, untouched
<1>12. ASSUME NEW p \in Reqs, ResumeCustody(p)  PROVE TypeOK'
  <2>1. req' \in [Reqs -> Invocations]
    BY <1>12, GotoShape, ReturnShape DEF ResumeCustody, At, Steps
  <2>. QED  BY <1>12, <2>1 DEF ResumeCustody, TypeOK, untouched
<1>13. ASSUME NEW p \in Reqs, ResumeReissue(p)  PROVE TypeOK'
  <2>. DEFINE c == req[p].gift
              row == [card[c] EXCEPT !.code = @ + 1]
  <2>1. req' \in [Reqs -> Invocations]  BY <1>13, ReturnShape DEF ResumeReissue
  <2>2. c \in Cards  BY <1>13 DEF ResumeReissue, At, TypeOK, Invocations
  <2>3. row \in Rows
    <3>1. card[c] \in Rows /\ card[c].code + 1 \in Nat  BY <2>2 DEF TypeOK, Rows
    <3>. QED  BY <3>1 DEF Rows
  <2>4. card' \in [Cards -> Rows]  BY <1>13, <2>2, <2>3, UpdateShape DEF ResumeReissue
  <2>5. told' \subseteq Cards  BY <1>13, <2>2 DEF ResumeReissue, TypeOK
  <2>. QED  BY <1>13, <2>1, <2>4, <2>5 DEF ResumeReissue, TypeOK, untouched
<1>. QED  BY <1>1, <1>3, <1>4, <1>5, <1>6, <1>7, <1>8, <1>9, <1>10, <1>11, <1>12,
             <1>13 DEF CreateNext

\* What the RPC accepts keeps the list of transactions well-formed.
LEMMA AcceptShape ==
  ASSUME TypeOK, NEW g \in Cards \cup {Other}, NEW to \in Wallets \cup {None},
         NEW n \in Nat, Accept(g, to, n)
  PROVE  txs' \in Seq(Transactions)
<1>. DEFINE gone(i) == IF txs[i].nonce = n /\ txs[i].state = "pending"
                       THEN [txs[i] EXCEPT !.state = "gone"] ELSE txs[i]
            kept == [i \in DOMAIN txs |-> gone(i)]
            new == [gift |-> g, to |-> to, nonce |-> n, state |-> "pending"]
<1>1. new \in Transactions  BY DEF Transactions
<1>2. \A i \in DOMAIN txs : gone(i) \in Transactions
  <2>1. \A i \in DOMAIN txs : txs[i] \in Transactions  BY DEF TypeOK
  <2>. QED  BY <2>1 DEF Transactions
<1>3. kept \in Seq(Transactions)
  <2>1. DOMAIN txs = 1 .. Len(txs) /\ Len(txs) \in Nat  BY DEF TypeOK
  <2>2. kept \in [1 .. Len(txs) -> Transactions]  BY <1>2, <2>1
  <2>. QED  BY <2>1, <2>2
<1>4. txs' = Append(kept, new)  BY DEF Accept
<1>. HIDE DEF kept, new
<1>. QED  BY <1>1, <1>3, <1>4

\* Mining or dropping a transaction only changes its state.
LEMMA StateShape ==
  ASSUME TypeOK, NEW i \in DOMAIN txs, NEW s \in {"success", "reverted", "gone"},
         txs' = [txs EXCEPT ![i].state = s]
  PROVE  txs' \in Seq(Transactions)
<1>. DEFINE x == [txs[i] EXCEPT !.state = s]
<1>1. txs \in Seq(Transactions) /\ txs[i] \in Transactions  BY DEF TypeOK
<1>2. x \in Transactions  BY <1>1 DEF Transactions
<1>3. txs' = [txs EXCEPT ![i] = x]  OBVIOUS
<1>. HIDE DEF x
<1>. QED  BY <1>1, <1>2, <1>3

\* The environment keeps the types.
LEMMA TypeEnvironment ==
  ASSUME GiftConstants, TypeOK, Environment
  PROVE  TypeOK'
<1>1. CASE MineNext
  <2>1. PICK i \in DOMAIN txs :
          LET x == txs[i]
              ok == x.gift = Other \/ Transferable(x.gift)
          IN  /\ txs' = [txs EXCEPT ![i].state = IF ok THEN "success" ELSE "reverted"]
              /\ latest' = latest + 1
              /\ IF x.gift # Other /\ ok
                 THEN /\ owner' = [owner EXCEPT ![TokenOf[x.gift]] = x.to]
                      /\ approved' = approved \ {TokenOf[x.gift]}
                 ELSE UNCHANGED <<owner, approved>>
    BY <1>1 DEF MineNext
  <2>2. txs' \in Seq(Transactions)  BY <2>1, StateShape
  <2>3. txs[i].to \in Wallets \cup {None}
    <3>1. txs[i] \in Transactions  BY DEF TypeOK
    <3>. QED  BY <3>1 DEF Transactions
  <2>4. owner' \in [Tokens -> Wallets \cup {None}] /\ approved' \subseteq Tokens
    BY <2>1, <2>3 DEF TypeOK
  <2>5. latest' \in Nat  BY <2>1 DEF TypeOK
  <2>. QED  BY <1>1, <2>2, <2>4, <2>5 DEF MineNext, TypeOK
<1>2. CASE DropTx
  <2>1. txs' \in Seq(Transactions)  BY <1>2, StateShape DEF DropTx
  <2>. QED  BY <1>2, <2>1 DEF DropTx, TypeOK
<1>3. CASE OtherWriterSends
  <2>1. PICK n \in latest .. latest + Len(txs) : Accept(Other, Escrow, n)
    BY <1>3 DEF OtherWriterSends
  <2>2. txs' \in Seq(Transactions)  BY <2>1, AcceptShape, CountIsNat DEF Wallets
  <2>. QED  BY <1>3, <2>2 DEF OtherWriterSends, TypeOK
<1>4. CASE LeaseExpires
  BY <1>4 DEF LeaseExpires, TypeOK
<1>5. ASSUME NEW p \in Reqs, Crash(p)  PROVE TypeOK'
  <2>1. req' \in [Reqs -> Invocations]
    BY <1>5, ReturnShape DEF Crash, ReturnKeepingLease
  <2>. QED  BY <1>5, <2>1 DEF Crash, ReturnKeepingLease, TypeOK
<1>6. ASSUME NEW t \in Tokens, ToggleLock(t) \/ RevokeApproval(t)  PROVE TypeOK'
  BY <1>6 DEF ToggleLock, RevokeApproval, TypeOK
<1>7. ASSUME NEW t \in Tokens, NEW u \in Users, HolderMoves(t, u)  PROVE TypeOK'
  BY <1>7 DEF HolderMoves, TypeOK, Wallets
<1>8. ASSUME NEW c \in Cards, Expire(c) \/ WalletSendsDeposit(c)  PROVE TypeOK'
  BY <1>8 DEF Expire, WalletSendsDeposit, TypeOK
<1>9. ASSUME NEW c \in Cards, DepositMined(c)  PROVE TypeOK'
  BY <1>9 DEF DepositMined, TypeOK, Wallets
<1>. QED  BY <1>1, <1>2, <1>3, <1>4, <1>5, <1>6, <1>7, <1>8, <1>9 DEF Environment

\* The transfer handlers touch the ledger only through what they broadcast.
LEMMA RestShape ==
  ASSUME TypeOK, UNCHANGED ledgerOnly, card' \in [Cards -> Rows],
         req' \in [Reqs -> Invocations], lease' \in Reqs \cup {None, Orphan},
         clock' \in Nat, abandoned' \subseteq Nat
  PROVE  TypeOK'
BY DEF TypeOK, ledgerOnly

\* An invocation that runs works on an existing row.
LEMMA Running ==
  ASSUME TypeOK, NEW p \in Reqs
  PROVE  /\ req[p] \in Requests
         /\ req[p].pc # "idle" =>
              req[p].gift \in Cards /\ card[req[p].gift] \in Rows
BY DEF TypeOK, Invocations

\* The decision table answers with one of its six verdicts.
LEMMA VerdictShape == \A t : reconcileGiftTransfer(t) \in Verdict
BY DEF reconcileGiftTransfer, Verdict

\* Reading: the row, the chain, the receipt and the nonces.
LEMMA TypeRead ==
  ASSUME GiftConstants, TypeOK, NEW p \in Reqs,
         \/ ClaimBegins(p) \/ CancelBegins(p) \/ ReadChain(p) \/ Reconcile(p)
  PROVE  TypeOK'
<1>1. ASSUME NEW c \in Cards, NEW w \in Users \cup {None}, ClaimRead(p, c, w)
      PROVE  TypeOK'
  <2>. DEFINE r == [Idle EXCEPT !.op = "claim", !.gift = c, !.pc = "chain",
                                !.seen = card[c], !.wallet = w]
  <2>1. card[c] \in Rows  BY DEF TypeOK
  <2>2. r \in Invocations
    <3>1. "chain" \in Steps /\ "claim" \in HandlerNames  BY DEF Steps, HandlerNames
    <3>2. Idle \in Requests  BY IdleShape DEF Invocations
    <3>3. r \in Requests  BY <2>1, <3>1, <3>2 DEF Requests
    <3>4. r.op = "claim" /\ r.gift = c  BY <3>2 DEF Requests
    <3>. QED  BY <3>3, <3>4 DEF Invocations
  <2>3. req' \in [Reqs -> Invocations]  BY <1>1, <2>2 DEF ClaimRead, TypeOK
  <2>. QED  BY <1>1, <2>3, RestShape DEF ClaimRead, TypeOK
<1>2. ASSUME NEW c \in Cards, CancelRead(p, c)  PROVE TypeOK'
  <2>. DEFINE s == IF card[c].status = "claim_pending" THEN "reopen"
                   ELSE IF Escrowed(c) THEN "chain" ELSE "retire"
              r == [Idle EXCEPT !.op = "cancel", !.gift = c, !.seen = card[c],
                                !.pc = s]
  <2>1. card[c] \in Rows /\ card[c].status \in OpenStatus
    BY <1>2 DEF CancelRead, Open, TypeOK
  <2>2. /\ s \in Steps /\ s # "take"
        /\ s = "chain" => card[c].status \in {"pending_escrow", "active", "cancel_pending"}
    BY <2>1 DEF Steps, OpenStatus
  <2>3. req' = [req EXCEPT ![p] = r]  BY <1>2 DEF CancelRead
  <2>. HIDE DEF s
  <2>4. r \in Invocations
    <3>1. "cancel" \in HandlerNames  BY DEF HandlerNames
    <3>2. Idle \in Requests  BY IdleShape DEF Invocations
    <3>3. r \in Requests  BY <2>1, <2>2, <3>1, <3>2 DEF Requests
    <3>4. r.gift = c /\ r.pc = s /\ r.seen = card[c]  BY <3>2 DEF Requests
    <3>. QED  BY <2>2, <3>3, <3>4 DEF Invocations
  <2>5. req' \in [Reqs -> Invocations]  BY <2>3, <2>4 DEF TypeOK
  <2>. QED  BY <1>2, <2>5, RestShape DEF CancelRead, TypeOK
<1>3. CASE ReadChain(p)
  <2>. DEFINE t == TokenOf[req[p].gift]
              s == IF req[p].seen.status = PendingStatus(req[p].op)
                   THEN "reconcile" ELSE "take"
              isLocked == t \in locked
              isApproved == t \in approved
              r == [req[p] EXCEPT !.holder = owner[t], !.locked = isLocked,
                                  !.approved = isApproved, !.pc = s]
  <2>1. req[p] \in Invocations /\ req[p].pc = "chain"
    BY <1>3 DEF ReadChain, TypeOK
  <2>2. t \in Tokens /\ owner[t] \in Wallets \cup {None}
    BY <2>1, Running DEF GiftConstants, TypeOK
  <2>3. /\ s \in {"reconcile", "take"} /\ s \in Steps
        /\ req[p].op = "cancel" /\ s = "take" => req[p].seen.status # "cancel_pending"
    BY DEF Steps, PendingStatus
  <2>4. req' = [req EXCEPT ![p] = r]  BY <1>3 DEF ReadChain
  <2>5. isLocked \in BOOLEAN /\ isApproved \in BOOLEAN  OBVIOUS
  <2>. HIDE DEF s, t, isLocked, isApproved
  <2>6. r \in Invocations
    <3>1. req[p] \in Requests /\ req[p].gift \in Cards  BY <2>1 DEF Invocations
    <3>2. r \in Requests  BY <2>2, <2>3, <2>5, <3>1 DEF Requests
    <3>3. r.gift = req[p].gift /\ r.pc = s /\ r.seen = req[p].seen /\ r.op = req[p].op
      BY <3>1 DEF Requests
    <3>. QED  BY <2>1, <2>3, <3>1, <3>2, <3>3 DEF Invocations
  <2>7. req' \in [Reqs -> Invocations]  BY <2>4, <2>6 DEF TypeOK
  <2>. QED  BY <1>3, <2>7, RestShape DEF ReadChain, TypeOK
<1>4. CASE Reconcile(p)
  <2>1. \/ Return(p)
        \/ \E v \in Verdict : req' = [req EXCEPT ![p] = [@ EXCEPT !.pc = "apply",
                                                                 !.verdict = v]]
    BY <1>4, VerdictShape DEF Reconcile
  <2>2. ASSUME NEW v \in Verdict
        PROVE  [req[p] EXCEPT !.pc = "apply", !.verdict = v] \in Invocations
    <3>. DEFINE r == [req[p] EXCEPT !.pc = "apply", !.verdict = v]
    <3>1. req[p] \in Requests /\ req[p].gift \in Cards
      BY <1>4, Running DEF Reconcile
    <3>2. "apply" \in Steps  BY DEF Steps
    <3>3. r \in Requests  BY <3>1, <3>2 DEF Requests
    <3>4. r.gift = req[p].gift /\ r.pc = "apply"  BY <3>1 DEF Requests
    <3>. QED  BY <3>1, <3>3, <3>4 DEF Invocations
  <2>3. req' \in [Reqs -> Invocations]
    <3>1. CASE Return(p)  BY <3>1, ReturnShape
    <3>2. ASSUME NEW v \in Verdict,
                 req' = [req EXCEPT ![p] = [@ EXCEPT !.pc = "apply", !.verdict = v]]
          PROVE  req' \in [Reqs -> Invocations]
      <4>. DEFINE r == [req[p] EXCEPT !.pc = "apply", !.verdict = v]
      <4>1. req' = [req EXCEPT ![p] = r]  BY <3>2
      <4>2. r \in Invocations  BY <2>2
      <4>. HIDE DEF r
      <4>. QED  BY <4>1, <4>2 DEF TypeOK
    <3>. QED  BY <2>1, <3>1, <3>2
  <2>. QED  BY <1>4, <2>3, RestShape DEF Reconcile, TypeOK
<1>. QED  BY <1>1, <1>2, <1>3, <1>4 DEF ClaimBegins, CancelBegins

\* Settling what an earlier invocation left behind.
LEMMA TypeSettle ==
  ASSUME GiftConstants, TypeOK, NEW p \in Reqs,
         \/ ApplyComplete(p) \/ ApplyFailed(p) \/ ApplyRetry(p)
         \/ ResetClaim(p) \/ ResetReturn(p) \/ CancelReopen(p)
  PROVE  TypeOK'
<1>. DEFINE c == req[p].gift
            seen == req[p].seen
            open == IF seen.from = None THEN "active" ELSE seen.from
<1>1. /\ req[p] \in Requests /\ c \in Cards /\ card[c] \in Rows
      /\ req[p].pc \in {"apply", "reopen"}
  BY Running DEF ApplyComplete, ApplyFailed, ApplyRetry, ResetClaim, ResetReturn,
                 CancelReopen, At
<1>2. seen \in Rows /\ open \in {"pending_escrow", "active"}
  BY <1>1 DEF Requests, Rows
<1>3. open \in CardStatus  BY <1>2 DEF CardStatus, OpenStatus
<1>. HIDE DEF open
<1>4. /\ Cleared(card[c]) \in Rows
      /\ ReopenedClaim(card[c]) \in Rows
      /\ ReopenedReturn(card[c], open) \in Rows
      /\ ReopenedReturn(seen, open) \in Rows
      /\ ReopenedReturn(seen, open).status = open
  <2>1. ReopenedReturn(seen, open).status = open
    BY <1>2 DEF ReopenedReturn, Cleared, Rows
  <2>. QED  BY <1>1, <1>2, <1>3, <2>1, RowShapes
<1>5. [req[p] EXCEPT !.pc = "take"] \in Invocations  \/ req[p].op # "claim"
  <2>. DEFINE r == [req[p] EXCEPT !.pc = "take"]
  <2>1. "take" \in Steps  BY DEF Steps
  <2>2. r \in Requests /\ r.gift = c /\ r.op = req[p].op
    BY <1>1, <2>1 DEF Requests
  <2>. QED  BY <1>1, <2>2 DEF Invocations
<1>6. CASE ApplyComplete(p)
  <2>. DEFINE op == req[p].op
              from == IF op = "cancel" THEN None ELSE card[c].from
              row == [Cleared(card[c]) EXCEPT !.status = FinalStatus(op), !.from = from]
  <2>1. FinalStatus(op) \in CardStatus  BY DEF FinalStatus, CardStatus, Terminal
  <2>2. from \in {"pending_escrow", "active", None}  BY <1>1 DEF Rows
  <2>3. card' = card \/ card' = [card EXCEPT ![c] = row]
    BY <1>1, <1>6 DEF ApplyComplete, Update, Cleared, Rows
  <2>. HIDE DEF from
  <2>4. row \in Rows  BY <1>4, <2>1, <2>2 DEF Rows
  <2>5. card' \in [Cards -> Rows]  BY <1>1, <2>3, <2>4 DEF TypeOK
  <2>. QED  BY <1>6, <2>5, ReturnShape, RestShape DEF ApplyComplete, TypeOK
<1>7. CASE ApplyFailed(p)
  <2>1. /\ [ReopenedClaim(card[c]) EXCEPT !.claimHash = NoHash] \in Rows
        /\ [ReopenedReturn(card[c], open) EXCEPT !.returnHash = NoHash] \in Rows
    BY <1>4 DEF Rows, NoHash
  <2>2. card' \in [Cards -> Rows]
    BY <1>1, <1>7, <2>1, UpdateShape DEF ApplyFailed, open
  <2>. QED  BY <1>7, <2>2, ReturnShape, RestShape DEF ApplyFailed, TypeOK
<1>8. CASE ResetClaim(p)
  <2>1. card' \in [Cards -> Rows]
    BY <1>1, <1>4, <1>8, UpdateShape DEF ResetClaim
  <2>2. card[c].started \in Nat  BY <1>1 DEF Rows
  <2>3. abandoned' \subseteq Nat  BY <1>8, <2>2 DEF ResetClaim, TypeOK
  <2>4. req' \in [Reqs -> Invocations]
    <3>1. CASE Return(p)  BY <3>1, ReturnShape
    <3>2. CASE Goto(p, "take")
      <4>1. req' = [req EXCEPT ![p] = [req[p] EXCEPT !.pc = "take"]]
        BY <3>2 DEF Goto
      <4>2. [req[p] EXCEPT !.pc = "take"] \in Invocations
        BY <1>5, <1>8 DEF ResetClaim, At
      <4>. QED  BY <4>1, <4>2 DEF TypeOK
    <3>. QED  BY <1>8, <3>1, <3>2 DEF ResetClaim
  <2>. QED  BY <1>8, <2>1, <2>3, <2>4, RestShape DEF ResetClaim, TypeOK
<1>9. CASE ResetReturn(p)
  <2>. DEFINE row == ReopenedReturn(seen, open)
              r == [req[p] EXCEPT !.pc = "take", !.seen = row]
  <2>1. card' \in [Cards -> Rows]
    BY <1>1, <1>4, <1>9, UpdateShape DEF ResetReturn, open
  <2>2. card[c].started \in Nat  BY <1>1 DEF Rows
  <2>3. abandoned' \subseteq Nat  BY <1>9, <2>2 DEF ResetReturn, TypeOK
  <2>4. Return(p) \/ req' = [req EXCEPT ![p] = r]
    BY <1>9 DEF ResetReturn, open
  <2>5. row \in Rows /\ row.status \in {"pending_escrow", "active"}
    BY <1>2, <1>4
  <2>. HIDE DEF row
  <2>6. r \in Invocations
    <3>1. "take" \in Steps  BY DEF Steps
    <3>2. r \in Requests /\ r.gift = c /\ r.seen = row /\ r.pc = "take"
      BY <1>1, <2>5, <3>1 DEF Requests
    <3>. QED  BY <1>1, <2>5, <3>2 DEF Invocations
  <2>7. req' \in [Reqs -> Invocations]  BY <2>4, <2>6, ReturnShape DEF TypeOK
  <2>. QED  BY <1>9, <2>1, <2>3, <2>7, RestShape DEF ResetReturn, TypeOK
<1>10. CASE CancelReopen(p)
  <2>. DEFINE row == [Cleared(seen) EXCEPT !.status = "active"]
              s == IF Escrowed(c) THEN "chain" ELSE "retire"
              r == [req[p] EXCEPT !.seen = row, !.pc = s]
  <2>1. card' \in [Cards -> Rows]
    BY <1>1, <1>4, <1>10, UpdateShape DEF CancelReopen
  <2>2. card[c].started \in Nat  BY <1>1 DEF Rows
  <2>3. abandoned' \subseteq Nat  BY <1>10, <2>2 DEF CancelReopen, TypeOK
  <2>4. Return(p) \/ req' = [req EXCEPT ![p] = r]  BY <1>10 DEF CancelReopen
  <2>5. row \in Rows /\ row.status = "active"
    <3>1. Cleared(seen) \in Rows  BY <1>2, RowShapes
    <3>2. "active" \in CardStatus  BY DEF CardStatus, OpenStatus
    <3>. QED  BY <3>1, <3>2 DEF Rows
  <2>6. s \in Steps /\ s # "take"  BY DEF Steps
  <2>. HIDE DEF row, s
  <2>7. r \in Invocations
    <3>1. r \in Requests /\ r.gift = c /\ r.seen = row /\ r.pc = s
      BY <1>1, <2>5, <2>6 DEF Requests
    <3>. QED  BY <1>1, <2>5, <2>6, <3>1 DEF Invocations
  <2>8. req' \in [Reqs -> Invocations]  BY <2>4, <2>7, ReturnShape DEF TypeOK
  <2>. QED  BY <1>10, <2>1, <2>3, <2>8, RestShape DEF CancelReopen, TypeOK
<1>11. CASE ApplyRetry(p)
  <2>. DEFINE op == req[p].op
              w == Destination(op, c, seen)
              n == IF req[p].verdict = "retry_same_nonce" THEN seen.nonce ELSE NoNonce
              r == [Idle EXCEPT !.op = op, !.gift = c, !.pc = "lease",
                                !.start = clock', !.wallet = w, !.nonce = n]
  <2>1. CASE Return(p) /\ UNCHANGED <<card, clock>>
    BY <1>11, <2>1, ReturnShape, RestShape DEF ApplyRetry, TypeOK
  <2>2. CASE /\ clock' = clock + 1
             /\ card' = [card EXCEPT ![c].started = clock']
             /\ req' = [req EXCEPT ![p] = r]
    <3>1. clock' \in Nat  BY <2>2 DEF TypeOK
    <3>2. [card[c] EXCEPT !.started = clock'] \in Rows  BY <1>1, <3>1 DEF Rows
    <3>3. card' \in [Cards -> Rows]  BY <1>1, <2>2, <3>2 DEF TypeOK
    <3>4. w \in Users \cup {None}
      BY <1>1, <1>2 DEF Destination, Rows, GiftConstants
    <3>5. n \in Nat \cup {NoNonce}  BY <1>2 DEF Rows
    <3>6. op \in HandlerNames \cup {None}  BY <1>1 DEF Requests
    <3>. HIDE DEF op, w, n
    <3>7. r \in Invocations
      <4>1. "lease" \in Steps  BY DEF Steps
      <4>2. Idle \in Requests  BY IdleShape DEF Invocations
      <4>3. r \in Requests /\ r.gift = c /\ r.pc = "lease"
        BY <1>1, <3>1, <3>4, <3>5, <3>6, <4>1, <4>2 DEF Requests
      <4>. QED  BY <1>1, <4>3 DEF Invocations
    <3>8. req' \in [Reqs -> Invocations]  BY <2>2, <3>7 DEF TypeOK
    <3>. QED  BY <1>11, <3>1, <3>3, <3>8, RestShape DEF ApplyRetry, TypeOK
  <2>. QED  BY <1>11, <2>1, <2>2 DEF ApplyRetry, FreshStart, NextStart
<1>. QED  BY <1>6, <1>7, <1>8, <1>9, <1>10, <1>11

\* Taking a card into the invocation's own pending status, or retiring it.
LEMMA TypeTake ==
  ASSUME GiftConstants, TypeOK, NEW p \in Reqs,
         TakeClaim(p) \/ TakeReturn(p) \/ CancelLegacy(p) \/ CancelRetire(p)
  PROVE  TypeOK'
<1>. DEFINE c == req[p].gift
            seen == req[p].seen
<1>1. req[p] \in Requests /\ c \in Cards /\ card[c] \in Rows
  BY Running DEF TakeClaim, TakeReturn, CancelLegacy, CancelRetire, At
<1>2. CASE TakeClaim(p)
  <2>. DEFINE w == req[p].wallet
              row == [card[c] EXCEPT !.status = "claim_pending", !.wallet = w,
                                     !.started = clock']
              r == [Idle EXCEPT !.op = "claim", !.gift = c, !.pc = "lease",
                                !.start = clock', !.initial = TRUE, !.wallet = w]
  <2>1. CASE Return(p) /\ UNCHANGED <<card, clock>>
    BY <1>2, <2>1, ReturnShape, RestShape DEF TakeClaim, TypeOK
  <2>2. CASE /\ clock' = clock + 1
             /\ card' = [card EXCEPT ![c] = row]
             /\ req' = [req EXCEPT ![p] = r]
    <3>1. clock' \in Nat  BY <2>2 DEF TypeOK
    <3>2. w \in Users \cup {None}  BY <1>1 DEF Requests
    <3>3. "claim_pending" \in CardStatus  BY DEF CardStatus, OpenStatus
    <3>4. row \in Rows  BY <1>1, <3>1, <3>2, <3>3 DEF Rows
    <3>5. card' \in [Cards -> Rows]  BY <1>1, <2>2, <3>4 DEF TypeOK
    <3>6. r \in Invocations
      <4>1. "lease" \in Steps /\ "claim" \in HandlerNames  BY DEF Steps, HandlerNames
      <4>2. Idle \in Requests  BY IdleShape DEF Invocations
      <4>3. r \in Requests /\ r.gift = c /\ r.pc = "lease"
        BY <1>1, <3>1, <3>2, <4>1, <4>2 DEF Requests
      <4>. QED  BY <1>1, <4>3 DEF Invocations
    <3>7. req' \in [Reqs -> Invocations]  BY <2>2, <3>6 DEF TypeOK
    <3>. QED  BY <1>2, <3>1, <3>5, <3>7, RestShape DEF TakeClaim, TypeOK
  <2>. QED  BY <1>2, <2>1, <2>2 DEF TakeClaim, FreshStart, NextStart
<1>3. CASE TakeReturn(p)
  <2>. DEFINE row == [card[c] EXCEPT !.status = "cancel_pending",
                                     !.from = seen.status, !.started = clock']
              was == [NoRow EXCEPT !.status = seen.status]
              r == [Idle EXCEPT !.op = "cancel", !.gift = c, !.pc = "lease",
                                !.start = clock', !.initial = TRUE,
                                !.wallet = SenderOf[c], !.seen = was]
              closed == [card[c] EXCEPT !.status = "cancelled", !.from = None,
                                        !.started = NoStart]
  <2>1. CASE Return(p) /\ UNCHANGED <<card, clock>>
    BY <1>3, <2>1, ReturnShape, RestShape DEF TakeReturn, TypeOK
  <2>2. CASE /\ clock' = clock + 1
             /\ card' = [card EXCEPT ![c] = row]
             /\ req' = [req EXCEPT ![p] = r]
    <3>1. clock' \in Nat  BY <2>2 DEF TypeOK
    <3>2. seen.status \in {"pending_escrow", "active"}
      BY <1>3 DEF TakeReturn, At, TypeOK, Invocations
    <3>3. "cancel_pending" \in CardStatus /\ seen.status \in CardStatus
      BY <3>2 DEF CardStatus, OpenStatus
    <3>4. row \in Rows  BY <1>1, <3>1, <3>2, <3>3 DEF Rows
    <3>5. was \in Rows  BY <3>3, EmptyRow DEF Rows
    <3>6. card' \in [Cards -> Rows]  BY <1>1, <2>2, <3>4 DEF TypeOK
    <3>. HIDE DEF was
    <3>7. r \in Invocations
      <4>1. "lease" \in Steps /\ "cancel" \in HandlerNames  BY DEF Steps, HandlerNames
      <4>2. Idle \in Requests /\ SenderOf[c] \in Users
        BY <1>1, IdleShape DEF Invocations, GiftConstants
      <4>3. r \in Requests /\ r.gift = c /\ r.pc = "lease"
        BY <1>1, <3>1, <3>5, <4>1, <4>2 DEF Requests
      <4>. QED  BY <1>1, <4>3 DEF Invocations
    <3>8. req' \in [Reqs -> Invocations]  BY <2>2, <3>7 DEF TypeOK
    <3>. QED  BY <1>3, <3>1, <3>6, <3>8, RestShape DEF TakeReturn, TypeOK
  <2>3. CASE /\ card' = [card EXCEPT ![c] = closed]
             /\ Goto(p, "retire") /\ UNCHANGED clock
    <3>1. "cancelled" \in CardStatus  BY DEF CardStatus, Terminal
    <3>2. closed \in Rows  BY <1>1, <3>1 DEF Rows, NoStart
    <3>3. card' \in [Cards -> Rows]  BY <1>1, <2>3, <3>2 DEF TypeOK
    <3>4. req' \in [Reqs -> Invocations]
      BY <1>3, <2>3, GotoShape DEF TakeReturn, At, Steps
    <3>. QED  BY <1>3, <2>3, <3>3, <3>4, RestShape DEF TakeReturn, TypeOK
  <2>4. Idle.seen = NoRow  BY DEF Idle
  <2>5. [Idle EXCEPT !.op = "cancel", !.gift = c, !.pc = "lease", !.start = clock',
                     !.initial = TRUE, !.wallet = SenderOf[c],
                     !.seen.status = seen.status] = r
    BY DEF Idle
  <2>. QED  BY <1>3, <2>1, <2>2, <2>3, <2>5 DEF TakeReturn, FreshStart, NextStart
<1>4. CASE CancelLegacy(p)
  <2>1. "cancelled" \in CardStatus  BY DEF CardStatus, Terminal
  <2>2. card' \in [Cards -> Rows]
    BY <1>1, <1>4, <2>1, RowShapes, UpdateShape DEF CancelLegacy
  <2>. QED  BY <1>4, <2>2, ReturnShape, RestShape DEF CancelLegacy, TypeOK
<1>5. CASE CancelRetire(p)
  <2>. DEFINE row == [Cleared(card[c]) EXCEPT !.status = "cancelled",
                                              !.returnHash = NoHash, !.from = None]
  <2>1. "cancelled" \in CardStatus  BY DEF CardStatus, Terminal
  <2>2. Cleared(card[c]) \in Rows  BY <1>1, RowShapes
  <2>3. row \in Rows  BY <2>1, <2>2 DEF Rows, NoHash
  <2>4. card' = [card EXCEPT ![c] = row]  BY <1>5 DEF CancelRetire
  <2>5. card' \in [Cards -> Rows]  BY <1>1, <2>3, <2>4 DEF TypeOK
  <2>. QED  BY <1>5, <2>5, ReturnShape, RestShape DEF CancelRetire, TypeOK
<1>. QED  BY <1>2, <1>3, <1>4, <1>5

\* From the lease to the final write.
LEMMA TypeSubmit ==
  ASSUME GiftConstants, TypeOK, NEW p \in Reqs, submitTransfer(p)
  PROVE  TypeOK'
<1>. DEFINE c == req[p].gift
            op == req[p].op
<1>1. req[p].pc # "idle"
  BY DEF submitTransfer, TakeLease, SimulateFails, Simulate, RecordNonce, Broadcast,
         BroadcastFails, RecordHash, Confirmed, Unconfirmed, UndoAttempt,
         ReleaseLease, Finalize
<1>2. req[p] \in Requests /\ c \in Cards /\ card[c] \in Rows  BY <1>1, Running
<1>3. /\ req[p].nonce \in Nat \cup {NoNonce} /\ req[p].hash \in Nat
      /\ req[p].wallet \in Users \cup {None} /\ req[p].seen \in Rows
  BY <1>2 DEF Requests
<1>4. ASSUME ReturnKeepingLease(p), UNCHANGED <<card, clock, abandoned, ledgerOnly>>
      PROVE  TypeOK'
  <2>1. lease' \in Reqs \cup {None, Orphan}  BY <1>4 DEF ReturnKeepingLease, TypeOK
  <2>2. req' \in [Reqs -> Invocations]  BY <1>4, ReturnShape DEF ReturnKeepingLease
  <2>. QED  BY <1>4, <2>1, <2>2, RestShape DEF TypeOK
<1>5. CASE TakeLease(p)
  <2>1. req' \in [Reqs -> Invocations]
    BY <1>1, <1>5, GotoShape, ReturnShape DEF TakeLease, Steps
  <2>2. lease' \in Reqs \cup {None, Orphan}  BY <1>5 DEF TakeLease, TypeOK
  <2>. QED  BY <1>5, <2>1, <2>2, RestShape DEF TakeLease, TypeOK
<1>6. CASE SimulateFails(p)
  <2>1. req' \in [Reqs -> Invocations]
    BY <1>1, <1>6, GotoShape DEF SimulateFails, Steps
  <2>. QED  BY <1>6, <2>1, RestShape DEF SimulateFails, TypeOK
<1>7. CASE Simulate(p)
  <2>1. PICK n \in latest .. latest + Len(txs) :
          LET nonce == IF req[p].nonce = NoNonce THEN n ELSE req[p].nonce
          IN  req' = [req EXCEPT ![p] = [@ EXCEPT !.pc = "record", !.nonce = nonce]]
    BY <1>7 DEF Simulate
  <2>. DEFINE m == IF req[p].nonce = NoNonce THEN n ELSE req[p].nonce
              r == [req[p] EXCEPT !.pc = "record", !.nonce = m]
  <2>2. m \in Nat \cup {NoNonce}  BY <1>3, CountIsNat
  <2>3. req' = [req EXCEPT ![p] = r]  BY <2>1
  <2>. HIDE DEF m
  <2>4. r \in Invocations
    <3>1. "record" \in Steps  BY DEF Steps
    <3>2. r \in Requests /\ r.gift = c /\ r.pc = "record"
      BY <1>2, <2>2, <3>1 DEF Requests
    <3>. QED  BY <1>2, <3>2 DEF Invocations
  <2>5. req' \in [Reqs -> Invocations]  BY <2>3, <2>4 DEF TypeOK
  <2>. QED  BY <1>7, <2>5, RestShape DEF Simulate, TypeOK
<1>8. CASE RecordNonce(p)
  <2>. DEFINE row == [card[c] EXCEPT !.nonce = req[p].nonce, !.started = clock']
  <2>1. req' \in [Reqs -> Invocations]
    BY <1>1, <1>8, GotoShape DEF RecordNonce, Steps
  <2>2. clock' \in Nat  BY <1>8 DEF RecordNonce, NextStart, TypeOK
  <2>3. row \in Rows  BY <1>2, <1>3, <2>2 DEF Rows
  <2>4. card' \in [Cards -> Rows]  BY <1>2, <1>8, <2>3 DEF RecordNonce, TypeOK
  <2>. QED  BY <1>8, <2>1, <2>2, <2>4, RestShape DEF RecordNonce, TypeOK
<1>9. CASE Broadcast(p)
  <2>. DEFINE h == Len(txs) + 1
              r == [req[p] EXCEPT !.pc = "hash", !.hash = h]
  <2>1. req[p].nonce \in Nat
    BY <1>3, <1>9 DEF Broadcast, TypeOK, NoNonce
  <2>2. req[p].wallet \in Wallets \cup {None}  BY <1>3 DEF Wallets
  <2>3. txs' \in Seq(Transactions)
    BY <1>2, <1>9, <2>1, <2>2, AcceptShape DEF Broadcast
  <2>4. h \in Nat  BY DEF TypeOK
  <2>. HIDE DEF h
  <2>5. r \in Invocations
    <3>1. "hash" \in Steps  BY DEF Steps
    <3>2. r \in Requests /\ r.gift = c /\ r.pc = "hash"
      BY <1>2, <2>4, <3>1 DEF Requests
    <3>. QED  BY <1>2, <3>2 DEF Invocations
  <2>6. \/ req' = [req EXCEPT ![p] = r] /\ UNCHANGED lease
        \/ ReturnKeepingLease(p)
    BY <1>9 DEF Broadcast, h
  <2>7. req' \in [Reqs -> Invocations]
    BY <2>5, <2>6, ReturnShape DEF ReturnKeepingLease, TypeOK
  <2>8. lease' \in Reqs \cup {None, Orphan}
    BY <2>6 DEF ReturnKeepingLease, TypeOK
  <2>. QED  BY <1>9, <2>3, <2>7, <2>8 DEF Broadcast, TypeOK
<1>10. CASE BroadcastFails(p)  BY <1>4, <1>10 DEF BroadcastFails
<1>11. CASE RecordHash(p)
  <2>1. req' \in [Reqs -> Invocations]
    BY <1>1, <1>11, GotoShape DEF RecordHash, Steps
  <2>2. /\ [card[c] EXCEPT !.claimHash = req[p].hash] \in Rows
        /\ [card[c] EXCEPT !.returnHash = req[p].hash] \in Rows
    BY <1>2, <1>3 DEF Rows
  <2>3. card' \in [Cards -> Rows]
    BY <1>2, <1>11, <2>2, UpdateShape DEF RecordHash
  <2>. QED  BY <1>11, <2>1, <2>3, RestShape DEF RecordHash, TypeOK
<1>12. CASE Confirmed(p)
  <2>1. req' \in [Reqs -> Invocations]
    BY <1>1, <1>12, GotoShape DEF Confirmed, Steps
  <2>. QED  BY <1>12, <2>1, RestShape DEF Confirmed, TypeOK
<1>13. CASE Unconfirmed(p)  BY <1>4, <1>13 DEF Unconfirmed
<1>14. CASE UndoAttempt(p)
  <2>1. req' \in [Reqs -> Invocations]
    BY <1>1, <1>14, GotoShape DEF UndoAttempt, Steps
  <2>2. req[p].seen.status \in CardStatus  BY <1>3 DEF Rows
  <2>3. /\ ReopenedClaim(card[c]) \in Rows
        /\ ReopenedReturn(card[c], req[p].seen.status) \in Rows
    BY <1>2, <2>2, RowShapes
  <2>4. card' \in [Cards -> Rows]
    BY <1>2, <1>14, <2>3, UpdateShape DEF UndoAttempt
  <2>. QED  BY <1>14, <2>1, <2>4, RestShape DEF UndoAttempt, TypeOK
<1>15. CASE ReleaseLease(p)
  <2>1. req' \in [Reqs -> Invocations]
    BY <1>1, <1>15, GotoShape, ReturnShape DEF ReleaseLease, Steps
  <2>2. lease' \in Reqs \cup {None, Orphan}  BY <1>15 DEF ReleaseLease, TypeOK
  <2>. QED  BY <1>15, <2>1, <2>2, RestShape DEF ReleaseLease, TypeOK
<1>16. CASE Finalize(p)
  <2>1. "claimed" \in CardStatus /\ "cancelled" \in CardStatus
    BY DEF CardStatus, Terminal
  <2>2. Cleared(card[c]) \in Rows  BY <1>2, RowShapes
  <2>3. /\ [Cleared(card[c]) EXCEPT !.status = "claimed"] \in Rows
        /\ [Cleared(card[c]) EXCEPT !.status = "cancelled",
              !.returnHash = req[p].hash, !.from = None] \in Rows
    BY <1>3, <2>1, <2>2 DEF Rows
  <2>4. card' \in [Cards -> Rows]
    BY <1>2, <1>16, <2>3, UpdateShape DEF Finalize
  <2>. QED  BY <1>16, <2>4, ReturnShape, RestShape DEF Finalize, TypeOK
<1>. QED  BY <1>5, <1>6, <1>7, <1>8, <1>9, <1>10, <1>11, <1>12, <1>13, <1>14,
             <1>15, <1>16 DEF submitTransfer

\* Every step keeps the types.
LEMMA TypeStep == GiftConstants /\ TypeOK /\ [Next]_vars => TypeOK'
<1>. SUFFICES ASSUME GiftConstants, TypeOK, [Next]_vars  PROVE TypeOK'  OBVIOUS
<1>1. CASE UNCHANGED vars  BY <1>1 DEF vars, TypeOK
<1>2. CASE CreateNext  BY <1>2, TypeCreate
<1>3. CASE Environment  BY <1>3, TypeEnvironment
<1>4. ASSUME NEW p \in Reqs, ClaimBegins(p) \/ CancelBegins(p) \/ TransferStep(p)
      PROVE  TypeOK'
  BY <1>4, TypeRead, TypeSettle, TypeTake, TypeSubmit DEF TransferStep
<1>. QED  BY <1>1, <1>2, <1>3, <1>4 DEF Next, TransferNext

\* The table, the invocations, the lease and the chain always have the shapes the
\* code gives them.
THEOREM TypeCorrect == Spec => []TypeOK
BY GiftConstants, TypeInit, TypeStep, PTL DEF Spec

-----------------------------------------------------------------------------
\* An abandoned attempt never broadcasts.  The inductive invariant AttemptInv says
\* why: a value of operation_started_at belongs to one attempt, recording the
\* nonce replaces it, and only a value still in a row can be abandoned.

\* Nobody enters an attempt, and nobody in one gets closer to its broadcast than
\* the record.
NoNewAttempt ==
  \A p \in Reqs : req'[p].pc \in Attempt =>
    /\ req[p].pc \in Attempt /\ req'[p].start = req[p].start
    /\ req'[p].pc = "broadcast" => req[p].pc = "broadcast"

\* Rows keep their attempt or lose it.
NoNewStart ==
  /\ clock' = clock
  /\ \A c \in Cards : card'[c].started \in {card[c].started, NoStart}

\* What is abandoned is what a row loses.
AbandonsItsOwn ==
  \A s \in abandoned' : s \in abandoned \/
    \E c \in Cards : s = card[c].started /\ card'[c].started = NoStart

\* A step that begins no attempt and brings none to its broadcast keeps AttemptInv.
LEMMA QuietStep ==
  ASSUME AttemptInv, TypeOK', NoNewAttempt, NoNewStart, AbandonsItsOwn
  PROVE  AttemptInv'
<1>1. \A c \in Cards : card[c].started \in Nat /\ card'[c].started \in Nat
  BY DEF AttemptInv, TypeOK, Rows
<1>2. abandoned' \subseteq 0 .. clock'
  <2>. SUFFICES ASSUME NEW s \in abandoned'  PROVE s \in 0 .. clock'  OBVIOUS
  <2>1. CASE s \in abandoned  BY <2>1 DEF AttemptInv, StartsNameAttempts, NoNewStart
  <2>2. ASSUME NEW c \in Cards, s = card[c].started  PROVE s \in 0 .. clock'
    <3>1. card[c].started <= clock /\ clock' = clock /\ clock \in Nat
      BY DEF AttemptInv, StartsNameAttempts, NoNewStart, TypeOK
    <3>. QED  BY <1>1, <2>2, <3>1
  <2>. QED  BY <2>1, <2>2 DEF AbandonsItsOwn
<1>3. ASSUME NEW c \in Cards
      PROVE  /\ card'[c].started <= clock'
             /\ card'[c].started # NoStart =>
                  /\ card'[c].started \notin abandoned'
                  /\ \A d \in Cards : card'[d].started = card'[c].started => d = c
  <2>1. CASE card'[c].started = NoStart
    BY <2>1 DEF NoStart, AttemptInv, TypeOK, NoNewStart
  <2>2. CASE card'[c].started = card[c].started /\ card'[c].started # NoStart
    <3>1. card'[c].started <= clock'
      BY <2>2 DEF AttemptInv, StartsNameAttempts, NoNewStart
    <3>2. card'[c].started \notin abandoned'
      BY <2>2 DEF AttemptInv, StartsNameAttempts, AbandonsItsOwn
    <3>3. \A d \in Cards : card'[d].started = card'[c].started => d = c
      BY <2>2 DEF AttemptInv, StartsNameAttempts, NoNewStart
    <3>. QED  BY <3>1, <3>2, <3>3
  <2>. QED  BY <2>1, <2>2 DEF NoNewStart
<1>4. ASSUME NEW p \in Reqs
      PROVE  /\ req'[p].pc \in Attempt => req'[p].start \in 1 .. clock'
             /\ req'[p].pc = "broadcast" =>
                  /\ req'[p].start \notin abandoned'
                  /\ \A c \in Cards : card'[c].started # req'[p].start
  <2>1. req'[p].pc \in Attempt => req'[p].start \in 1 .. clock'
    BY DEF AttemptInv, AttemptsAreStarted, NoNewAttempt, NoNewStart
  <2>2. ASSUME req'[p].pc = "broadcast"
        PROVE  /\ req'[p].start \notin abandoned'
               /\ \A c \in Cards : card'[c].started # req'[p].start
    <3>1. req[p].pc = "broadcast" /\ req'[p].start = req[p].start
          /\ req[p].start # NoStart
      BY <2>1, <2>2 DEF Attempt, NoNewAttempt, NoStart
    <3>. QED  BY <3>1 DEF AttemptInv, AttemptsAreStarted, NoNewStart, AbandonsItsOwn
  <2>. QED  BY <2>1, <2>2
<1>. QED  BY <1>2, <1>3, <1>4 DEF AttemptInv, StartsNameAttempts, AttemptsAreStarted

\* A fresh value for the row of c: an attempt begins, or one whose value was in
\* the row goes on to its broadcast.
FreshFor(c) ==
  /\ clock' = clock + 1 /\ abandoned' = abandoned
  /\ card'[c].started = clock'
  /\ \A d \in Cards \ {c} : card'[d].started = card[d].started
  /\ \A p \in Reqs : req'[p].pc \in Attempt =>
       /\ \/ req'[p].start = clock'
          \/ req[p].pc \in Attempt /\ req'[p].start = req[p].start
       /\ req'[p].pc = "broadcast" =>
            /\ req[p].pc \in Attempt /\ req'[p].start = req[p].start
            /\ req[p].pc = "broadcast" \/ card[c].started = req[p].start

\* A step that gives a row a fresh value keeps AttemptInv.
LEMMA FreshStep ==
  ASSUME AttemptInv, TypeOK', NEW c \in Cards, FreshFor(c)
  PROVE  AttemptInv'
<1>1. /\ clock \in Nat /\ clock' = clock + 1 /\ abandoned' = abandoned
      /\ abandoned \subseteq 0 .. clock
      /\ \A d \in Cards : card[d].started \in Nat /\ card[d].started <= clock
  BY DEF AttemptInv, TypeOK, Rows, StartsNameAttempts, FreshFor
<1>2. StartsNameAttempts'
  <2>1. ASSUME NEW d \in Cards
        PROVE  /\ card'[d].started <= clock'
               /\ card'[d].started # NoStart =>
                    /\ card'[d].started \notin abandoned'
                    /\ \A e \in Cards : card'[e].started = card'[d].started => e = d
    <3>1. CASE d = c  BY <1>1, <3>1 DEF FreshFor
    <3>2. CASE d # c
      <4>1. card'[d].started = card[d].started  BY <3>2 DEF FreshFor
      <4>2. ASSUME card[d].started # NoStart, NEW e \in Cards,
                   card'[e].started = card'[d].started
            PROVE  e = d
        <5>1. e # c  BY <1>1, <4>1, <4>2 DEF FreshFor
        <5>. QED  BY <4>1, <4>2, <5>1 DEF AttemptInv, StartsNameAttempts, FreshFor
      <4>3. card[d].started # NoStart => card[d].started \notin abandoned
        BY DEF AttemptInv, StartsNameAttempts
      <4>. QED  BY <1>1, <4>1, <4>2, <4>3
    <3>. QED  BY <3>1, <3>2
  <2>. QED  BY <1>1, <2>1 DEF StartsNameAttempts
<1>3. ASSUME NEW p \in Reqs
      PROVE  /\ req'[p].pc \in Attempt => req'[p].start \in 1 .. clock'
             /\ req'[p].pc = "broadcast" =>
                  /\ req'[p].start \notin abandoned'
                  /\ \A d \in Cards : card'[d].started # req'[p].start
  <2>1. req[p].pc \in Attempt => req[p].start \in 1 .. clock
    BY DEF AttemptInv, AttemptsAreStarted
  <2>2. req'[p].pc \in Attempt => req'[p].start \in 1 .. clock'
    BY <1>1, <2>1 DEF FreshFor
  <2>3. ASSUME req'[p].pc = "broadcast"
        PROVE  /\ req'[p].start \notin abandoned
               /\ \A d \in Cards : card'[d].started # req'[p].start
    <3>1. /\ req[p].pc \in Attempt /\ req'[p].start = req[p].start
          /\ req[p].pc = "broadcast" \/ card[c].started = req[p].start
      BY <2>3 DEF Attempt, FreshFor
    <3>2. req[p].start \in 1 .. clock  BY <2>1, <3>1
    <3>3. card'[c].started # req[p].start  BY <1>1, <3>2 DEF FreshFor
    <3>4. CASE req[p].pc = "broadcast"
      BY <3>1, <3>3, <3>4 DEF AttemptInv, AttemptsAreStarted, FreshFor
    <3>5. CASE card[c].started = req[p].start
      <4>1. card[c].started # NoStart  BY <3>2, <3>5 DEF NoStart
      <4>2. req[p].start \notin abandoned
            /\ \A d \in Cards \ {c} : card[d].started # req[p].start
        BY <3>5, <4>1 DEF AttemptInv, StartsNameAttempts
      <4>. QED  BY <3>1, <3>3, <4>2 DEF FreshFor
    <3>. QED  BY <3>1, <3>4, <3>5
  <2>. QED  BY <1>1, <2>2, <2>3
<1>. QED  BY <1>2, <1>3 DEF AttemptInv, AttemptsAreStarted

\* One invocation moves to a step outside of an attempt.
LEMMA OutsideAttempt ==
  ASSUME NEW p \in Reqs, req'[p].pc \notin Attempt,
         \A q \in Reqs \ {p} : req'[q] = req[q]
  PROVE  NoNewAttempt
BY DEF NoNewAttempt

\* The same for the moves the handlers make.
LEMMA GotoOutside ==
  ASSUME TypeOK, NEW p \in Reqs, NEW s \in Steps \ Attempt, Goto(p, s)
  PROVE  NoNewAttempt
<1>1. req[p] \in Requests  BY Running
<1>2. req'[p].pc = s /\ \A q \in Reqs \ {p} : req'[q] = req[q]
  BY <1>1 DEF Goto, TypeOK, Requests
<1>. QED  BY <1>2, OutsideAttempt

\* An answered invocation is outside of an attempt.
LEMMA ReturnOutside ==
  ASSUME TypeOK, NEW p \in Reqs, Return(p)
  PROVE  NoNewAttempt
BY OutsideAttempt DEF Return, Idle, Attempt, TypeOK

\* A conditional update that keeps or clears the value starts nothing.
LEMMA UpdateQuiet ==
  ASSUME TypeOK, NEW c \in Cards, NEW guard, NEW row, Update(c, guard, row),
         guard => row.started \in {card[c].started, NoStart}
  PROVE  \A d \in Cards : card'[d].started \in {card[d].started, NoStart}
BY DEF TypeOK, Update

\* What the written rows carry as operation_started_at.
LEMMA RowStarts ==
  ASSUME NEW row \in Rows
  PROVE  /\ Cleared(row).started = NoStart
         /\ ReopenedClaim(row).started = NoStart
         /\ \A s : ReopenedReturn(row, s).started = NoStart
         /\ \A s : [row EXCEPT !.status = s].started = row.started
BY DEF Rows, Cleared, ReopenedClaim, ReopenedReturn

\* The environment and v1-gift-create know nothing of attempts.
LEMMA AttemptEnvironment ==
  ASSUME GiftConstants, AttemptInv, TypeOK', Environment
  PROVE  AttemptInv'
<1>. TypeOK  BY DEF AttemptInv
<1>1. NoNewStart /\ AbandonsItsOwn
  BY DEF Environment, MineNext, DropTx, OtherWriterSends, LeaseExpires, Crash,
         ToggleLock, RevokeApproval, HolderMoves, Expire, WalletSendsDeposit,
         DepositMined, NoNewStart, AbandonsItsOwn
<1>2. NoNewAttempt
  <2>1. ASSUME NEW p \in Reqs, Crash(p)  PROVE NoNewAttempt
    BY <2>1, ReturnOutside DEF Crash, ReturnKeepingLease
  <2>2. CASE UNCHANGED req  BY <2>2 DEF NoNewAttempt
  <2>. QED
    BY <2>1, <2>2 DEF Environment, MineNext, DropTx, OtherWriterSends, LeaseExpires,
         ToggleLock, RevokeApproval, HolderMoves, Expire, WalletSendsDeposit,
         DepositMined
<1>. QED  BY <1>1, <1>2, QuietStep

\* The handlers of v1-gift-create keep AttemptInv.
LEMMA AttemptCreate ==
  ASSUME GiftConstants, AttemptInv, TypeOK', CreateNext
  PROVE  AttemptInv'
<1>. TypeOK  BY DEF AttemptInv
<1>. USE DEF untouched
<1>1. clock' = clock /\ AbandonsItsOwn
  BY DEF CreateNext, PrepareRepeat, PrepareRead, ResumeRead, ConfirmRead,
         PrepareSupersede, PrepareInsert, ConfirmProof, ConfirmActivate,
         ConfirmMailCheck, sendGiftInvitation, ResumeCustody, ResumeReissue,
         AbandonsItsOwn
<1>2. ASSUME NoNewAttempt, UNCHANGED card  PROVE AttemptInv'
  BY <1>1, <1>2, QuietStep DEF NoNewStart
<1>3. ASSUME NoNewAttempt, NEW c \in Cards, NEW guard, NEW row, Update(c, guard, row),
             guard => row.started \in {card[c].started, NoStart}
      PROVE  AttemptInv'
  BY <1>1, <1>3, UpdateQuiet, QuietStep DEF NoNewStart
<1>4. ASSUME NEW p \in Reqs, NEW op, NEW c \in Cards, NEW s \in Steps \ Attempt,
             NEW k, Enter(p, op, c, s, k), UNCHANGED card
      PROVE  AttemptInv'
  <2>1. req'[p].pc = s /\ \A q \in Reqs \ {p} : req'[q] = req[q]
    BY <1>4 DEF Enter, Idle, TypeOK
  <2>. QED  BY <1>2, <1>4, <2>1, OutsideAttempt
<1>5. ASSUME NEW c \in Cards, PrepareRepeat(c)  PROVE AttemptInv'
  BY <1>2, <1>5 DEF PrepareRepeat, NoNewAttempt
<1>6. ASSUME NEW p \in Reqs, NEW c \in Cards, PrepareRead(p, c)  PROVE AttemptInv'
  BY <1>4, <1>6 DEF PrepareRead, Steps, Attempt
<1>7. ASSUME NEW p \in Reqs, NEW c \in Cards, ResumeRead(p, c)  PROVE AttemptInv'
  BY <1>4, <1>7 DEF ResumeRead, Steps, Attempt
<1>8. ASSUME NEW p \in Reqs, NEW c \in Cards, NEW k \in 1 .. MaxCodes,
             ConfirmRead(p, c, k)
      PROVE  AttemptInv'
  BY <1>4, <1>8 DEF ConfirmRead, Steps, Attempt
<1>9. ASSUME NEW p \in Reqs, PrepareSupersede(p)  PROVE AttemptInv'
  <2>1. NoNewAttempt
    BY <1>9, GotoOutside DEF PrepareSupersede, Steps, Attempt
  <2>2. \A d \in Cards : card'[d].started = card[d].started
    <3>1. \A d \in Cards : card[d] \in Rows  BY DEF TypeOK
    <3>. QED  BY <1>9, <3>1, RowStarts DEF PrepareSupersede
  <2>. QED  BY <1>1, <2>1, <2>2, QuietStep DEF NoNewStart
<1>10. ASSUME NEW p \in Reqs, PrepareInsert(p)  PROVE AttemptInv'
  <2>. DEFINE c == req[p].gift
              row == [NoRow EXCEPT !.status = "pending_escrow", !.code = FirstCode]
  <2>1. c \in Cards  BY <1>10, Running DEF PrepareInsert, At
  <2>2. row.started = NoStart  BY DEF NoRow
  <2>3. Update(c, ~(DuplicateRequest(c) \/ TokenTaken(c)), row)
    BY <1>10 DEF PrepareInsert, Update
  <2>4. NoNewAttempt  BY <1>10, ReturnOutside DEF PrepareInsert
  <2>. QED  BY <1>3, <2>1, <2>2, <2>3, <2>4
<1>11. ASSUME NEW p \in Reqs,
              \/ ConfirmProof(p) \/ ConfirmMailCheck(p) \/ sendGiftInvitation(p)
              \/ ResumeCustody(p)
       PROVE  AttemptInv'
  <2>1. NoNewAttempt
    BY <1>11, GotoOutside, ReturnOutside
       DEF ConfirmProof, ConfirmMailCheck, sendGiftInvitation, ResumeCustody, Steps,
           Attempt
  <2>. QED
    BY <1>2, <1>11, <2>1
       DEF ConfirmProof, ConfirmMailCheck, sendGiftInvitation, ResumeCustody
<1>12. ASSUME NEW p \in Reqs, ConfirmActivate(p)  PROVE AttemptInv'
  <2>. DEFINE c == req[p].gift
  <2>1. c \in Cards /\ card[c] \in Rows
    BY <1>12, Running DEF ConfirmActivate, At
  <2>2. [card[c] EXCEPT !.status = "active"].started = card[c].started
    BY <2>1, RowStarts
  <2>3. NoNewAttempt
    BY <1>12, GotoOutside, ReturnOutside DEF ConfirmActivate, Steps, Attempt
  <2>. QED  BY <1>3, <1>12, <2>1, <2>2, <2>3 DEF ConfirmActivate
<1>13. ASSUME NEW p \in Reqs, ResumeReissue(p)  PROVE AttemptInv'
  <2>. DEFINE c == req[p].gift
              row == [card[c] EXCEPT !.code = @ + 1]
  <2>1. c \in Cards /\ card[c] \in Rows
    BY <1>13, Running DEF ResumeReissue, At
  <2>2. row.started = card[c].started  BY <2>1 DEF Rows
  <2>3. NoNewAttempt  BY <1>13, ReturnOutside DEF ResumeReissue
  <2>. QED  BY <1>3, <1>13, <2>1, <2>2, <2>3 DEF ResumeReissue
<1>. QED  BY <1>5, <1>6, <1>7, <1>8, <1>9, <1>10, <1>11, <1>12, <1>13 DEF CreateNext

\* An attempt is abandoned by clearing it from the row that carries it.
LEMMA AbandonStep ==
  ASSUME AttemptInv, TypeOK', NoNewAttempt, clock' = clock, NEW c \in Cards,
         NEW still, NEW row, Update(c, still, row), row.started = NoStart,
         abandoned' = IF still THEN abandoned \cup {card[c].started} ELSE abandoned
  PROVE  AttemptInv'
<1>. TypeOK  BY DEF AttemptInv
<1>1. NoNewStart  BY UpdateQuiet DEF NoNewStart
<1>2. still => card'[c].started = NoStart  BY DEF Update, TypeOK
<1>3. AbandonsItsOwn  BY <1>2 DEF AbandonsItsOwn
<1>. QED  BY <1>1, <1>3, QuietStep

\* The steps of claim and cancel outside of an attempt.
LEMMA AttemptSettle ==
  ASSUME GiftConstants, AttemptInv, TypeOK', NEW p \in Reqs,
         \/ ClaimBegins(p) \/ CancelBegins(p) \/ ReadChain(p) \/ Reconcile(p)
         \/ ApplyComplete(p) \/ ApplyFailed(p)
         \/ ResetClaim(p) \/ ResetReturn(p) \/ CancelReopen(p)
         \/ CancelLegacy(p) \/ CancelRetire(p)
  PROVE  AttemptInv'
<1>. TypeOK  BY DEF AttemptInv
<1>. DEFINE c == req[p].gift
<1>1. ASSUME NoNewAttempt, clock' = clock, abandoned' = abandoned,
             \A d \in Cards : card'[d].started \in {card[d].started, NoStart}
      PROVE  AttemptInv'
  BY <1>1, QuietStep DEF NoNewStart, AbandonsItsOwn
<1>2. ASSUME NEW r, req' = [req EXCEPT ![p] = r], r.pc \notin Attempt
      PROVE  NoNewAttempt
  BY <1>2, OutsideAttempt DEF TypeOK
<1>3. ASSUME NEW d \in Cards, NEW w \in Users \cup {None}, ClaimRead(p, d, w)
      PROVE  AttemptInv'
  <2>1. NoNewAttempt  BY <1>2, <1>3 DEF ClaimRead, Idle, Attempt
  <2>. QED  BY <1>1, <1>3, <2>1 DEF ClaimRead
<1>4. ASSUME NEW d \in Cards, CancelRead(p, d)  PROVE AttemptInv'
  <2>1. NoNewAttempt  BY <1>2, <1>4 DEF CancelRead, Idle, Attempt
  <2>. QED  BY <1>1, <1>4, <2>1 DEF CancelRead
<1>5. CASE ReadChain(p)
  <2>1. NoNewAttempt
    <3>1. req[p] \in Requests  BY Running
    <3>2. req'[p].pc \in {"reconcile", "take"}
          /\ \A q \in Reqs \ {p} : req'[q] = req[q]
      BY <1>5, <3>1 DEF ReadChain, TypeOK, Requests
    <3>. QED  BY <3>2, OutsideAttempt DEF Attempt
  <2>. QED  BY <1>1, <1>5, <2>1 DEF ReadChain
<1>6. CASE Reconcile(p)
  <2>1. \/ Return(p)
        \/ \E v \in Verdict : req' = [req EXCEPT ![p] = [@ EXCEPT !.pc = "apply",
                                                                 !.verdict = v]]
    BY <1>6, VerdictShape DEF Reconcile
  <2>2. NoNewAttempt
    <3>1. req[p] \in Requests  BY Running
    <3>2. ASSUME NEW v \in Verdict,
                 req' = [req EXCEPT ![p] = [@ EXCEPT !.pc = "apply", !.verdict = v]]
          PROVE  NoNewAttempt
      <4>1. req'[p].pc = "apply" /\ \A q \in Reqs \ {p} : req'[q] = req[q]
        BY <3>1, <3>2 DEF TypeOK, Requests
      <4>. QED  BY <4>1, OutsideAttempt DEF Attempt
    <3>. QED  BY <2>1, <3>2, ReturnOutside
  <2>. QED  BY <1>1, <1>6, <2>2 DEF Reconcile
<1>7. CASE ApplyComplete(p)
  <2>1. c \in Cards /\ card[c] \in Rows  BY <1>7, Running DEF ApplyComplete
  <2>2. Cleared(card[c]) \in Rows /\ Cleared(card[c]).started = NoStart
    BY <2>1, RowShapes, RowStarts
  <2>3. \A d \in Cards : card'[d].started \in {card[d].started, NoStart}
    BY <1>7, <2>1, <2>2 DEF ApplyComplete, Update, TypeOK, Rows
  <2>. QED  BY <1>1, <1>7, <2>3, ReturnOutside DEF ApplyComplete
<1>8. CASE ApplyFailed(p)
  <2>. DEFINE open == IF req[p].seen.from = None THEN "active" ELSE req[p].seen.from
              claimed == [ReopenedClaim(card[c]) EXCEPT !.claimHash = NoHash]
              returned == [ReopenedReturn(card[c], open) EXCEPT !.returnHash = NoHash]
  <2>1. c \in Cards /\ card[c] \in Rows  BY <1>8, Running DEF ApplyFailed
  <2>2. claimed.started = NoStart /\ returned.started = NoStart
    BY <2>1 DEF ReopenedClaim, ReopenedReturn, Cleared, Rows
  <2>3. \A d \in Cards : card'[d].started \in {card[d].started, NoStart}
    <3>1. \E guard : Update(c, guard, claimed) \/ Update(c, guard, returned)
      BY <1>8 DEF ApplyFailed
    <3>. HIDE DEF claimed, returned
    <3>. QED  BY <2>1, <2>2, <3>1, UpdateQuiet
  <2>. QED  BY <1>1, <1>8, <2>3, ReturnOutside DEF ApplyFailed
<1>9. CASE ResetClaim(p)
  <2>1. c \in Cards /\ card[c] \in Rows  BY <1>9, Running DEF ResetClaim, At
  <2>2. NoNewAttempt
    BY <1>9, GotoOutside, ReturnOutside DEF ResetClaim, Steps, Attempt
  <2>. QED  BY <1>9, <2>1, <2>2, RowStarts, AbandonStep DEF ResetClaim
<1>10. CASE ResetReturn(p)
  <2>. DEFINE open == IF req[p].seen.from = None THEN "active" ELSE req[p].seen.from
              r == [req[p] EXCEPT !.pc = "take", !.seen = ReopenedReturn(req[p].seen, open)]
  <2>1. c \in Cards /\ card[c] \in Rows /\ req[p] \in Requests
    BY <1>10, Running DEF ResetReturn, At
  <2>2. Return(p) \/ req' = [req EXCEPT ![p] = r]  BY <1>10 DEF ResetReturn
  <2>3. r.pc = "take"  BY <2>1 DEF Requests
  <2>4. NoNewAttempt
    <3>. HIDE DEF r
    <3>. QED  BY <1>2, <2>2, <2>3, ReturnOutside DEF Attempt
  <2>. QED  BY <1>10, <2>1, <2>4, RowStarts, AbandonStep DEF ResetReturn
<1>11. CASE CancelReopen(p)
  <2>. DEFINE s == IF Escrowed(c) THEN "chain" ELSE "retire"
              row == [Cleared(req[p].seen) EXCEPT !.status = "active"]
              r == [req[p] EXCEPT !.seen = row, !.pc = s]
  <2>1. c \in Cards /\ card[c] \in Rows /\ req[p] \in Requests
    BY <1>11, Running DEF CancelReopen, At
  <2>2. Return(p) \/ req' = [req EXCEPT ![p] = r]  BY <1>11 DEF CancelReopen
  <2>3. r.pc \notin Attempt
    <3>1. s \notin Attempt  BY DEF Attempt
    <3>. HIDE DEF s, row
    <3>. QED  BY <2>1, <3>1 DEF Requests
  <2>4. NoNewAttempt
    <3>. HIDE DEF r
    <3>. QED  BY <1>2, <2>2, <2>3, ReturnOutside
  <2>. QED  BY <1>11, <2>1, <2>4, RowStarts, AbandonStep DEF CancelReopen
<1>12. CASE CancelLegacy(p)
  <2>1. c \in Cards /\ card[c] \in Rows  BY <1>12, Running DEF CancelLegacy, At
  <2>2. \A d \in Cards : card'[d].started \in {card[d].started, NoStart}
    <3>1. [card[c] EXCEPT !.status = "cancelled"].started = card[c].started
      BY <2>1, RowStarts
    <3>. QED  BY <1>12, <2>1, <3>1, UpdateQuiet DEF CancelLegacy
  <2>. QED  BY <1>1, <1>12, <2>2, ReturnOutside DEF CancelLegacy
<1>13. CASE CancelRetire(p)
  <2>1. c \in Cards /\ card[c] \in Rows  BY <1>13, Running DEF CancelRetire, At
  <2>2. Cleared(card[c]) \in Rows /\ Cleared(card[c]).started = NoStart
    BY <2>1, RowShapes, RowStarts
  <2>3. \A d \in Cards : card'[d].started \in {card[d].started, NoStart}
    BY <1>13, <2>1, <2>2 DEF CancelRetire, TypeOK, Rows
  <2>. QED  BY <1>1, <1>13, <2>3, ReturnOutside DEF CancelRetire
<1>. QED  BY <1>3, <1>4, <1>5, <1>6, <1>7, <1>8, <1>9, <1>10, <1>11, <1>12, <1>13
             DEF ClaimBegins, CancelBegins

\* Taking a card, and taking it again for a retry, begins an attempt.
LEMMA AttemptTake ==
  ASSUME GiftConstants, AttemptInv, TypeOK', NEW p \in Reqs,
         ApplyRetry(p) \/ TakeClaim(p) \/ TakeReturn(p)
  PROVE  AttemptInv'
<1>. TypeOK  BY DEF AttemptInv
<1>. DEFINE c == req[p].gift
<1>1. c \in Cards /\ card[c] \in Rows
  BY Running DEF ApplyRetry, TakeClaim, TakeReturn, At
<1>2. abandoned' = abandoned  BY DEF ApplyRetry, TakeClaim, TakeReturn
<1>3. ASSUME Return(p), UNCHANGED <<card, clock>>  PROVE AttemptInv'
  BY <1>2, <1>3, ReturnOutside, QuietStep DEF NoNewStart, AbandonsItsOwn
<1>4. ASSUME clock' = clock + 1, NEW row, row.started = clock',
             card' = [card EXCEPT ![c] = row],
             NEW r, req' = [req EXCEPT ![p] = r], r.pc = "lease", r.start = clock'
      PROVE  AttemptInv'
  <2>1. card'[c].started = clock' /\ \A d \in Cards \ {c} : card'[d] = card[d]
    BY <1>1, <1>4 DEF TypeOK
  <2>2. /\ req'[p].pc = "lease" /\ req'[p].start = clock'
        /\ \A q \in Reqs \ {p} : req'[q] = req[q]
    BY <1>4 DEF TypeOK
  <2>3. FreshFor(c)  BY <1>2, <1>4, <2>1, <2>2 DEF FreshFor, Attempt
  <2>. QED  BY <1>1, <2>3, FreshStep
<1>5. CASE ApplyRetry(p)
  <2>. DEFINE op == req[p].op
              n == IF req[p].verdict = "retry_same_nonce" THEN req[p].seen.nonce
                   ELSE NoNonce
              row == [card[c] EXCEPT !.started = clock']
              r == [Idle EXCEPT !.op = op, !.gift = c, !.pc = "lease",
                                !.start = clock',
                                !.wallet = Destination(op, c, req[p].seen), !.nonce = n]
  <2>1. \/ Return(p) /\ UNCHANGED <<card, clock>>
        \/ /\ clock' = clock + 1
           /\ card' = [card EXCEPT ![c] = row]
           /\ req' = [req EXCEPT ![p] = r]
    BY <1>5 DEF ApplyRetry, FreshStart, NextStart
  <2>2. row.started = clock' /\ r.pc = "lease" /\ r.start = clock'
    BY <1>1 DEF Rows, Idle
  <2>. HIDE DEF row, r
  <2>. QED  BY <1>3, <1>4, <2>1, <2>2
<1>6. CASE TakeClaim(p)
  <2>. DEFINE w == req[p].wallet
              row == [card[c] EXCEPT !.status = "claim_pending", !.wallet = w,
                                     !.started = clock']
              r == [Idle EXCEPT !.op = "claim", !.gift = c, !.pc = "lease",
                                !.start = clock', !.initial = TRUE, !.wallet = w]
  <2>1. \/ Return(p) /\ UNCHANGED <<card, clock>>
        \/ /\ clock' = clock + 1
           /\ card' = [card EXCEPT ![c] = row]
           /\ req' = [req EXCEPT ![p] = r]
    BY <1>6 DEF TakeClaim, FreshStart, NextStart
  <2>2. row.started = clock' /\ r.pc = "lease" /\ r.start = clock'
    BY <1>1 DEF Rows, Idle
  <2>. HIDE DEF row, r
  <2>. QED  BY <1>3, <1>4, <2>1, <2>2
<1>7. CASE TakeReturn(p)
  <2>. DEFINE status == req[p].seen.status
              row == [card[c] EXCEPT !.status = "cancel_pending", !.from = status,
                                     !.started = clock']
              r == [Idle EXCEPT !.op = "cancel", !.gift = c, !.pc = "lease",
                                !.start = clock', !.initial = TRUE,
                                !.wallet = SenderOf[c], !.seen.status = status]
              closed == [card[c] EXCEPT !.status = "cancelled", !.from = None,
                                        !.started = NoStart]
  <2>1. \/ Return(p) /\ UNCHANGED <<card, clock>>
        \/ /\ clock' = clock + 1
           /\ card' = [card EXCEPT ![c] = row]
           /\ req' = [req EXCEPT ![p] = r]
        \/ /\ card' = [card EXCEPT ![c] = closed]
           /\ Goto(p, "retire") /\ UNCHANGED clock
    BY <1>7 DEF TakeReturn, FreshStart, NextStart
  <2>2. /\ row.started = clock' /\ r.pc = "lease" /\ r.start = clock'
        /\ closed.started = NoStart
    BY <1>1 DEF Rows, Idle
  <2>. HIDE DEF row, r, closed
  <2>3. CASE /\ card' = [card EXCEPT ![c] = closed]
             /\ Goto(p, "retire") /\ UNCHANGED clock
    <3>1. NoNewAttempt  BY <2>3, GotoOutside DEF Steps, Attempt
    <3>2. NoNewStart  BY <1>1, <2>2, <2>3 DEF NoNewStart, TypeOK
    <3>. QED  BY <1>2, <3>1, <3>2, QuietStep DEF AbandonsItsOwn
  <2>. QED  BY <1>3, <1>4, <2>1, <2>2, <2>3
<1>. QED  BY <1>5, <1>6, <1>7

\* The steps of an attempt.  Only RecordNonce leads to the broadcast, and it moves
\* the row on to a value nobody else knows.
LEMMA AttemptSubmit ==
  ASSUME GiftConstants, AttemptInv, TypeOK', NEW p \in Reqs, submitTransfer(p)
  PROVE  AttemptInv'
<1>. TypeOK  BY DEF AttemptInv
<1>. DEFINE c == req[p].gift
<1>1. abandoned' = abandoned
  BY DEF submitTransfer, TakeLease, SimulateFails, Simulate, RecordNonce, Broadcast,
         BroadcastFails, RecordHash, Confirmed, Unconfirmed, UndoAttempt,
         ReleaseLease, Finalize
<1>2. req[p].pc # "idle"
  BY DEF submitTransfer, TakeLease, SimulateFails, Simulate, RecordNonce, Broadcast,
         BroadcastFails, RecordHash, Confirmed, Unconfirmed, UndoAttempt,
         ReleaseLease, Finalize
<1>3. req[p] \in Requests /\ c \in Cards /\ card[c] \in Rows  BY <1>2, Running
<1>4. ASSUME NoNewAttempt, clock' = clock,
             \A d \in Cards : card'[d].started \in {card[d].started, NoStart}
      PROVE  AttemptInv'
  BY <1>1, <1>4, QuietStep DEF NoNewStart, AbandonsItsOwn
<1>5. ASSUME NEW s \in Steps \ Attempt, Goto(p, s) \/ Return(p)  PROVE NoNewAttempt
  BY <1>5, GotoOutside, ReturnOutside
<1>6. CASE TakeLease(p)
  <2>1. CASE Goto(p, "simulate")
    <3>1. /\ req'[p].pc = "simulate" /\ req'[p].start = req[p].start
          /\ \A q \in Reqs \ {p} : req'[q] = req[q]
      BY <1>3, <2>1 DEF Goto, TypeOK, Requests
    <3>2. req[p].pc = "lease"  BY <1>6 DEF TakeLease
    <3>3. NoNewAttempt  BY <3>1, <3>2 DEF NoNewAttempt, Attempt
    <3>. QED  BY <1>4, <1>6, <3>3 DEF TakeLease
  <2>2. CASE Goto(p, "undo") \/ Return(p)
    BY <1>4, <1>5, <1>6, <2>2 DEF TakeLease, Steps, Attempt
  <2>. QED  BY <1>6, <2>1, <2>2 DEF TakeLease
<1>7. CASE Simulate(p)
  <2>1. PICK n : req' = [req EXCEPT ![p] = [@ EXCEPT !.pc = "record", !.nonce = n]]
    BY <1>7 DEF Simulate
  <2>2. /\ req'[p].pc = "record" /\ req'[p].start = req[p].start
        /\ \A q \in Reqs \ {p} : req'[q] = req[q]
    BY <1>3, <2>1 DEF TypeOK, Requests
  <2>3. req[p].pc = "simulate"  BY <1>7 DEF Simulate
  <2>4. NoNewAttempt  BY <2>2, <2>3 DEF NoNewAttempt, Attempt
  <2>. QED  BY <1>4, <1>7, <2>4 DEF Simulate
<1>8. CASE RecordNonce(p)
  <2>. DEFINE row == [card[c] EXCEPT !.nonce = req[p].nonce, !.started = clock']
  <2>1. CASE /\ card[c].started = req[p].start /\ clock' = clock + 1
             /\ card' = [card EXCEPT ![c] = row] /\ Goto(p, "broadcast")
    <3>1. row.started = clock'  BY <1>3 DEF Rows
    <3>. HIDE DEF row
    <3>2. card'[c].started = clock' /\ \A d \in Cards \ {c} : card'[d] = card[d]
      BY <1>3, <2>1, <3>1 DEF TypeOK
    <3>3. /\ req'[p].pc = "broadcast" /\ req'[p].start = req[p].start
          /\ \A q \in Reqs \ {p} : req'[q] = req[q]
      BY <1>3, <2>1 DEF Goto, TypeOK, Requests
    <3>4. req[p].pc \in Attempt  BY <1>8 DEF RecordNonce, Attempt
    <3>5. FreshFor(c)  BY <1>1, <2>1, <3>2, <3>3, <3>4 DEF FreshFor, Attempt
    <3>. QED  BY <1>3, <3>5, FreshStep
  <2>2. CASE /\ UNCHANGED <<card, clock>>
             /\ Goto(p, "undo") \/ Goto(p, "release")
    BY <1>4, <1>5, <2>2 DEF Steps, Attempt
  <2>. QED  BY <1>8, <2>1, <2>2 DEF RecordNonce, NextStart
<1>9. CASE Broadcast(p)
  <2>1. NoNewAttempt
    <3>1. CASE ReturnKeepingLease(p)
      BY <3>1, ReturnOutside DEF ReturnKeepingLease
    <3>2. CASE req' = [req EXCEPT ![p] = [@ EXCEPT !.pc = "hash",
                                                   !.hash = Len(txs) + 1]]
      <4>1. req'[p].pc = "hash" /\ \A q \in Reqs \ {p} : req'[q] = req[q]
        BY <1>3, <3>2 DEF TypeOK, Requests
      <4>. QED  BY <4>1, OutsideAttempt DEF Attempt
    <3>. QED  BY <1>9, <3>1, <3>2 DEF Broadcast
  <2>. QED  BY <1>4, <1>9, <2>1 DEF Broadcast
<1>10. CASE BroadcastFails(p) \/ Unconfirmed(p)
  <2>1. NoNewAttempt
    BY <1>10, ReturnOutside DEF BroadcastFails, Unconfirmed, ReturnKeepingLease
  <2>. QED  BY <1>4, <1>10, <2>1 DEF BroadcastFails, Unconfirmed
<1>11. CASE SimulateFails(p) \/ Confirmed(p) \/ ReleaseLease(p)
  <2>1. NoNewAttempt
    BY <1>5, <1>11 DEF SimulateFails, Confirmed, ReleaseLease, Steps, Attempt
  <2>. QED  BY <1>4, <1>11, <2>1 DEF SimulateFails, Confirmed, ReleaseLease
<1>12. CASE RecordHash(p)
  <2>. DEFINE claimed == [card[c] EXCEPT !.claimHash = req[p].hash]
              returned == [card[c] EXCEPT !.returnHash = req[p].hash]
  <2>1. claimed.started = card[c].started /\ returned.started = card[c].started
    BY <1>3 DEF Rows
  <2>2. \E guard : Update(c, guard, claimed) \/ Update(c, guard, returned)
    BY <1>12 DEF RecordHash
  <2>3. NoNewAttempt  BY <1>5, <1>12 DEF RecordHash, Steps, Attempt
  <2>. HIDE DEF claimed, returned
  <2>4. \A d \in Cards : card'[d].started \in {card[d].started, NoStart}
    BY <1>3, <2>1, <2>2, UpdateQuiet
  <2>. QED  BY <1>4, <1>12, <2>3, <2>4 DEF RecordHash
<1>13. CASE UndoAttempt(p)
  <2>. DEFINE claimed == ReopenedClaim(card[c])
              returned == ReopenedReturn(card[c], req[p].seen.status)
  <2>1. claimed.started = NoStart /\ returned.started = NoStart
    BY <1>3, RowStarts
  <2>2. \E guard : Update(c, guard, claimed) \/ Update(c, guard, returned)
    BY <1>13 DEF UndoAttempt
  <2>3. NoNewAttempt  BY <1>5, <1>13 DEF UndoAttempt, Steps, Attempt
  <2>. HIDE DEF claimed, returned
  <2>4. \A d \in Cards : card'[d].started \in {card[d].started, NoStart}
    BY <1>3, <2>1, <2>2, UpdateQuiet
  <2>. QED  BY <1>4, <1>13, <2>3, <2>4 DEF UndoAttempt
<1>14. CASE Finalize(p)
  <2>. DEFINE claimed == [Cleared(card[c]) EXCEPT !.status = "claimed"]
              returned == [Cleared(card[c]) EXCEPT !.status = "cancelled",
                             !.returnHash = req[p].hash, !.from = None]
  <2>1. claimed.started = NoStart /\ returned.started = NoStart
    BY <1>3 DEF Cleared, Rows
  <2>2. \E guard : Update(c, guard, claimed) \/ Update(c, guard, returned)
    BY <1>14 DEF Finalize
  <2>3. NoNewAttempt  BY <1>14, ReturnOutside DEF Finalize
  <2>. HIDE DEF claimed, returned
  <2>4. \A d \in Cards : card'[d].started \in {card[d].started, NoStart}
    BY <1>3, <2>1, <2>2, UpdateQuiet
  <2>. QED  BY <1>4, <1>14, <2>3, <2>4 DEF Finalize
<1>. QED  BY <1>6, <1>7, <1>8, <1>9, <1>10, <1>11, <1>12, <1>13, <1>14
             DEF submitTransfer

\* No attempt is running initially.
LEMMA AttemptInit == GiftConstants /\ Init => AttemptInv
<1>. SUFFICES ASSUME GiftConstants, Init  PROVE AttemptInv  OBVIOUS
<1>1. \A c \in Cards : card[c].started = NoStart
  BY DEF Init, LiveRow, NoRow
<1>2. \A p \in Reqs : req[p].pc = "idle"  BY DEF Init, Idle
<1>3. abandoned = {} /\ clock = 0  BY DEF Init
<1>. QED  BY <1>1, <1>2, <1>3, TypeInit
          DEF AttemptInv, StartsNameAttempts, AttemptsAreStarted, Attempt, NoStart

\* AttemptInv is inductive.
LEMMA AttemptNext == GiftConstants /\ AttemptInv /\ [Next]_vars => AttemptInv'
<1>. SUFFICES ASSUME GiftConstants, AttemptInv, [Next]_vars  PROVE AttemptInv'
  OBVIOUS
<1>1. TypeOK'  BY TypeStep DEF AttemptInv
<1>2. CASE UNCHANGED vars
  BY <1>1, <1>2 DEF vars, AttemptInv, StartsNameAttempts, AttemptsAreStarted
<1>3. CASE CreateNext  BY <1>1, <1>3, AttemptCreate
<1>4. CASE Environment  BY <1>1, <1>4, AttemptEnvironment
<1>5. ASSUME NEW p \in Reqs, ClaimBegins(p) \/ CancelBegins(p) \/ TransferStep(p)
      PROVE  AttemptInv'
  BY <1>1, <1>5, AttemptSettle, AttemptTake, AttemptSubmit DEF TransferStep
<1>. QED  BY <1>2, <1>3, <1>4, <1>5 DEF Next, TransferNext

\* An attempt that was reset as abandoned never reaches the broadcast, whatever
\* the interleaving, however late the attempt wakes up.
THEOREM AbandonedIsSafe == Spec => []AbandonedNeverBroadcasts
<1>1. AttemptInv => AbandonedNeverBroadcasts
  BY DEF AttemptInv, AttemptsAreStarted, AbandonedNeverBroadcasts
<1>. QED  BY GiftConstants, AttemptInit, AttemptNext, <1>1, PTL DEF Spec

-----------------------------------------------------------------------------
\* A finished card stays finished.

\* One step of FinishedStays.
Stays == \A c \in Cards : card[c].status \in Terminal => card'[c].status = card[c].status

\* Who retires a card after a step did so before it, or may do so now.
RetireFits(p) ==
  IF Escrowed(req[p].gift) THEN card[req[p].gift].status = "cancelled"
  ELSE req[p].seen.status \in OpenStatus
RetiresAsBefore ==
  \A p \in Reqs : req'[p].pc = "retire" => req'[p] = req[p] \/ RetireFits(p)'

\* A step that keeps finished cards finished keeps RetireInv, unless it lets
\* somebody retire a card who may not.
LEMMA RetireStep ==
  ASSUME RetireInv, TypeOK', Stays, RetiresAsBefore
  PROVE  RetireInv' /\ Stays
<1>. SUFFICES ASSUME NEW p \in Reqs, req'[p].pc = "retire"  PROVE RetireFits(p)'
  BY DEF RetireInv, RetiresClosed, RetireFits
<1>1. CASE RetireFits(p)'  BY <1>1
<1>2. CASE req'[p] = req[p]
  <2>1. RetireFits(p) /\ req[p].gift \in Cards
    BY <1>2, Running DEF RetireInv, RetiresClosed, RetireFits
  <2>2. card[req[p].gift].status = "cancelled" => card'[req[p].gift].status = "cancelled"
    BY <2>1 DEF Stays, Terminal
  <2>. QED  BY <1>2, <2>1, <2>2 DEF RetireFits, Escrowed
<1>. QED  BY <1>1, <1>2 DEF RetiresAsBefore

\* A conditional update that does not apply to finished cards keeps them.
LEMMA UpdateStays ==
  ASSUME TypeOK, NEW c \in Cards, NEW guard, NEW row, Update(c, guard, row),
         guard => card[c].status \notin Terminal \/ row.status = card[c].status
  PROVE  Stays
BY DEF TypeOK, Update, Stays

\* One invocation moves to a step that does not retire a card.
LEMMA MovesElsewhere ==
  ASSUME NEW p \in Reqs, req'[p].pc # "retire", \A q \in Reqs \ {p} : req'[q] = req[q]
  PROVE  RetiresAsBefore
BY DEF RetiresAsBefore

\* The same for the moves the handlers make.
LEMMA GotoElsewhere ==
  ASSUME TypeOK, NEW p \in Reqs, NEW s \in Steps \ {"retire"}, Goto(p, s)
  PROVE  RetiresAsBefore
<1>1. req[p] \in Requests  BY Running
<1>2. req'[p].pc = s /\ \A q \in Reqs \ {p} : req'[q] = req[q]
  BY <1>1 DEF Goto, TypeOK, Requests
<1>. QED  BY <1>2, MovesElsewhere

\* An answered invocation retires nothing.
LEMMA ReturnElsewhere ==
  ASSUME TypeOK, NEW p \in Reqs, Return(p)
  PROVE  RetiresAsBefore
BY MovesElsewhere DEF Return, Idle, TypeOK

\* A pending status is not a final one.
LEMMA PendingIsOpen ==
  \A op : PendingStatus(op) \notin Terminal
BY DEF PendingStatus, Terminal

\* The environment writes no row.
LEMMA FinishedEnvironment ==
  ASSUME RetireInv, TypeOK', Environment
  PROVE  RetireInv' /\ Stays
<1>. TypeOK  BY DEF RetireInv
<1>1. Stays
  BY DEF Environment, MineNext, DropTx, OtherWriterSends, LeaseExpires, Crash,
         ToggleLock, RevokeApproval, HolderMoves, Expire, WalletSendsDeposit,
         DepositMined, Stays
<1>2. RetiresAsBefore
  <2>1. ASSUME NEW p \in Reqs, Crash(p)  PROVE RetiresAsBefore
    BY <2>1, ReturnElsewhere DEF Crash, ReturnKeepingLease
  <2>2. CASE UNCHANGED req  BY <2>2 DEF RetiresAsBefore
  <2>. QED
    BY <2>1, <2>2 DEF Environment, MineNext, DropTx, OtherWriterSends, LeaseExpires,
         ToggleLock, RevokeApproval, HolderMoves, Expire, WalletSendsDeposit,
         DepositMined
<1>. QED  BY <1>1, <1>2, RetireStep

\* Preparing, confirming and resuming write only absent and pending rows.
LEMMA FinishedCreate ==
  ASSUME GiftConstants, RetireInv, TypeOK', CreateNext
  PROVE  RetireInv' /\ Stays
<1>. TypeOK  BY DEF RetireInv
<1>1. ASSUME RetiresAsBefore, UNCHANGED card  PROVE RetireInv' /\ Stays
  BY <1>1, RetireStep DEF Stays
<1>2. ASSUME NEW p \in Reqs, NEW op, NEW c \in Cards, NEW s \in Steps \ {"retire"},
             NEW k, Enter(p, op, c, s, k), UNCHANGED card
      PROVE  RetireInv' /\ Stays
  <2>1. req'[p].pc = s /\ \A q \in Reqs \ {p} : req'[q] = req[q]
    BY <1>2 DEF Enter, Idle, TypeOK
  <2>. QED  BY <1>1, <1>2, <2>1, MovesElsewhere
<1>3. ASSUME NEW c \in Cards, PrepareRepeat(c)  PROVE RetireInv' /\ Stays
  BY <1>1, <1>3 DEF PrepareRepeat, RetiresAsBefore
<1>4. ASSUME NEW p \in Reqs, NEW c \in Cards, PrepareRead(p, c)
      PROVE  RetireInv' /\ Stays
  BY <1>2, <1>4 DEF PrepareRead, Steps
<1>5. ASSUME NEW p \in Reqs, NEW c \in Cards, ResumeRead(p, c)
      PROVE  RetireInv' /\ Stays
  BY <1>2, <1>5 DEF ResumeRead, Steps
<1>6. ASSUME NEW p \in Reqs, NEW c \in Cards, NEW k \in 1 .. MaxCodes,
             ConfirmRead(p, c, k)
      PROVE  RetireInv' /\ Stays
  BY <1>2, <1>6 DEF ConfirmRead, Steps
<1>7. ASSUME NEW p \in Reqs, PrepareSupersede(p)  PROVE RetireInv' /\ Stays
  <2>1. RetiresAsBefore  BY <1>7, GotoElsewhere DEF PrepareSupersede, Steps
  <2>2. Stays  BY <1>7 DEF PrepareSupersede, Stays, Terminal
  <2>. QED  BY <2>1, <2>2, RetireStep
<1>8. ASSUME NEW p \in Reqs, PrepareInsert(p)  PROVE RetireInv' /\ Stays
  <2>. DEFINE c == req[p].gift
  <2>1. c \in Cards  BY <1>8, Running DEF PrepareInsert, At
  <2>2. RetiresAsBefore  BY <1>8, ReturnElsewhere DEF PrepareInsert
  <2>3. Stays
    BY <1>8, <2>1 DEF PrepareInsert, DuplicateRequest, Stays, Terminal, TypeOK
  <2>. QED  BY <2>2, <2>3, RetireStep
<1>9. ASSUME NEW p \in Reqs,
             \/ ConfirmProof(p) \/ ConfirmMailCheck(p) \/ sendGiftInvitation(p)
             \/ ResumeCustody(p)
      PROVE  RetireInv' /\ Stays
  <2>1. RetiresAsBefore
    BY <1>9, GotoElsewhere, ReturnElsewhere
       DEF ConfirmProof, ConfirmMailCheck, sendGiftInvitation, ResumeCustody, Steps
  <2>. QED
    BY <1>1, <1>9, <2>1
       DEF ConfirmProof, ConfirmMailCheck, sendGiftInvitation, ResumeCustody
<1>10. ASSUME NEW p \in Reqs, ConfirmActivate(p) \/ ResumeReissue(p)
       PROVE  RetireInv' /\ Stays
  <2>. DEFINE c == req[p].gift
  <2>1. c \in Cards
    BY <1>10, Running DEF ConfirmActivate, ResumeReissue, At
  <2>2. \E row : Update(c, card[c].status = "pending_escrow", row)
    BY <1>10 DEF ConfirmActivate, ResumeReissue
  <2>3. Stays  BY <2>1, <2>2, UpdateStays DEF Terminal
  <2>4. RetiresAsBefore
    BY <1>10, GotoElsewhere, ReturnElsewhere DEF ConfirmActivate, ResumeReissue, Steps
  <2>. QED  BY <2>3, <2>4, RetireStep
<1>. QED  BY <1>3, <1>4, <1>5, <1>6, <1>7, <1>8, <1>9, <1>10 DEF CreateNext

\* Reading and settling.
LEMMA FinishedSettle ==
  ASSUME GiftConstants, RetireInv, TypeOK', NEW p \in Reqs,
         \/ ClaimBegins(p) \/ CancelBegins(p) \/ ReadChain(p) \/ Reconcile(p)
         \/ ApplyComplete(p) \/ ApplyFailed(p) \/ ApplyRetry(p)
         \/ ResetClaim(p) \/ ResetReturn(p) \/ CancelReopen(p)
  PROVE  RetireInv' /\ Stays
<1>. TypeOK  BY DEF RetireInv
<1>. DEFINE c == req[p].gift
<1>1. ASSUME RetiresAsBefore, UNCHANGED card  PROVE RetireInv' /\ Stays
  BY <1>1, RetireStep DEF Stays
<1>2. ASSUME NEW r, req' = [req EXCEPT ![p] = r], r.pc # "retire"
      PROVE  RetiresAsBefore
  BY <1>2, MovesElsewhere DEF TypeOK
<1>3. ASSUME RetiresAsBefore, c \in Cards,
             \E op, guard, row : /\ Update(c, guard, row)
                                 /\ guard => card[c].status = PendingStatus(op)
      PROVE  RetireInv' /\ Stays
  BY <1>3, UpdateStays, PendingIsOpen, RetireStep
<1>4. ASSUME NEW d \in Cards, NEW w \in Users \cup {None}, ClaimRead(p, d, w)
      PROVE  RetireInv' /\ Stays
  <2>1. req'[p].pc = "chain" /\ \A q \in Reqs \ {p} : req'[q] = req[q]
    BY <1>4 DEF ClaimRead, Idle, TypeOK
  <2>. QED  BY <1>1, <1>4, <2>1, MovesElsewhere DEF ClaimRead
<1>5. ASSUME NEW d \in Cards, CancelRead(p, d)  PROVE RetireInv' /\ Stays
  <2>1. RetireFits(p)' \/ req'[p].pc # "retire"
    BY <1>5 DEF CancelRead, RetireFits, Escrowed, Open, Idle, TypeOK
  <2>2. \A q \in Reqs \ {p} : req'[q] = req[q]  BY <1>5 DEF CancelRead, TypeOK
  <2>3. RetiresAsBefore  BY <2>1, <2>2 DEF RetiresAsBefore
  <2>. QED  BY <1>1, <1>5, <2>3 DEF CancelRead
<1>6. CASE ReadChain(p)
  <2>1. req[p] \in Requests  BY Running
  <2>2. req'[p].pc \in {"reconcile", "take"} /\ \A q \in Reqs \ {p} : req'[q] = req[q]
    BY <1>6, <2>1 DEF ReadChain, TypeOK, Requests
  <2>. QED  BY <1>1, <1>6, <2>2, MovesElsewhere DEF ReadChain
<1>7. CASE Reconcile(p)
  <2>1. \/ Return(p)
        \/ \E v \in Verdict : req' = [req EXCEPT ![p] = [@ EXCEPT !.pc = "apply",
                                                                 !.verdict = v]]
    BY <1>7, VerdictShape DEF Reconcile
  <2>2. req[p] \in Requests  BY Running
  <2>3. ASSUME NEW v \in Verdict,
               req' = [req EXCEPT ![p] = [@ EXCEPT !.pc = "apply", !.verdict = v]]
        PROVE  RetiresAsBefore
    <3>1. req'[p].pc = "apply" /\ \A q \in Reqs \ {p} : req'[q] = req[q]
      BY <2>2, <2>3 DEF TypeOK, Requests
    <3>. QED  BY <3>1, MovesElsewhere
  <2>. QED  BY <1>1, <1>7, <2>1, <2>3, ReturnElsewhere DEF Reconcile
<1>8. CASE ApplyComplete(p) \/ ApplyFailed(p)
  <2>1. c \in Cards  BY <1>8, Running DEF ApplyComplete, ApplyFailed
  <2>2. \E op, guard, row : /\ Update(c, guard, row)
                            /\ guard => card[c].status = PendingStatus(op)
    <3>1. "claim_pending" = PendingStatus("claim")
          /\ "cancel_pending" = PendingStatus("cancel")
      BY DEF PendingStatus
    <3>. QED  BY <1>8, <3>1 DEF ApplyComplete, ApplyFailed
  <2>3. RetiresAsBefore  BY <1>8, ReturnElsewhere DEF ApplyComplete, ApplyFailed
  <2>. QED  BY <1>3, <2>1, <2>2, <2>3
<1>9. CASE ApplyRetry(p)
  <2>1. c \in Cards  BY <1>9, Running DEF ApplyRetry
  <2>. DEFINE n == IF req[p].verdict = "retry_same_nonce" THEN req[p].seen.nonce
                   ELSE NoNonce
              r == [Idle EXCEPT !.op = req[p].op, !.gift = c, !.pc = "lease",
                      !.start = clock',
                      !.wallet = Destination(req[p].op, c, req[p].seen), !.nonce = n]
  <2>2. \/ Return(p) /\ UNCHANGED card
        \/ card' = [card EXCEPT ![c].started = clock'] /\ req' = [req EXCEPT ![p] = r]
    BY <1>9 DEF ApplyRetry
  <2>3. r.pc = "lease"  BY DEF Idle
  <2>. HIDE DEF r
  <2>4. CASE card' = [card EXCEPT ![c].started = clock'] /\ req' = [req EXCEPT ![p] = r]
    <3>1. card[c] \in Rows  BY <2>1 DEF TypeOK
    <3>2. Stays  BY <2>1, <2>4, <3>1 DEF Stays, TypeOK, Rows
    <3>3. RetiresAsBefore  BY <1>2, <2>3, <2>4
    <3>. QED  BY <3>2, <3>3, RetireStep
  <2>. QED  BY <1>1, <2>2, <2>4, ReturnElsewhere
<1>10. CASE ResetClaim(p)
  <2>1. c \in Cards  BY <1>10, Running DEF ResetClaim, At
  <2>2. RetiresAsBefore
    BY <1>10, GotoElsewhere, ReturnElsewhere DEF ResetClaim, Steps
  <2>3. \E op, guard, row : /\ Update(c, guard, row)
                            /\ guard => card[c].status = PendingStatus(op)
    BY <1>10 DEF ResetClaim, StillUnsubmitted
  <2>. QED  BY <1>3, <2>1, <2>2, <2>3
<1>11. CASE ResetReturn(p)
  <2>. DEFINE open == IF req[p].seen.from = None THEN "active" ELSE req[p].seen.from
              r == [req[p] EXCEPT !.pc = "take", !.seen = ReopenedReturn(req[p].seen, open)]
  <2>1. c \in Cards /\ req[p] \in Requests  BY <1>11, Running DEF ResetReturn, At
  <2>2. Return(p) \/ req' = [req EXCEPT ![p] = r]  BY <1>11 DEF ResetReturn
  <2>3. r.pc # "retire"  BY <2>1 DEF Requests
  <2>4. RetiresAsBefore
    <3>. HIDE DEF r
    <3>. QED  BY <1>2, <2>2, <2>3, ReturnElsewhere
  <2>5. \E op, guard, row : /\ Update(c, guard, row)
                            /\ guard => card[c].status = PendingStatus(op)
    BY <1>11 DEF ResetReturn, StillUnsubmitted
  <2>. QED  BY <1>3, <2>1, <2>4, <2>5
<1>12. CASE CancelReopen(p)
  <2>. DEFINE s == IF Escrowed(c) THEN "chain" ELSE "retire"
              row == [Cleared(req[p].seen) EXCEPT !.status = "active"]
              r == [req[p] EXCEPT !.seen = row, !.pc = s]
  <2>1. c \in Cards /\ req[p] \in Requests /\ Cleared(req[p].seen) \in Rows
    BY <1>12, Running, RowShapes DEF CancelReopen, At, Requests
  <2>2. Return(p) \/ req' = [req EXCEPT ![p] = r]  BY <1>12 DEF CancelReopen
  <2>3. row.status = "active"  BY <2>1 DEF Rows
  <2>4. s = "retire" => ~Escrowed(c)  OBVIOUS
  <2>5. r.pc = s /\ r.gift = c /\ r.seen = row
    <3>. HIDE DEF s, row
    <3>. QED  BY <2>1 DEF Requests
  <2>6. RetiresAsBefore
    <3>1. ASSUME req' = [req EXCEPT ![p] = r]  PROVE RetiresAsBefore
      <4>. HIDE DEF r, s, row
      <4>1. req'[p] = r /\ \A q \in Reqs \ {p} : req'[q] = req[q]
        BY <3>1 DEF TypeOK
      <4>2. req'[p].pc = "retire" => RetireFits(p)'
        BY <2>3, <2>4, <2>5, <4>1 DEF RetireFits, Escrowed, OpenStatus
      <4>. QED  BY <4>1, <4>2 DEF RetiresAsBefore
    <3>. QED  BY <2>2, <3>1, ReturnElsewhere
  <2>7. \E op, guard, new : /\ Update(c, guard, new)
                            /\ guard => card[c].status = PendingStatus(op)
    BY <1>12 DEF CancelReopen, StillUnsubmitted
  <2>. QED  BY <1>3, <2>1, <2>6, <2>7
<1>. QED  BY <1>4, <1>5, <1>6, <1>7, <1>8, <1>9, <1>10, <1>11, <1>12
             DEF ClaimBegins, CancelBegins

\* Taking and retiring: the writes FinishedStays is about.
LEMMA FinishedTake ==
  ASSUME GiftConstants, RetireInv, TypeOK', NEW p \in Reqs,
         TakeClaim(p) \/ TakeReturn(p) \/ CancelLegacy(p) \/ CancelRetire(p)
  PROVE  RetireInv' /\ Stays
<1>. TypeOK  BY DEF RetireInv
<1>. DEFINE c == req[p].gift
<1>1. c \in Cards /\ card[c] \in Rows /\ req[p] \in Requests
  BY Running DEF TakeClaim, TakeReturn, CancelLegacy, CancelRetire, At
<1>2. ASSUME RetiresAsBefore, UNCHANGED card  PROVE RetireInv' /\ Stays
  BY <1>2, RetireStep DEF Stays
<1>3. ASSUME RetiresAsBefore, card[c].status \notin Terminal,
             \A d \in Cards \ {c} : card'[d] = card[d]
      PROVE  RetireInv' /\ Stays
  BY <1>3, RetireStep DEF Stays
<1>4. CASE TakeClaim(p)
  <2>. DEFINE r == [Idle EXCEPT !.op = "claim", !.gift = c, !.pc = "lease",
                      !.start = clock', !.initial = TRUE, !.wallet = req[p].wallet]
  <2>1. \/ Return(p) /\ UNCHANGED card
        \/ /\ card[c].status = "active" /\ \A d \in Cards \ {c} : card'[d] = card[d]
           /\ req' = [req EXCEPT ![p] = r]
    BY <1>4 DEF TakeClaim, TypeOK
  <2>2. r.pc = "lease"  BY DEF Idle
  <2>. HIDE DEF r
  <2>3. req' = [req EXCEPT ![p] = r] => RetiresAsBefore
    BY <2>2, MovesElsewhere DEF TypeOK
  <2>. QED  BY <1>2, <1>3, <2>1, <2>3, ReturnElsewhere DEF Terminal
<1>5. CASE TakeReturn(p)
  <2>. DEFINE status == req[p].seen.status
              r == [Idle EXCEPT !.op = "cancel", !.gift = c, !.pc = "lease",
                      !.start = clock', !.initial = TRUE, !.wallet = SenderOf[c],
                      !.seen.status = status]
              closed == [card[c] EXCEPT !.status = "cancelled", !.from = None,
                                        !.started = NoStart]
  <2>1. status \in {"pending_escrow", "active"} /\ status \in OpenStatus
        /\ status \notin Terminal
    <3>1. status \in {"pending_escrow", "active"}
      BY <1>5 DEF TakeReturn, At, TypeOK, Invocations
    <3>. QED  BY <3>1 DEF OpenStatus, Terminal
  <2>2. \/ Return(p) /\ UNCHANGED card
        \/ /\ card[c].status = status /\ \A d \in Cards \ {c} : card'[d] = card[d]
           /\ req' = [req EXCEPT ![p] = r]
        \/ /\ card[c].status = status /\ \A d \in Cards \ {c} : card'[d] = card[d]
           /\ card' = [card EXCEPT ![c] = closed] /\ Goto(p, "retire")
    BY <1>5 DEF TakeReturn, TypeOK
  <2>3. r.pc = "lease"  BY DEF Idle
  <2>. HIDE DEF r
  <2>4. req' = [req EXCEPT ![p] = r] => RetiresAsBefore
    BY <2>3, MovesElsewhere DEF TypeOK
  <2>5. ASSUME card' = [card EXCEPT ![c] = closed], Goto(p, "retire")
        PROVE  RetiresAsBefore
    <3>1. closed.status = "cancelled"  BY <1>1 DEF Rows
    <3>. HIDE DEF closed
    <3>2. card'[c].status = "cancelled"  BY <1>1, <2>5, <3>1 DEF TypeOK
    <3>3. /\ req'[p].gift = c /\ req'[p].seen = req[p].seen
          /\ \A q \in Reqs \ {p} : req'[q] = req[q]
      BY <1>1, <2>5 DEF Goto, TypeOK, Requests
    <3>4. RetireFits(p)'  BY <2>1, <3>2, <3>3 DEF RetireFits
    <3>. QED  BY <3>3, <3>4 DEF RetiresAsBefore
  <2>. QED  BY <1>2, <1>3, <2>1, <2>2, <2>4, <2>5, ReturnElsewhere
<1>6. CASE CancelLegacy(p)
  <2>1. req[p].seen.status \in OpenStatus
    BY <1>6 DEF CancelLegacy, At, RetireInv, RetiresClosed
  <2>2. RetiresAsBefore  BY <1>6, ReturnElsewhere DEF CancelLegacy
  <2>3. Stays
    BY <1>1, <1>6, <2>1, UpdateStays DEF CancelLegacy, OpenStatus, Terminal
  <2>. QED  BY <2>2, <2>3, RetireStep
<1>7. CASE CancelRetire(p)
  <2>. DEFINE row == [Cleared(card[c]) EXCEPT !.status = "cancelled",
                                              !.returnHash = NoHash, !.from = None]
  <2>1. card[c].status = "cancelled"
    BY <1>7 DEF CancelRetire, At, RetireInv, RetiresClosed
  <2>2. card' = [card EXCEPT ![c] = row]  BY <1>7 DEF CancelRetire
  <2>3. row.status = "cancelled"  BY <1>1, RowShapes DEF Rows
  <2>. HIDE DEF row
  <2>4. Stays  BY <1>1, <2>1, <2>2, <2>3 DEF Stays, TypeOK
  <2>5. RetiresAsBefore  BY <1>7, ReturnElsewhere DEF CancelRetire
  <2>. QED  BY <2>4, <2>5, RetireStep
<1>. QED  BY <1>4, <1>5, <1>6, <1>7

\* The steps of an attempt compare with the pending status.
LEMMA FinishedSubmit ==
  ASSUME GiftConstants, RetireInv, TypeOK', NEW p \in Reqs, submitTransfer(p)
  PROVE  RetireInv' /\ Stays
<1>. TypeOK  BY DEF RetireInv
<1>. DEFINE c == req[p].gift
<1>1. req[p].pc # "idle"
  BY DEF submitTransfer, TakeLease, SimulateFails, Simulate, RecordNonce, Broadcast,
         BroadcastFails, RecordHash, Confirmed, Unconfirmed, UndoAttempt,
         ReleaseLease, Finalize
<1>2. req[p] \in Requests /\ c \in Cards  BY <1>1, Running
<1>3. CASE \/ TakeLease(p) \/ SimulateFails(p) \/ Confirmed(p) \/ ReleaseLease(p)
           \/ BroadcastFails(p) \/ Unconfirmed(p)
  <2>1. RetiresAsBefore
    BY <1>3, GotoElsewhere, ReturnElsewhere
       DEF TakeLease, SimulateFails, Confirmed, ReleaseLease, BroadcastFails,
           Unconfirmed, ReturnKeepingLease, Steps
  <2>2. Stays
    BY <1>3 DEF TakeLease, SimulateFails, Confirmed, ReleaseLease, BroadcastFails,
                Unconfirmed, Stays
  <2>. QED  BY <2>1, <2>2, RetireStep
<1>4. CASE Simulate(p)
  <2>1. PICK n : req' = [req EXCEPT ![p] = [@ EXCEPT !.pc = "record", !.nonce = n]]
    BY <1>4 DEF Simulate
  <2>2. req'[p].pc = "record" /\ \A q \in Reqs \ {p} : req'[q] = req[q]
    BY <1>2, <2>1 DEF TypeOK, Requests
  <2>3. Stays  BY <1>4 DEF Simulate, Stays
  <2>. QED  BY <2>2, <2>3, MovesElsewhere, RetireStep
<1>5. CASE Broadcast(p)
  <2>1. RetiresAsBefore
    <3>1. CASE ReturnKeepingLease(p)
      BY <3>1, ReturnElsewhere DEF ReturnKeepingLease
    <3>2. CASE req' = [req EXCEPT ![p] = [@ EXCEPT !.pc = "hash",
                                                   !.hash = Len(txs) + 1]]
      <4>1. req'[p].pc = "hash" /\ \A q \in Reqs \ {p} : req'[q] = req[q]
        BY <1>2, <3>2 DEF TypeOK, Requests
      <4>. QED  BY <4>1, MovesElsewhere
    <3>. QED  BY <1>5, <3>1, <3>2 DEF Broadcast
  <2>2. Stays  BY <1>5 DEF Broadcast, Stays
  <2>. QED  BY <2>1, <2>2, RetireStep
<1>6. CASE RecordNonce(p)
  <2>. DEFINE row == [card[c] EXCEPT !.nonce = req[p].nonce, !.started = clock']
  <2>1. Stays
    <3>1. card' = card \/ card' = [card EXCEPT ![c] = row]  BY <1>6 DEF RecordNonce
    <3>2. row.status = card[c].status  BY <1>2 DEF TypeOK, Rows
    <3>. HIDE DEF row
    <3>. QED  BY <1>2, <3>1, <3>2 DEF Stays, TypeOK
  <2>2. RetiresAsBefore  BY <1>6, GotoElsewhere DEF RecordNonce, Steps
  <2>. QED  BY <2>1, <2>2, RetireStep
<1>7. CASE RecordHash(p) \/ UndoAttempt(p) \/ Finalize(p)
  <2>1. \E guard, row : /\ Update(c, guard, row)
                        /\ guard => card[c].status = PendingStatus(req[p].op)
    BY <1>7 DEF RecordHash, UndoAttempt, Finalize
  <2>2. Stays  BY <1>2, <2>1, UpdateStays, PendingIsOpen
  <2>3. RetiresAsBefore
    BY <1>7, GotoElsewhere, ReturnElsewhere
       DEF RecordHash, UndoAttempt, Finalize, Steps
  <2>. QED  BY <2>2, <2>3, RetireStep
<1>. QED  BY <1>3, <1>4, <1>5, <1>6, <1>7 DEF submitTransfer

\* RetireInv is inductive, and each step keeps finished cards finished.
LEMMA RetireNext ==
  GiftConstants /\ RetireInv /\ [Next]_vars =>
    RetireInv' /\ (Stays \/ UNCHANGED vars)
<1>. SUFFICES ASSUME GiftConstants, RetireInv, [Next]_vars
              PROVE  RetireInv' /\ (Stays \/ UNCHANGED vars)
  OBVIOUS
<1>1. TypeOK'  BY TypeStep DEF RetireInv
<1>2. CASE UNCHANGED vars
  BY <1>1, <1>2 DEF vars, RetireInv, RetiresClosed
<1>3. CASE CreateNext  BY <1>1, <1>3, FinishedCreate
<1>4. CASE Environment  BY <1>1, <1>4, FinishedEnvironment
<1>5. ASSUME NEW p \in Reqs, ClaimBegins(p) \/ CancelBegins(p) \/ TransferStep(p)
      PROVE  RetireInv' /\ Stays
  BY <1>1, <1>5, FinishedSettle, FinishedTake, FinishedSubmit DEF TransferStep
<1>. QED  BY <1>2, <1>3, <1>4, <1>5 DEF Next, TransferNext

\* A card that was claimed or cancelled is never opened again, by any handler, in
\* any interleaving.
THEOREM FinishedIsFinal == Spec => FinishedStays
<1>1. GiftConstants /\ Init => RetireInv
  BY TypeInit DEF Init, Idle, RetireInv, RetiresClosed
<1>2. RetireInv /\ GiftConstants /\ [Next]_vars =>
        [\A c \in Cards : card[c].status \in Terminal =>
           card'[c].status = card[c].status]_vars
  BY RetireNext DEF Stays
<1>. QED  BY GiftConstants, <1>1, <1>2, RetireNext, PTL DEF Spec, FinishedStays

-----------------------------------------------------------------------------
\* The code of a live card stays.

\* One step of LiveCodeStays.
CodeStays ==
  \A c \in Cards : card'[c].code # card[c].code =>
    card[c].status \in {"absent", "pending_escrow"}

\* The columns the handlers clear or reopen are not the code.
LEMMA RowCodes ==
  ASSUME NEW row \in Rows
  PROVE  /\ Cleared(row) \in Rows /\ Cleared(row).code = row.code
         /\ ReopenedClaim(row) \in Rows /\ ReopenedClaim(row).code = row.code
         /\ \A s \in CardStatus : /\ ReopenedReturn(row, s) \in Rows
                                  /\ ReopenedReturn(row, s).code = row.code
<1>1. Cleared(row) \in Rows  BY RowShapes
<1>2. Cleared(row).code = row.code  BY DEF Rows, Cleared
<1>. QED  BY <1>1, <1>2, RowShapes DEF Rows, ReopenedClaim, ReopenedReturn

\* A conditional update that writes another code only while nobody can use one.
LEMMA UpdateCode ==
  ASSUME TypeOK, NEW c \in Cards, NEW guard, NEW row, Update(c, guard, row),
         guard => \/ row.code = card[c].code
                  \/ card[c].status \in {"absent", "pending_escrow"}
  PROVE  CodeStays
BY DEF TypeOK, Update, CodeStays

\* The handlers of v1-gift-create: only a repeated preparation changes the code.
LEMMA CodeCreate ==
  ASSUME GiftConstants, TypeOK, CreateNext
  PROVE  CodeStays
<1>1. CASE UNCHANGED card  BY <1>1 DEF CodeStays
<1>2. ASSUME NEW p \in Reqs, PrepareSupersede(p)  PROVE CodeStays
  <2>. SUFFICES ASSUME NEW d \in Cards  PROVE card'[d].code = card[d].code
    BY DEF CodeStays
  <2>1. card[d] \in Rows  BY DEF TypeOK
  <2>2. card'[d] = card[d] \/ card'[d] = [card[d] EXCEPT !.status = "cancelled"]
    BY <1>2 DEF PrepareSupersede
  <2>. QED  BY <2>1, <2>2 DEF Rows
<1>3. ASSUME NEW p \in Reqs, PrepareInsert(p)  PROVE CodeStays
  <2>1. req[p].gift \in Cards  BY <1>3, Running DEF PrepareInsert, At
  <2>2. PICK row : card' = card \/ (/\ card[req[p].gift].status = "absent"
                                    /\ card' = [card EXCEPT ![req[p].gift] = row])
    BY <1>3 DEF PrepareInsert, DuplicateRequest
  <2>. QED  BY <2>1, <2>2 DEF CodeStays, TypeOK
<1>4. ASSUME NEW p \in Reqs, ConfirmActivate(p)  PROVE CodeStays
  <2>1. req[p].gift \in Cards /\ card[req[p].gift] \in Rows
    BY <1>4, Running DEF ConfirmActivate, At
  <2>2. [card[req[p].gift] EXCEPT !.status = "active"].code = card[req[p].gift].code
    BY <2>1 DEF Rows
  <2>. QED  BY <1>4, <2>1, <2>2, UpdateCode DEF ConfirmActivate
<1>5. ASSUME NEW p \in Reqs, ResumeReissue(p)  PROVE CodeStays
  <2>1. req[p].gift \in Cards  BY <1>5, Running DEF ResumeReissue, At
  <2>. QED  BY <1>5, <2>1, UpdateCode DEF ResumeReissue
<1>. QED
  BY <1>1, <1>2, <1>3, <1>4, <1>5
  DEF CreateNext, PrepareRepeat, PrepareRead, ResumeRead, ConfirmRead, ConfirmProof,
      ConfirmMailCheck, sendGiftInvitation, ResumeCustody, untouched

\* The transfer handlers never write the code.
LEMMA CodeTransfer ==
  ASSUME GiftConstants, TypeOK, NEW p \in Reqs,
         ClaimBegins(p) \/ CancelBegins(p) \/ TransferStep(p)
  PROVE  CodeStays
<1>1. CASE UNCHANGED card  BY <1>1 DEF CodeStays
<1>2. CASE req[p].pc = "idle"
  BY <1>1, <1>2 DEF ClaimBegins, CancelBegins, TransferStep, submitTransfer, ClaimRead,
     CancelRead, ReadChain, Reconcile, ApplyComplete, ApplyFailed, ApplyRetry, ResetClaim,
     ResetReturn, TakeClaim, TakeReturn, CancelReopen, CancelLegacy, CancelRetire, TakeLease,
     SimulateFails, Simulate, RecordNonce, Broadcast, BroadcastFails, RecordHash, Confirmed,
     Unconfirmed, UndoAttempt, ReleaseLease, Finalize, At
<1>. SUFFICES ASSUME req[p].pc # "idle"  PROVE CodeStays  BY <1>2
<1>3. PICK c \in Cards : c = req[p].gift  BY Running
<1>4. req[p] \in Requests /\ card[c] \in Rows /\ req[p].seen \in Rows
  BY <1>3, Running DEF Requests
<1>5. /\ Cleared(card[c]) \in Rows /\ Cleared(card[c]).code = card[c].code
      /\ ReopenedClaim(card[c]) \in Rows /\ ReopenedClaim(card[c]).code = card[c].code
      /\ \A s \in CardStatus : /\ ReopenedReturn(card[c], s) \in Rows
                               /\ ReopenedReturn(card[c], s).code = card[c].code
  BY <1>4, RowCodes
<1>6. ASSUME NEW guard, NEW row, Update(c, guard, row), row.code = card[c].code
      PROVE  CodeStays
  BY <1>6, UpdateCode
<1>7. PICK op, status, open :
        /\ op = req[p].op /\ status = req[p].seen.status
        /\ open = IF req[p].seen.from = None THEN "active" ELSE req[p].seen.from
  OBVIOUS
<1>8. status \in CardStatus /\ open \in CardStatus
  BY <1>4, <1>7 DEF Rows, CardStatus, OpenStatus
<1>9. CASE ApplyComplete(p)
  <2>1. PICK from : Update(c, card[c].status = PendingStatus(op),
                     [Cleared(card[c]) EXCEPT !.status = FinalStatus(op), !.from = from])
    BY <1>3, <1>7, <1>9 DEF ApplyComplete, Cleared
  <2>2. [Cleared(card[c]) EXCEPT !.status = FinalStatus(op), !.from = from].code = card[c].code
    BY <1>5 DEF Rows
  <2>. QED  BY <1>6, <2>1, <2>2
<1>10. CASE ApplyFailed(p)
  <2>1. /\ [ReopenedClaim(card[c]) EXCEPT !.claimHash = NoHash].code = card[c].code
        /\ [ReopenedReturn(card[c], open) EXCEPT !.returnHash = NoHash].code = card[c].code
    <3>1. ReopenedReturn(card[c], open) \in Rows
          /\ ReopenedReturn(card[c], open).code = card[c].code
      BY <1>5, <1>8
    <3>. QED  BY <1>5, <3>1 DEF Rows
  <2>2. CASE op = "claim"
    BY <1>3, <1>6, <1>7, <1>10, <2>1, <2>2 DEF ApplyFailed
  <2>3. CASE op # "claim"
    BY <1>3, <1>6, <1>7, <1>10, <2>1, <2>3 DEF ApplyFailed
  <2>. QED  BY <2>2, <2>3
<1>11. CASE ResetClaim(p) \/ CancelReopen(p)
  BY <1>3, <1>5, <1>6, <1>11 DEF ResetClaim, CancelReopen
<1>12. CASE ResetReturn(p)
  <2>1. Update(c, StillUnsubmitted(c, "cancel", req[p].seen), ReopenedReturn(card[c], open))
    BY <1>3, <1>7, <1>12 DEF ResetReturn
  <2>. QED  BY <1>5, <1>6, <1>8, <2>1
<1>13. ASSUME NEW row, card' = [card EXCEPT ![c] = row], row.code = card[c].code
       PROVE  CodeStays
  BY <1>13 DEF CodeStays, TypeOK
<1>14. CASE ApplyRetry(p)
  <2>1. UNCHANGED card \/ card' = [card EXCEPT ![c] = [card[c] EXCEPT !.started = clock']]
    BY <1>3, <1>14 DEF ApplyRetry
  <2>2. [card[c] EXCEPT !.started = clock'].code = card[c].code  BY <1>4 DEF Rows
  <2>. QED  BY <1>1, <1>13, <2>1, <2>2
<1>15. CASE TakeClaim(p)
  <2>1. UNCHANGED card \/ card' = [card EXCEPT ![c] = [card[c] EXCEPT
            !.status = "claim_pending", !.wallet = req[p].wallet, !.started = clock']]
    BY <1>3, <1>15 DEF TakeClaim
  <2>2. [card[c] EXCEPT !.status = "claim_pending", !.wallet = req[p].wallet,
                        !.started = clock'].code = card[c].code
    BY <1>4 DEF Rows
  <2>. QED  BY <1>1, <1>13, <2>1, <2>2
<1>16. CASE TakeReturn(p)
  <2>1. \/ UNCHANGED card
        \/ card' = [card EXCEPT ![c] = [card[c] EXCEPT !.status = "cancel_pending",
                      !.from = status, !.started = clock']]
        \/ card' = [card EXCEPT ![c] = [card[c] EXCEPT !.status = "cancelled",
                      !.from = None, !.started = NoStart]]
    BY <1>3, <1>7, <1>16 DEF TakeReturn
  <2>2. /\ [card[c] EXCEPT !.status = "cancel_pending", !.from = status,
                           !.started = clock'].code = card[c].code
        /\ [card[c] EXCEPT !.status = "cancelled", !.from = None,
                           !.started = NoStart].code = card[c].code
    BY <1>4 DEF Rows
  <2>. QED  BY <1>1, <1>13, <2>1, <2>2
<1>17. CASE CancelLegacy(p)
  <2>1. [card[c] EXCEPT !.status = "cancelled"].code = card[c].code  BY <1>4 DEF Rows
  <2>. QED  BY <1>3, <1>6, <1>17, <2>1 DEF CancelLegacy
<1>18. CASE CancelRetire(p)
  <2>1. card' = [card EXCEPT ![c] = [Cleared(card[c]) EXCEPT !.status = "cancelled",
                               !.returnHash = NoHash, !.from = None]]
    BY <1>3, <1>18 DEF CancelRetire
  <2>2. [Cleared(card[c]) EXCEPT !.status = "cancelled", !.returnHash = NoHash,
                                 !.from = None].code = card[c].code
    BY <1>5 DEF Rows
  <2>. QED  BY <1>13, <2>1, <2>2
<1>19. CASE RecordNonce(p)
  <2>1. UNCHANGED card \/ card' = [card EXCEPT ![c] = [card[c] EXCEPT
                                     !.nonce = req[p].nonce, !.started = clock']]
    BY <1>3, <1>19 DEF RecordNonce
  <2>2. [card[c] EXCEPT !.nonce = req[p].nonce, !.started = clock'].code = card[c].code
    BY <1>4 DEF Rows
  <2>. QED  BY <1>1, <1>13, <2>1, <2>2
<1>20. CASE RecordHash(p)
  <2>1. /\ [card[c] EXCEPT !.claimHash = req[p].hash].code = card[c].code
        /\ [card[c] EXCEPT !.returnHash = req[p].hash].code = card[c].code
    BY <1>4 DEF Rows
  <2>2. CASE op = "claim"  BY <1>3, <1>6, <1>7, <1>20, <2>1, <2>2 DEF RecordHash
  <2>3. CASE op # "claim"  BY <1>3, <1>6, <1>7, <1>20, <2>1, <2>3 DEF RecordHash
  <2>. QED  BY <2>2, <2>3
<1>21. CASE UndoAttempt(p)
  <2>1. CASE op = "claim"  BY <1>3, <1>5, <1>6, <1>7, <1>21, <2>1 DEF UndoAttempt
  <2>2. CASE op # "claim"
    BY <1>3, <1>5, <1>6, <1>7, <1>8, <1>21, <2>2 DEF UndoAttempt
  <2>. QED  BY <2>1, <2>2
<1>22. CASE Finalize(p)
  <2>1. /\ [Cleared(card[c]) EXCEPT !.status = "claimed"].code = card[c].code
        /\ [Cleared(card[c]) EXCEPT !.status = "cancelled", !.returnHash = req[p].hash,
                                    !.from = None].code = card[c].code
    BY <1>5 DEF Rows
  <2>2. CASE op = "claim"  BY <1>3, <1>6, <1>7, <1>22, <2>1, <2>2 DEF Finalize
  <2>3. CASE op # "claim"  BY <1>3, <1>6, <1>7, <1>22, <2>1, <2>3 DEF Finalize
  <2>. QED  BY <2>2, <2>3
<1>23. \/ UNCHANGED card
       \/ ApplyComplete(p) \/ ApplyFailed(p) \/ ResetClaim(p) \/ CancelReopen(p)
       \/ ResetReturn(p) \/ ApplyRetry(p) \/ TakeClaim(p) \/ TakeReturn(p)
       \/ CancelLegacy(p) \/ CancelRetire(p) \/ RecordNonce(p) \/ RecordHash(p)
       \/ UndoAttempt(p) \/ Finalize(p)
  BY DEF ClaimBegins, CancelBegins, TransferStep, submitTransfer, ClaimRead, CancelRead,
         ReadChain, Reconcile, TakeLease, SimulateFails, Simulate, Broadcast,
         BroadcastFails, Confirmed, Unconfirmed, ReleaseLease
<1>. QED
  BY <1>1, <1>9, <1>10, <1>11, <1>12, <1>14, <1>15, <1>16, <1>17, <1>18, <1>19, <1>20,
     <1>21, <1>22, <1>23

\* The code in an invitation keeps opening its card: once a card is live no handler
\* replaces its code, also not one that read the card before it went live.
THEOREM CodeStaysLive == Spec => LiveCodeStays
<1>1. GiftConstants /\ TypeOK /\ [Next]_vars =>
        [\A c \in Cards : card'[c].code # card[c].code =>
           card[c].status \in {"absent", "pending_escrow"}]_vars
  <2>. SUFFICES ASSUME GiftConstants, TypeOK, [Next]_vars
                PROVE  CodeStays \/ UNCHANGED vars
    BY DEF CodeStays
  <2>1. CASE Environment
    BY <2>1 DEF Environment, MineNext, DropTx, OtherWriterSends, LeaseExpires, Crash,
       ToggleLock, RevokeApproval, HolderMoves, Expire, WalletSendsDeposit, DepositMined,
       CodeStays
  <2>. QED  BY <2>1, CodeCreate, CodeTransfer DEF Next, TransferNext
<1>. QED  BY GiftConstants, <1>1, TypeCorrect, PTL DEF Spec, LiveCodeStays
=============================================================================
