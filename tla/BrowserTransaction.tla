------------------------- MODULE BrowserTransaction -------------------------
(***************************************************************************)
(* runContractTransaction (services/chain/transactionPipeline.ts): one     *)
(* person paying for one thing from one page, with the wallet app beside   *)
(* it, the durable record of PendingWork and the account of AccountChain.  *)
(*                                                                         *)
(* page   where the page's run stands, and what it read so far; the states *)
(*        "broadcast" and "unknown" are the ones the button is withdrawn   *)
(*        in (components/tx/TxButton.tsx)                                  *)
(* wallet the request the wallet app holds, with its answer                *)
(* told   the page showed the payment as made: nobody presses again        *)
(***************************************************************************)
EXTENDS PendingWork, AccountChain

CONSTANT Amounts   \* what the quotes of successive attempts ask for

ASSUME NoneIsNoRequest ==
  None \notin [kind : {"approval", "call"}, amount : Amounts \cup {0},
               state : {"open", "signed", "rejected"}, hash : Nat \cup {None}]

VARIABLES page, wallet, told, reconciles

browserVars == <<store, chainVars, page, wallet, told, reconciles>>
aside == <<told, reconciles>>

Idle == [pc |-> "ready"]
Running(amount) ==
  [pc |-> "checking", amount |-> amount, from |-> height, planned |-> <<>>, plannedAt |-> height,
   index |-> 1, work |-> None, unresolved |-> None, hash |-> None]
Preflight == {"checking", "look", "settle", "effect", "nonces", "unresolved", "open"}
Step == page.planned[page.index]
Go(pc) == page' = [page EXCEPT !.pc = pc]
Shown(pc) == page' = [pc |-> pc]

\* The flow's own search for an exact call of the account's, from a block on.
reconcileBroadcast(fromBlock, operationKey) ==
  {h \in Effects("call", fromBlock) : txs[h].amount = operationKey}
Landed(id) == closeWork(id) /\ told' = TRUE /\ page' = Idle /\ UNCHANGED reconciles

Init ==
  /\ ChainInit
  /\ store = <<>> /\ page = Idle /\ wallet = None /\ told = FALSE
  /\ reconciles \in BOOLEAN

-----------------------------------------------------------------------------
\* The button.  An error puts it back; the withdrawn states need a reload.
Press ==
  /\ page = Idle /\ ~told
  /\ \E amount \in Amounts : page' = Running(amount)
  /\ UNCHANGED <<store, chainVars, wallet, aside>>

Reload ==
  /\ page.pc \in {"broadcast", "unknown"} /\ page' = Idle
  /\ UNCHANGED <<store, chainVars, wallet, aside>>

\* The browser gives up the page while a wallet step is under way.
PageEvicted ==
  /\ page.pc \in {"prepare", "gesture", "wallet", "recover", "confirm"} /\ page' = Idle
  /\ wallet' = IF wallet # None /\ wallet.state # "open" THEN None ELSE wallet
  /\ UNCHANGED <<store, chainVars, aside>>

\* A check, a simulation or a read refuses, or the gesture is cancelled:
\* nothing was sent, and the record is noise.
Refused ==
  /\ page.pc \in {"checking", "open", "prepare", "gesture"}
  /\ closeWork(page.work) /\ page' = Idle
  /\ UNCHANGED <<chainVars, wallet, aside>>

-----------------------------------------------------------------------------
\* Before the wallet: approvals are planned, an earlier attempt is settled.
paymentApprovalAmounts(required) ==
  IF allowance >= required THEN <<>>
  ELSE IF allowance > 0 THEN <<0, required>> ELSE <<required>>

planApproval ==
  /\ page.pc = "checking"
  /\ LET approvals == IF token THEN paymentApprovalAmounts(page.amount) ELSE <<>> IN
     page' = [page EXCEPT !.pc = "look", !.plannedAt = height,
                !.planned = [i \in DOMAIN approvals |-> PendingStep("approval", approvals[i])]]
  /\ UNCHANGED <<store, chainVars, wallet, aside>>

LookForUnresolved ==
  /\ page.pc = "look"
  /\ page' = IF findPendingBroadcast = None THEN [page EXCEPT !.pc = "open"]
             ELSE [page EXCEPT !.pc = "settle", !.unresolved = work(findPendingBroadcast)]
  /\ UNCHANGED <<store, chainVars, wallet, aside>>

\* settleStaleWork, read by read.  What it looks at is the record as it was found.
Sent == {i \in DOMAIN page.unresolved.steps : page.unresolved.steps[i].status = "broadcast"}
SentAs(kind) == {i \in Sent : page.unresolved.steps[i].kind = kind}
HashesOf(steps) == {page.unresolved.steps[i].hash : i \in steps} \ {None}
UnknownSend(kind) == \E i \in SentAs(kind) : Hashless(page.unresolved.steps[i])

\* Mutant: a receipt is a receipt, whatever its status.
SettleByReceipt ==
  /\ page.pc = "settle"
  /\ IF \E h \in HashesOf(SentAs("call")) : Receipt(h)
     THEN Landed(page.unresolved.id)
     ELSE Go("unresolved") /\ UNCHANGED <<store, aside>>
  /\ UNCHANGED <<chainVars, wallet>>

SettleByHash ==
  /\ page.pc = "settle"
  /\ IF \E h \in HashesOf(SentAs("call")) : h \in Paid
     THEN Landed(page.unresolved.id)
     ELSE /\ \/ /\ HashesOf(Sent) \cap Pending # {} \/ page.unresolved.age = "young"
                /\ Go("unresolved")
             \/ /\ HashesOf(Sent) \cap Pending = {} /\ page.unresolved.age # "young"
                /\ Go(IF UnknownSend("call") /\ reconciles THEN "effect" ELSE "nonces")
          /\ UNCHANGED <<store, aside>>
  /\ UNCHANGED <<chainVars, wallet>>

EffectSince == reconcileBroadcast(page.unresolved.fromBlock, page.unresolved.operationKey)

SettleByEffect ==
  /\ page.pc = "effect"
  /\ IF EffectSince # {} THEN Landed(page.unresolved.id)
     ELSE Go("nonces") /\ UNCHANGED <<store, aside>>
  /\ UNCHANGED <<chainVars, wallet>>

\* Mutants: an absent effect is proof enough; a lock never clears.
SettleByAge ==
  /\ page.pc = "nonces" /\ Go("open") /\ closeWork(page.unresolved.id)
  /\ UNCHANGED <<chainVars, wallet, aside>>
SettleNever ==
  /\ page.pc = "nonces" /\ Go("unresolved")
  /\ UNCHANGED <<store, chainVars, wallet, aside>>

SettleByNonce ==
  /\ page.pc = "nonces"
  /\ IF PendingNonce > LatestNonce THEN Go("unresolved") /\ UNCHANGED store
     ELSE Go("open") /\ closeWork(page.unresolved.id)
  /\ UNCHANGED <<chainVars, wallet, aside>>

SettleFails ==
  /\ page.pc \in {"effect", "nonces"} /\ Go("unresolved")
  /\ UNCHANGED <<store, chainVars, wallet, aside>>

\* Still locked.  An approval moves no funds, so its unknown send gives way.
Unresolved ==
  /\ page.pc = "unresolved"
  /\ \/ /\ UnknownSend("approval") /\ closeWork(page.unresolved.id) /\ Go("open")
        /\ UNCHANGED aside
     \/ /\ UnknownSend("call") /\ reconciles /\ EffectSince # {}
        /\ Landed(page.unresolved.id)
     \/ /\ ~UnknownSend("approval")
        /\ ~(UnknownSend("call") /\ reconciles /\ EffectSince # {})
        /\ Shown("unknown") /\ UNCHANGED <<store, aside>>
  /\ UNCHANGED <<chainVars, wallet>>

\* A call that needs no approval is simulated once, here.
OpenWork ==
  /\ page.pc = "open" /\ FreeIds # {}
  /\ page.planned = <<>> => Executes("call", page.amount)
  /\ LET planned == Append(page.planned, PendingStep("call", page.amount)) IN
     /\ openWork(NewId, page.amount, height, planned)
     /\ page' = [page EXCEPT !.pc = "prepare", !.work = NewId, !.planned = planned,
                             !.unresolved = None]
  /\ UNCHANGED <<chainVars, wallet, aside>>

-----------------------------------------------------------------------------
\* runStep: prepare, tap, wallet, record, confirm.
Prepare ==
  /\ page.pc = "prepare"
  /\ Len(page.planned) > 1 => Executes(Step.kind, Step.amount)
  /\ Go("gesture")
  /\ UNCHANGED <<store, chainVars, wallet, aside>>

Tap ==
  /\ page.pc = "gesture" /\ wallet = None
  /\ wallet' = [kind |-> Step.kind, amount |-> Step.amount, state |-> "open", hash |-> None]
  /\ Go("wallet")
  /\ UNCHANGED <<store, chainVars, aside>>

\* External: the wallet app.  Nobody listens once the page let go of the request.
Answered(answer) == wallet' = IF page.pc = "wallet" THEN answer ELSE None
Sign ==
  /\ wallet # None /\ wallet.state = "open"
  /\ Broadcast(wallet.kind, wallet.amount)
  /\ Answered([wallet EXCEPT !.state = "signed", !.hash = Len(txs) + 1])
  /\ UNCHANGED <<store, page, aside>>
Reject ==
  /\ wallet # None /\ wallet.state = "open"
  /\ Answered([wallet EXCEPT !.state = "rejected"])
  /\ UNCHANGED <<store, chainVars, page, aside>>

Confirming(hash) ==
  /\ recordBroadcast(page.work, page.index, hash)
  /\ page' = [page EXCEPT !.pc = "confirm", !.hash = hash]

WalletAnswers ==
  /\ page.pc = "wallet" /\ wallet.state # "open" /\ wallet' = None
  /\ IF wallet.state = "signed" THEN Confirming(wallet.hash)
     ELSE closeWork(page.work) /\ page' = Idle
  /\ UNCHANGED <<chainVars, aside>>

\* An error that says the connection was lost: sent or not, nobody knows.
WalletConnectionLost ==
  /\ page.pc = "wallet" /\ Go("recover")
  /\ wallet' = IF wallet.state = "open" THEN wallet ELSE None
  /\ UNCHANGED <<store, chainVars, aside>>

\* Mutant: no answer is a failure like any other.
NoAnswerFails == closeWork(page.work) /\ page' = Idle
OutcomeUnknown == recordUnknownBroadcast(page.work, page.index) /\ Shown("unknown")

\* WALLET_RESPONSE_TIMEOUT_MS is longer than STALE_WORK_MIN_AGE_MS.
WalletTimeout ==
  /\ page.pc = "wallet" /\ work(page.work).age # "young" /\ OutcomeUnknown
  /\ wallet' = IF wallet.state = "open" THEN wallet ELSE None
  /\ UNCHANGED <<chainVars, aside>>

\* recoverAmbiguousWalletBroadcast: the effect of a step is looked for a few times.
StepEffect ==
  IF Step.kind = "call"
  THEN IF reconciles THEN reconcileBroadcast(page.from, page.amount) ELSE {}
  ELSE IF IF Step.amount = 0 THEN allowance # 0 ELSE allowance < Step.amount THEN {}
  ELSE {h \in Effects("approval", page.plannedAt) :
          IF Step.amount = 0 THEN txs[h].amount = 0 ELSE txs[h].amount >= Step.amount}

RecoverBroadcast ==
  /\ page.pc = "recover" /\ \E hash \in StepEffect : Confirming(hash)
  /\ UNCHANGED <<chainVars, wallet, aside>>

RecoveryEnds ==
  /\ page.pc = "recover" /\ OutcomeUnknown
  /\ UNCHANGED <<chainVars, wallet, aside>>

Confirm ==
  /\ page.pc = "confirm" /\ Receipt(page.hash)
  /\ IF txs[page.hash].state = "reverted"
     THEN closeWork(page.work) /\ page' = Idle /\ UNCHANGED aside
     ELSE IF page.index = Len(page.planned)
     THEN Landed(page.work)
     ELSE /\ recordStepStatus(page.work, page.index, "confirmed")
          /\ page' = [page EXCEPT !.pc = "prepare", !.index = @ + 1, !.hash = None]
          /\ UNCHANGED aside
  /\ UNCHANGED <<chainVars, wallet>>

\* The wait times out or the connection drops: the record keeps the hash.
ReceiptWaitFails ==
  /\ page.pc = "confirm" /\ Shown("broadcast")
  /\ UNCHANGED <<store, chainVars, wallet, aside>>

-----------------------------------------------------------------------------
\* reconcilePendingWork, on load and on every return to the page, for one record.
ReconcileWork ==
  \E w \in listPendingWork :
    LET others(j) == \A k \in DOMAIN w.steps \ {j} : w.steps[k].status # "waiting" IN
    \E j \in DOMAIN w.steps :
      /\ w.steps[j].status = "broadcast" /\ w.steps[j].hash # None /\ Receipt(w.steps[j].hash)
      /\ IF txs[w.steps[j].hash].state = "reverted" \/ others(j)
         THEN closeWork(w.id) ELSE recordStepStatus(w.id, j, "confirmed")
      /\ told' = (told \/ (txs[w.steps[j].hash].state = "success" /\ others(j)))
      /\ UNCHANGED <<chainVars, page, wallet, reconciles>>

TimePasses ==
  /\ \E i \in DOMAIN store : Ages(i)
  /\ UNCHANGED <<chainVars, page, wallet, aside>>

Chain == (Mine \/ Evicted) /\ UNCHANGED <<store, page, wallet, aside>>

Settle == SettleByHash \/ SettleByEffect \/ SettleByNonce \/ Unresolved
Wallet == Sign \/ Reject
RunStep ==
  \/ Prepare \/ Tap \/ WalletAnswers \/ WalletConnectionLost \/ WalletTimeout
  \/ RecoverBroadcast \/ RecoveryEnds \/ Confirm \/ ReceiptWaitFails

Next ==
  \/ Press \/ Reload \/ PageEvicted \/ Refused
  \/ planApproval \/ LookForUnresolved \/ Settle \/ SettleFails \/ OpenWork
  \/ RunStep \/ Wallet \/ ReconcileWork \/ TimePasses \/ Chain

-----------------------------------------------------------------------------

\* Whoever presses until the page says the payment is made has paid once: no
\* lost reply, reload, dropped transaction or settled lock makes it two.  Only
\* calls that come with a reconciliation move money.
PaidOnce == reconciles => Cardinality(Paid) <= 1

\* The page says the payment is made only if it is.
ToldIsPaid == told => Paid # {}

\* A call that may still execute, or has and nobody was told, is behind a lock
\* the next attempt finds, unless the wallet's answer is still awaited.
Locking(h) ==
  \E w \in listPendingWork : \E j \in DOMAIN w.steps :
    LET step == w.steps[j] IN
    step.status = "broadcast" /\ step.kind = "call" /\ step.hash \in {h, None}
InFlightIsLocked ==
  reconciles => \A h \in Hashes :
    /\ txs[h].kind = "call"
    /\ h \in Pending \/ (h \in Paid /\ ~told)
    => Locking(h) \/ page.pc \in {"wallet", "recover"}

\* A lock does not refuse forever: the chain settles what was sent, and a
\* person who comes back is told or let through.
Locked == findPendingBroadcast # None
LockIsReleased == Locked ~> ~Locked

-----------------------------------------------------------------------------
\* What PaidOnce and InFlightIsLocked assume of people, phones and clocks.

\* Nobody presses again over a request the wallet app still shows.
Attentive == page = Idle /\ page' # Idle => wallet = None
\* Nobody presses while a record that is being reconciled is about to be closed.
Patient == ~told /\ told' => page.pc \notin {"checking", "look"}
\* A run takes less than a day, and so does the fate of what it sent.
WithinADay ==
  \A i \in DOMAIN store : \A j \in DOMAIN store' :
    store[i].id = store'[j].id /\ store[i].age = "stale" /\ store'[j].age = "old" =>
      page = Idle /\ wallet = None /\ Pending = {} /\ (Paid = {} \/ told)
\* The phone keeps the page while the wallet app has its request.
KeptWhileAway == PageEvicted => page.pc \notin {"wallet", "recover"}
\* No block arrives between the last reads of the settlement of a lock.
BetweenBlocks == page.pc = "nonces" => height' = height

Prudent == Attentive /\ Patient /\ WithinADay /\ KeptWhileAway /\ BetweenBlocks
Spec == Init /\ [][Next]_browserVars
PrudentSpec == Init /\ [][Next /\ Prudent]_browserVars
=============================================================================
