------------------------------ MODULE MCBrowser ------------------------------
(***************************************************************************)
(* The browser's runs: a person who does what the page says, on a phone    *)
(* that keeps the page while the wallet has its request, paying            *)
(*   "payment"   in ether                                                  *)
(*   "allowance" in a token that has to be approved first                  *)
(***************************************************************************)
EXTENDS BrowserTransaction, TLC

CONSTANTS MaxOrphans, MaxPaid, Journeys

VARIABLE journey

MCInit ==
  /\ Init /\ journey \in Journeys
  /\ token = (journey = "allowance") /\ (token => reconciles)

-----------------------------------------------------------------------------
\* The age of a record nobody looks for tells nothing apart.
OnlyLocksAge ==
  \A i \in DOMAIN store :
    i \in DOMAIN store' /\ store'[i].id = store[i].id /\ store'[i].age # store[i].age =>
      hasBroadcastStep(store[i]) \/ (page.pc = "wallet" /\ page.work = store[i].id)

Orphans == Cardinality({i \in DOMAIN store : page = Idle \/ store[i].id # page.work})

Quotes == page'.pc = "checking" /\ token => page'.amount = MaxAllowance + 1

InJourney ==
  /\ Quotes
  /\ OnlyLocksAge /\ Prudent
  /\ IF journey = "allowance" THEN \A h \in Hashes : txs'[h].state # "dropped"
     ELSE Len(txs') <= MaxPaid
  /\ PageEvicted => Orphans <= MaxOrphans

Fairness ==
  /\ WF_browserVars(Press) /\ WF_browserVars(Reload)
  /\ SF_browserVars(planApproval) /\ WF_browserVars(LookForUnresolved)
  /\ SF_browserVars(SettleByHash) /\ SF_browserVars(SettleByEffect)
  /\ SF_browserVars(SettleByNonce) /\ WF_browserVars(Unresolved)
  /\ WF_browserVars(Confirm) /\ WF_browserVars(RecoveryEnds) /\ WF_browserVars(WalletTimeout)
  /\ WF_browserVars(Wallet) /\ WF_browserVars(Chain) /\ WF_browserVars(TimePasses)

MCSpec == MCInit /\ [][Next /\ InJourney /\ UNCHANGED journey]_<<browserVars, journey>>
MCLive == MCSpec /\ Fairness
=============================================================================
