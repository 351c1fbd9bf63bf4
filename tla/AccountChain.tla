---------------------------- MODULE AccountChain ----------------------------
(***************************************************************************)
(* External: the chain as the browser sees one account of it.  txs are the *)
(* account's transactions in the order they were signed; a hash is an      *)
(* index.  The calls all serve one intent, and the contract would execute  *)
(* each of them (a second offer, a second bid, a second reserve top-up).   *)
(***************************************************************************)
EXTENDS Naturals, Sequences, FiniteSets

CONSTANTS
  MaxSigned,     \* bound: transactions the wallet signs
  MaxAllowance   \* bound: the allowance an earlier purchase left behind

VARIABLES txs, height, allowance, token

chainVars == <<txs, height, allowance, token>>

-----------------------------------------------------------------------------
Hashes == DOMAIN txs
Pending == {h \in Hashes : txs[h].state = "pending"}
Mined == {h \in Hashes : txs[h].state \in {"success", "reverted"}}
Paid == {h \in Hashes : txs[h].kind = "call" /\ txs[h].state = "success"}

\* eth_getTransactionReceipt, eth_getTransactionByHash, eth_getTransactionCount.
Receipt(h) == h \in Mined
Known(h) == h \in Mined \cup Pending
LatestNonce == Cardinality(Mined)
PendingNonce == Cardinality(Mined \cup Pending)

\* An allowance in the manner of USDT: it is set from zero only.
Executes(kind, amount) ==
  IF kind = "call" THEN token => allowance >= amount ELSE amount = 0 \/ allowance = 0
AllowanceAfter(tx) ==
  IF tx.kind = "approval" THEN tx.amount ELSE IF token THEN allowance - tx.amount ELSE allowance

\* Logs of the account's own effects from a block on.
Effects(kind, fromBlock) ==
  {h \in Hashes : txs[h].kind = kind /\ txs[h].state = "success" /\ txs[h].block >= fromBlock}

ChainInit ==
  /\ txs = <<>> /\ height = 0
  /\ token \in BOOLEAN
  /\ allowance \in IF token THEN 0..MaxAllowance ELSE {0}

-----------------------------------------------------------------------------
Broadcast(kind, amount) ==
  /\ Len(txs) < MaxSigned
  /\ txs' = Append(txs, [kind |-> kind, amount |-> amount, state |-> "pending", block |-> 0])
  /\ UNCHANGED <<height, allowance, token>>

\* In nonce order.  A call may revert for reasons of the contract's own.
Mine ==
  /\ Pending # {}
  /\ LET h == CHOOSE h \in Pending : \A other \in Pending : h <= other IN
     \E state \in {"success", "reverted"} :
       /\ state = "success" => Executes(txs[h].kind, txs[h].amount)
       /\ txs' = [txs EXCEPT ![h].state = state, ![h].block = height + 1]
       /\ height' = height + 1
       /\ allowance' = IF state = "success" THEN AllowanceAfter(txs[h]) ELSE allowance
  /\ UNCHANGED token

\* The mempool gives up the newest transaction, for good.
Evicted ==
  /\ Pending # {}
  /\ LET h == CHOOSE h \in Pending : \A other \in Pending : h >= other IN
     txs' = [txs EXCEPT ![h].state = "dropped"]
  /\ UNCHANGED <<height, allowance, token>>
=============================================================================
