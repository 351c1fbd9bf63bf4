------------------------- MODULE GiftMoves_proofs ---------------------------
(***************************************************************************)
(* What can still move a gift's token, for every instance: the operator's  *)
(* transactions and the hashes rows and invocations hold of them           *)
(* (LedgerInv, of any behaviour), that the transfers of one card share one *)
(* nonce when reports arrive in time (MovesInv, of InTimeSpec), and that   *)
(* a live card's token is in escrow until such a transfer brings it where  *)
(* its row says (HeldInv, of HeldSpec).                                    *)
(***************************************************************************)
EXTENDS GiftEscrow_proofs

Sending == {"broadcast", "hash"}
Hashed == {"hash", "receipt", "release-final", "final"}
Settling == {"chain", "reopen", "reconcile", "apply"}
Pend == {"claim_pending", "cancel_pending"}
Unsent == {"absent", "pending_escrow", "active"}

\* The nonce of a mined transaction is used up, that of a pending one is not and
\* is its own.
NoncesUsed ==
  /\ \A i \in DOMAIN txs :
       /\ txs[i].state = "pending" => txs[i].nonce >= latest
       /\ txs[i].state \in {"success", "reverted"} => txs[i].nonce < latest
  /\ \A i, j \in DOMAIN txs :
       /\ txs[i].state = "pending" /\ txs[j].state = "pending"
       /\ txs[i].nonce = txs[j].nonce
       => i = j

\* h is the hash of a transfer of card c to the wallet w.
HashIs(c, h, w) == h \in DOMAIN txs /\ txs[h].gift = c /\ txs[h].to = w
Known(h) == h = NoHash \/ h \in DOMAIN txs

\* What a verdict that goes on to a row was concluded from, which stays true.
VerdictSound(p) ==
  LET h == HashOf(req[p].seen, req[p].op)
  IN  /\ req[p].verdict \in {"retry_same_nonce", "retry_fresh_nonce"} => h = NoHash
      /\ req[p].verdict = "retry_fresh_nonce" => req[p].seen.nonce < latest
      /\ req[p].verdict = "failed" =>
           h # NoHash /\ h \in DOMAIN txs /\ txs[h].state = "reverted"

\* What an invocation keeps of its own transfer.
CarriesOwn(p) ==
  /\ req[p].pc \in Early => req[p].start \in 1 .. clock
  /\ req[p].pc = "undo" => req[p].initial
  /\ req[p].pc \in Early /\ req[p].initial /\ req[p].op # "claim" =>
       req[p].seen.status \in {"pending_escrow", "active"}
  /\ req[p].pc \in {"record"} \cup Sending => req[p].nonce \in Nat
  /\ req[p].pc \in Hashed => HashIs(req[p].gift, req[p].hash, req[p].wallet)
  /\ req[p].pc = "hash" => txs[req[p].hash].nonce = req[p].nonce
  /\ req[p].pc \in Early \cup Sending \cup Hashed /\ req[p].op # "claim" =>
       req[p].wallet = SenderOf[req[p].gift]
  /\ req[p].pc = "retire" => req[p].seen.status # "claim_pending"
  /\ req[p].pc \in Settling => Known(HashOf(req[p].seen, req[p].op))
  /\ req[p].pc = "apply" => VerdictSound(p)

RowsKnow == \A c \in Cards : Known(card[c].claimHash) /\ Known(card[c].returnHash)

LedgerInv == NoncesUsed /\ RowsKnow /\ \A p \in Reqs : CarriesOwn(p)

-----------------------------------------------------------------------------
\* Nonce n of card c is out: a transfer under it is pending, or may be broadcast
\* and is not yet reported.
Out(c, n) ==
  \/ \E i \in DOMAIN txs : txs[i].gift = c /\ txs[i].state = "pending" /\ txs[i].nonce = n
  \/ n >= latest /\ \E p \in Reqs : /\ req[p].gift = c /\ req[p].pc \in Sending
                                    /\ req[p].nonce = n

\* What is out for a card has the nonce of its row, and the hashes in the row are
\* those of its own transfer; a card that may be taken has nothing out.
RowSound(c) ==
  /\ \A m, n \in Nat : Out(c, m) /\ Out(c, n) => m = n
  /\ card[c].status \in Pend => \A n \in Nat : Out(c, n) => n = card[c].nonce
  /\ card[c].status \in Unsent =>
       /\ card[c].nonce = NoNonce
       /\ card[c].claimHash = NoHash /\ card[c].returnHash = NoHash
       /\ \A n \in Nat : ~Out(c, n)
  /\ card[c].claimHash # NoHash =>
       /\ card[c].status \in {"claim_pending", "claimed"}
       /\ HashIs(c, card[c].claimHash, card[c].wallet)
       /\ card[c].status = "claim_pending" => txs[card[c].claimHash].nonce = card[c].nonce
  /\ card[c].returnHash # NoHash =>
       /\ card[c].status \in {"cancel_pending", "cancelled"}
       /\ HashIs(c, card[c].returnHash, SenderOf[c])
       /\ card[c].status = "cancel_pending" => txs[card[c].returnHash].nonce = card[c].nonce

\* The row is that of p's attempt, which has not recorded its nonce.
Mine(p) ==
  /\ req[p].pc \in Early
  /\ card[req[p].gift].status = PendingStatus(req[p].op)
  /\ card[req[p].gift].started = req[p].start

\* q sends a claim of card c under nonce n.
SendsClaim(q, c, n) ==
  req[q].pc \in Sending /\ req[q].op = "claim" /\ req[q].gift = c /\ req[q].nonce = n

\* An attempt goes to the wallet of its row, without a hash in it, and its nonce
\* is the row's unless that one is used up.
AttemptSound(p) ==
  LET c == req[p].gift
  IN  /\ HashOf(card[c], req[p].op) = NoHash
      /\ Destination(req[p].op, c, card[c]) = req[p].wallet
      /\ req[p].pc \in {"lease", "simulate"} => req[p].nonce \in {NoNonce, card[c].nonce}
      /\ req[p].nonce = card[c].nonce \/ card[c].nonce < latest
      /\ req[p].initial => card[c].nonce = NoNonce
      /\ req[p].pc = "record" /\ req[p].op = "claim" =>
           \A q \in Reqs : SendsClaim(q, c, req[p].nonce) => req[q].wallet = req[p].wallet

\* A claim sent under the nonce of its row goes to the wallet of its row.
SentSound(p) ==
  LET c == req[p].gift
  IN  SendsClaim(p, c, card[c].nonce) /\ card[c].status = "claim_pending" =>
        req[p].wallet = card[c].wallet

MovesSound ==
  /\ \A c \in Cards : RowSound(c)
  /\ \A p \in Reqs : (Mine(p) => AttemptSound(p)) /\ SentSound(p)

MovesInv == AttemptInv /\ RetireInv /\ LedgerInv /\ MovesSound

-----------------------------------------------------------------------------
\* How an invocation's fields and a row's hashes survive what the handlers do.

\* Moving on changes the program counter alone.
LEMMA GotoFields ==
  ASSUME TypeOK, NEW p \in Reqs, NEW s, Goto(p, s)
  PROVE  /\ req'[p].pc = s
         /\ req'[p].op = req[p].op /\ req'[p].gift = req[p].gift
         /\ req'[p].seen = req[p].seen /\ req'[p].wallet = req[p].wallet
         /\ req'[p].verdict = req[p].verdict /\ req'[p].start = req[p].start
         /\ req'[p].initial = req[p].initial /\ req'[p].nonce = req[p].nonce
         /\ req'[p].hash = req[p].hash
         /\ \A q \in Reqs \ {p} : req'[q] = req[q]
<1>1. req[p] \in Requests  BY Running
<1>2. req'[p] = [req[p] EXCEPT !.pc = s] /\ \A q \in Reqs \ {p} : req'[q] = req[q]
  BY DEF Goto, TypeOK
<1>. QED  BY <1>1, <1>2 DEF Requests

\* An answered invocation is idle.
LEMMA ReturnFields ==
  ASSUME TypeOK, NEW p \in Reqs, Return(p)
  PROVE  req'[p].pc = "idle" /\ \A q \in Reqs \ {p} : req'[q] = req[q]
BY DEF Return, Idle, TypeOK

\* A conditional update touches one row.
LEMMA UpdateFields ==
  ASSUME TypeOK, NEW c \in Cards, NEW guard, NEW row, Update(c, guard, row)
  PROVE  /\ \A d \in Cards \ {c} : card'[d] = card[d]
         /\ guard => card'[c] = row
         /\ ~guard => card'[c] = card[c]
BY DEF TypeOK, Update

\* The columns of the rows the handlers write when they clear or reopen a card.
LEMMA RowMarks ==
  ASSUME NEW row \in Rows
  PROVE  /\ Cleared(row) \in Rows
         /\ Cleared(row).claimHash = row.claimHash
         /\ Cleared(row).returnHash = row.returnHash
         /\ Cleared(row).nonce = NoNonce /\ Cleared(row).started = NoStart
         /\ Cleared(row).wallet = row.wallet
         /\ ReopenedClaim(row).claimHash = row.claimHash
         /\ ReopenedClaim(row).returnHash = row.returnHash
         /\ ReopenedClaim(row).nonce = NoNonce /\ ReopenedClaim(row).started = NoStart
         /\ \A s : /\ ReopenedReturn(row, s).claimHash = row.claimHash
                   /\ ReopenedReturn(row, s).returnHash = row.returnHash
                   /\ ReopenedReturn(row, s).nonce = NoNonce
                   /\ ReopenedReturn(row, s).started = NoStart
<1>1. Cleared(row) \in Rows  BY RowShapes
<1>. QED  BY <1>1 DEF Rows, Cleared, ReopenedClaim, ReopenedReturn

-----------------------------------------------------------------------------
\* The operator's transactions.

\* Transactions keep what they say, and a settled one its outcome.
TxsKept ==
  /\ latest' >= latest
  /\ \A i \in DOMAIN txs :
       /\ i \in DOMAIN txs'
       /\ txs'[i].gift = txs[i].gift /\ txs'[i].to = txs[i].to
       /\ txs'[i].nonce = txs[i].nonce
       /\ txs[i].state # "pending" => txs'[i].state = txs[i].state

\* Nothing new is out for card c.
OutShrinks(c) == \A n \in Nat : Out(c, n)' => Out(c, n)

\* What TypeOK says of the transactions.
LEMMA TxShapes ==
  ASSUME TypeOK
  PROVE  /\ DOMAIN txs = 1 .. Len(txs) /\ Len(txs) \in Nat /\ latest \in Nat
         /\ \A i \in DOMAIN txs : txs[i] \in Transactions /\ txs[i].nonce \in Nat
<1>1. txs \in Seq(Transactions) /\ latest \in Nat  BY DEF TypeOK
<1>2. DOMAIN txs = 1 .. Len(txs) /\ Len(txs) \in Nat  BY <1>1
<1>3. \A i \in DOMAIN txs : txs[i] \in Transactions  BY <1>1
<1>4. \A x \in Transactions : x.nonce \in Nat  BY DEF Transactions
<1>. QED  BY <1>1, <1>2, <1>3, <1>4

\* Without a step of the account everything stays as it is.
LEMMA TxsStill ==
  ASSUME TypeOK, LedgerInv, UNCHANGED <<txs, latest>>
  PROVE  TxsKept /\ NoncesUsed'
BY DEF TxsKept, LedgerInv, NoncesUsed, TypeOK

\* One transaction leaves the mempool, mined or dropped.
LEMMA TxSettles ==
  ASSUME TypeOK, LedgerInv, NEW i \in DOMAIN txs, txs[i].state = "pending",
         NEW s \in {"success", "reverted", "gone"},
         txs' = [txs EXCEPT ![i].state = s],
         \/ latest' = latest /\ s = "gone"
         \/ latest' = latest + 1 /\ txs[i].nonce = latest
  PROVE  /\ TxsKept /\ NoncesUsed'
         /\ \A j \in DOMAIN txs' : /\ j \in DOMAIN txs /\ txs'[j].gift = txs[j].gift
                                   /\ txs'[j].nonce = txs[j].nonce
                                   /\ txs'[j].state = "pending" => txs[j].state = "pending"
<1>1. /\ DOMAIN txs' = DOMAIN txs /\ latest \in Nat
      /\ \A j \in DOMAIN txs : txs[j] \in Transactions /\ txs[j].nonce \in Nat
  BY TxShapes
<1>2. txs'[i] = [txs[i] EXCEPT !.state = s] /\ \A j \in DOMAIN txs \ {i} : txs'[j] = txs[j]
  OBVIOUS
<1>3. /\ txs'[i].gift = txs[i].gift /\ txs'[i].to = txs[i].to
      /\ txs'[i].nonce = txs[i].nonce /\ txs'[i].state = s
  BY <1>1, <1>2 DEF Transactions
<1>4. TxsKept  BY <1>1, <1>2, <1>3 DEF TxsKept
<1>5. NoncesUsed'
  <2>1. ASSUME NEW j \in DOMAIN txs
        PROVE  /\ txs'[j].state = "pending" => txs'[j].nonce >= latest'
               /\ txs'[j].state \in {"success", "reverted"} => txs'[j].nonce < latest'
    <3>1. CASE j = i  BY <1>1, <1>3, <3>1
    <3>2. CASE j # i
      <4>1. txs'[j] = txs[j]  BY <1>2, <3>2
      <4>2. /\ txs[j].state = "pending" =>
                 txs[j].nonce >= latest /\ txs[j].nonce # txs[i].nonce
            /\ txs[j].state \in {"success", "reverted"} => txs[j].nonce < latest
        BY <3>2 DEF LedgerInv, NoncesUsed
      <4>. QED  BY <1>1, <4>1, <4>2
    <3>. QED  BY <3>1, <3>2
  <2>2. \A j, k \in DOMAIN txs :
          txs'[j].state = "pending" /\ txs'[k].state = "pending"
          /\ txs'[j].nonce = txs'[k].nonce => j = k
    BY <1>2, <1>3 DEF LedgerInv, NoncesUsed
  <2>. QED  BY <1>1, <2>1, <2>2 DEF NoncesUsed
<1>. QED  BY <1>1, <1>2, <1>3, <1>4, <1>5

\* The RPC accepts a transaction of a nonce not used up.
LEMMA TxAccepted ==
  ASSUME TypeOK, LedgerInv, NEW g, NEW to, NEW n \in Nat, n >= latest,
         Accept(g, to, n), UNCHANGED latest
  PROVE  /\ TxsKept /\ NoncesUsed'
         /\ DOMAIN txs' = DOMAIN txs \cup {Len(txs) + 1}
         /\ txs'[Len(txs) + 1] = [gift |-> g, to |-> to, nonce |-> n, state |-> "pending"]
         /\ Len(txs) + 1 \notin DOMAIN txs
         /\ \A j \in DOMAIN txs : /\ txs'[j].gift = txs[j].gift
                                  /\ txs'[j].nonce = txs[j].nonce
                                  /\ txs'[j].state = "pending" => txs[j].state = "pending"
<1>. DEFINE gone(i) == IF txs[i].nonce = n /\ txs[i].state = "pending"
                       THEN [txs[i] EXCEPT !.state = "gone"] ELSE txs[i]
            kept == [i \in DOMAIN txs |-> gone(i)]
            new == [gift |-> g, to |-> to, nonce |-> n, state |-> "pending"]
            len == Len(txs)
<1>1. /\ DOMAIN txs = 1 .. len /\ len \in Nat /\ latest \in Nat
      /\ \A j \in DOMAIN txs : txs[j] \in Transactions /\ txs[j].nonce \in Nat
  BY TxShapes
<1>2. \A j \in DOMAIN txs : gone(j) \in Transactions  BY <1>1 DEF Transactions
<1>3. kept \in Seq(Transactions) /\ Len(kept) = len /\ \A j \in 1 .. len : kept[j] = gone(j)
  <2>1. kept \in [1 .. len -> Transactions]  BY <1>1, <1>2
  <2>. QED  BY <1>1, <2>1
<1>4. txs' = Append(kept, new)  BY DEF Accept
<1>. HIDE DEF kept, new
<1>5. /\ DOMAIN txs' = 1 .. len + 1 /\ txs'[len + 1] = new
      /\ \A j \in 1 .. len : txs'[j] = kept[j]
  <2>1. kept \in Seq(Transactions \cup {new}) /\ new \in Transactions \cup {new}
    BY <1>3
  <2>2. /\ Len(Append(kept, new)) = len + 1 /\ Append(kept, new)[len + 1] = new
        /\ \A j \in 1 .. len : Append(kept, new)[j] = kept[j]
        /\ Append(kept, new) \in Seq(Transactions \cup {new})
    BY <1>1, <1>3, <2>1
  <2>3. DOMAIN Append(kept, new) = 1 .. Len(Append(kept, new))  BY <2>2
  <2>. QED  BY <1>4, <2>2, <2>3
<1>6. \A j \in DOMAIN txs :
        /\ j \in DOMAIN txs'
        /\ txs'[j].gift = txs[j].gift /\ txs'[j].to = txs[j].to
        /\ txs'[j].nonce = txs[j].nonce
        /\ txs[j].state # "pending" => txs'[j].state = txs[j].state
        /\ txs'[j].state \in {"pending", "success", "reverted"} =>
             txs'[j].state = txs[j].state /\ (txs'[j].state = "pending" => txs'[j].nonce # n)
  <2>. SUFFICES ASSUME NEW j \in DOMAIN txs
                PROVE  /\ j \in DOMAIN txs'
                       /\ gone(j).gift = txs[j].gift /\ gone(j).to = txs[j].to
                       /\ gone(j).nonce = txs[j].nonce
                       /\ txs[j].state # "pending" => gone(j).state = txs[j].state
                       /\ gone(j).state \in {"pending", "success", "reverted"} =>
                            /\ gone(j).state = txs[j].state
                            /\ gone(j).state = "pending" => gone(j).nonce # n
    BY <1>1, <1>3, <1>5
  <2>1. txs[j] \in Transactions /\ j \in DOMAIN txs'  BY <1>1, <1>5
  <2>. QED  BY <2>1 DEF Transactions
<1>7. new.nonce = n /\ new.state = "pending"  BY DEF new
<1>8. TxsKept  BY <1>1, <1>6 DEF TxsKept
<1>9. NoncesUsed'
  <2>1. ASSUME NEW j \in DOMAIN txs'
        PROVE  /\ txs'[j].state = "pending" => txs'[j].nonce >= latest'
               /\ txs'[j].state \in {"success", "reverted"} => txs'[j].nonce < latest'
    <3>1. CASE j = len + 1  BY <1>5, <1>7, <3>1
    <3>2. CASE j \in DOMAIN txs  BY <1>6, <3>2 DEF LedgerInv, NoncesUsed
    <3>. QED  BY <1>1, <1>5, <3>1, <3>2
  <2>2. ASSUME NEW j \in DOMAIN txs', NEW k \in DOMAIN txs',
               txs'[j].state = "pending", txs'[k].state = "pending",
               txs'[j].nonce = txs'[k].nonce
        PROVE  j = k
    <3>1. CASE j \in DOMAIN txs /\ k \in DOMAIN txs
      BY <1>6, <2>2, <3>1 DEF LedgerInv, NoncesUsed
    <3>2. CASE j = len + 1 /\ k \in DOMAIN txs  BY <1>5, <1>6, <1>7, <2>2, <3>2
    <3>3. CASE j \in DOMAIN txs /\ k = len + 1  BY <1>5, <1>6, <1>7, <2>2, <3>3
    <3>. QED  BY <1>1, <1>5, <3>1, <3>2, <3>3
  <2>. QED  BY <2>1, <2>2 DEF NoncesUsed
<1>10. DOMAIN txs' = DOMAIN txs \cup {len + 1} /\ len + 1 \notin DOMAIN txs
  BY <1>1, <1>5
<1>. QED  BY <1>5, <1>6, <1>8, <1>9, <1>10 DEF new

-----------------------------------------------------------------------------
\* LedgerInv.

\* Rows keep their hashes or lose them.
RowsForget ==
  \A c \in Cards : /\ card'[c].claimHash \in {card[c].claimHash, NoHash}
                   /\ card'[c].returnHash \in {card[c].returnHash, NoHash}

\* An invocation that stays as it is keeps what it knows.
LEMMA CarriesKept ==
  ASSUME TypeOK, LedgerInv, TxsKept, clock' >= clock, clock' \in Nat, latest' \in Nat,
         NEW q \in Reqs, req'[q] = req[q]
  PROVE  CarriesOwn(q)'
<1>1. CarriesOwn(q)  BY DEF LedgerInv
<1>2. \A h, w : HashIs(req[q].gift, h, w) => HashIs(req[q].gift, h, w)'
  BY DEF HashIs, TxsKept
<1>3. \A h : Known(h) => Known(h)'  BY DEF Known, TxsKept
<1>4. /\ clock \in Nat /\ latest \in Nat
      /\ req[q].seen.nonce \in Nat \cup {NoNonce}
  <2>1. req[q] \in Requests  BY Running
  <2>2. req[q].seen \in Rows  BY <2>1 DEF Requests
  <2>. QED  BY <2>2 DEF TypeOK, Rows
<1>5. VerdictSound(q) => VerdictSound(q)'
  BY <1>4 DEF VerdictSound, TxsKept, NoNonce
<1>6. req[q].pc = "hash" => txs'[req[q].hash].nonce = req[q].nonce
  BY <1>1 DEF CarriesOwn, Hashed, HashIs, TxsKept
<1>7. req[q].start \in 1 .. clock => req[q].start \in 1 .. clock'  BY <1>4
<1>8. req[q].pc \in Hashed => HashIs(req[q].gift, req[q].hash, req[q].wallet)'
  BY <1>1, <1>2 DEF CarriesOwn
<1>9. req[q].pc \in Settling => Known(HashOf(req[q].seen, req[q].op))'
  BY <1>1, <1>3 DEF CarriesOwn
<1>. QED  BY <1>1, <1>5, <1>6, <1>7, <1>8, <1>9 DEF CarriesOwn, HashIs, Known

\* The step of one invocation: what is left to show of it.
LEMMA LedgerFrame ==
  ASSUME TypeOK, TypeOK', LedgerInv, TxsKept, NoncesUsed', clock' >= clock,
         NEW p \in Reqs, \A q \in Reqs \ {p} : req'[q] = req[q],
         CarriesOwn(p)', RowsKnow'
  PROVE  LedgerInv'
<1>1. clock' \in Nat /\ latest' \in Nat  BY DEF TypeOK
<1>2. ASSUME NEW q \in Reqs  PROVE CarriesOwn(q)'
  BY <1>1, <1>2, CarriesKept
<1>. QED  BY <1>2 DEF LedgerInv

\* The step of no invocation.
LEMMA LedgerOutside ==
  ASSUME TypeOK, TypeOK', LedgerInv, TxsKept, NoncesUsed', clock' >= clock,
         UNCHANGED req, RowsForget
  PROVE  LedgerInv'
<1>1. clock' \in Nat /\ latest' \in Nat  BY DEF TypeOK
<1>2. ASSUME NEW q \in Reqs  PROVE CarriesOwn(q)'
  BY <1>1, <1>2, CarriesKept
<1>3. RowsKnow'  BY DEF LedgerInv, RowsKnow, RowsForget, Known, TxsKept
<1>. QED  BY <1>2, <1>3 DEF LedgerInv

\* Hashes that were known and are kept or lost stay known.
LEMMA ForgettingKnows ==
  ASSUME LedgerInv, TxsKept, RowsForget
  PROVE  RowsKnow'
BY DEF LedgerInv, RowsKnow, RowsForget, Known, TxsKept

\* Outside of these steps an invocation knows nothing that could become false.
Careful == Early \cup Sending \cup Hashed \cup Settling \cup {"retire"}
LEMMA ElsewhereCarries ==
  ASSUME NEW p \in Reqs, req'[p].pc \notin Careful
  PROVE  CarriesOwn(p)'
BY DEF CarriesOwn, Careful, Early, Sending, Hashed, Settling

\* An invocation that only moves on knows what it knew.
LEMMA GotoCarries ==
  ASSUME TypeOK, LedgerInv, UNCHANGED <<txs, latest>>, clock' >= clock, clock' \in Nat,
         NEW p \in Reqs, NEW s, Goto(p, s), s \notin Settling \cup {"hash"},
         s \in Early => req[p].pc \in Early,
         s = "undo" => req[p].initial,
         s \in {"record"} \cup Sending => req[p].pc \in {"record"} \cup Sending,
         s \in Hashed => req[p].pc \in Hashed,
         s \in Early \cup Sending \cup Hashed => req[p].pc \in Early \cup Sending \cup Hashed,
         s = "retire" => req[p].seen.status # "claim_pending"
  PROVE  CarriesOwn(p)'
<1>1. CarriesOwn(p) /\ clock \in Nat  BY DEF LedgerInv, TypeOK
<1>2. /\ req'[p].pc = s
      /\ req'[p].op = req[p].op /\ req'[p].gift = req[p].gift
      /\ req'[p].seen = req[p].seen /\ req'[p].wallet = req[p].wallet
      /\ req'[p].start = req[p].start /\ req'[p].initial = req[p].initial
      /\ req'[p].nonce = req[p].nonce /\ req'[p].hash = req[p].hash
  BY GotoFields
<1>3. s \in Early => req'[p].start \in 1 .. clock'
  BY <1>1, <1>2 DEF CarriesOwn
<1>4. s \in Hashed => HashIs(req[p].gift, req[p].hash, req[p].wallet)
  BY <1>1 DEF CarriesOwn
<1>5. s \notin Settling /\ s # "hash" /\ s # "apply"  BY DEF Settling
<1>6. s \in {"record"} \cup Sending => req[p].nonce \in Nat  BY <1>1 DEF CarriesOwn
<1>7. s \in Early \cup Sending \cup Hashed /\ req[p].op # "claim" =>
        req[p].wallet = SenderOf[req[p].gift]
  BY <1>1 DEF CarriesOwn
<1>8. s \in Hashed => HashIs(req[p].gift, req[p].hash, req[p].wallet)'
  BY <1>2, <1>4 DEF HashIs
<1>9. s \in Early /\ req[p].initial /\ req[p].op # "claim" =>
        req[p].seen.status \in {"pending_escrow", "active"}
  BY <1>1 DEF CarriesOwn
<1>. QED  BY <1>2, <1>3, <1>5, <1>6, <1>7, <1>8, <1>9 DEF CarriesOwn

\* An invocation that ends.
LEMMA LedgerReturn ==
  ASSUME TypeOK, TypeOK', LedgerInv, TxsKept, NoncesUsed', clock' >= clock,
         NEW p \in Reqs, Return(p), RowsForget
  PROVE  LedgerInv'
<1>1. req'[p].pc = "idle" /\ \A q \in Reqs \ {p} : req'[q] = req[q]  BY ReturnFields
<1>2. CarriesOwn(p)'
  BY <1>1, ElsewhereCarries DEF Careful, Early, Sending, Hashed, Settling
<1>3. RowsKnow'  BY ForgettingKnows
<1>. QED  BY <1>1, <1>2, <1>3, LedgerFrame

\* An invocation that goes where nothing is asked of it.
LEMMA LedgerElsewhere ==
  ASSUME TypeOK, TypeOK', LedgerInv, UNCHANGED <<txs, latest>>, clock' >= clock,
         NEW p \in Reqs, NEW s, Goto(p, s), s \notin Careful, RowsForget
  PROVE  LedgerInv'
<1>1. req'[p].pc = s /\ \A q \in Reqs \ {p} : req'[q] = req[q]  BY GotoFields
<1>2. CarriesOwn(p)'  BY <1>1, ElsewhereCarries
<1>3. TxsKept /\ NoncesUsed'  BY TxsStill
<1>4. RowsKnow'  BY <1>3, ForgettingKnows
<1>. QED  BY <1>1, <1>2, <1>3, <1>4, LedgerFrame

\* A conditional update with a row that has the hashes of the old one, or none.
LEMMA UpdateForgets ==
  ASSUME TypeOK, NEW c \in Cards, NEW guard, NEW row, Update(c, guard, row),
         guard => /\ row.claimHash \in {card[c].claimHash, NoHash}
                  /\ row.returnHash \in {card[c].returnHash, NoHash}
  PROVE  RowsForget
BY UpdateFields DEF RowsForget

\* The handlers of v1-gift-create know nothing of transfers.
LEMMA LedgerCreate ==
  ASSUME GiftConstants, TypeOK, TypeOK', LedgerInv, CreateNext
  PROVE  LedgerInv'
<1>. UNCHANGED <<txs, latest, clock>> /\ clock' >= clock
  <2>1. UNCHANGED <<txs, latest, clock>>
    BY DEF CreateNext, PrepareRepeat, PrepareRead, ResumeRead, ConfirmRead, PrepareSupersede,
           PrepareInsert, ConfirmProof, ConfirmActivate, ConfirmMailCheck, sendGiftInvitation,
           ResumeCustody, ResumeReissue, untouched
  <2>. QED  BY <2>1 DEF TypeOK
<1>0. TxsKept /\ NoncesUsed'  BY TxsStill
<1>1. UNCHANGED card => RowsForget  BY DEF RowsForget
<1>2. ASSUME NEW c \in Cards, PrepareRepeat(c)  PROVE LedgerInv'
  BY <1>0, <1>1, <1>2, LedgerOutside DEF PrepareRepeat
<1>3. ASSUME NEW p \in Reqs, NEW op, NEW c, NEW k,
             NEW s \in {"supersede", "custody", "mail", "proof"},
             Enter(p, op, c, s, k), UNCHANGED card
      PROVE  LedgerInv'
  <2>1. req'[p].pc = s /\ \A q \in Reqs \ {p} : req'[q] = req[q]
    BY <1>3 DEF Enter, Idle, TypeOK
  <2>2. CarriesOwn(p)'
    BY <2>1, ElsewhereCarries DEF Careful, Early, Sending, Hashed, Settling
  <2>3. RowsKnow'  BY <1>0, <1>1, <1>3, ForgettingKnows
  <2>. QED  BY <1>0, <2>1, <2>2, <2>3, LedgerFrame
<1>4. ASSUME NEW p \in Reqs, NEW c \in Cards, PrepareRead(p, c) \/ ResumeRead(p, c)
      PROVE  LedgerInv'
  BY <1>3, <1>4 DEF PrepareRead, ResumeRead
<1>5. ASSUME NEW p \in Reqs, NEW c \in Cards, NEW k \in 1 .. MaxCodes, ConfirmRead(p, c, k)
      PROVE  LedgerInv'
  BY <1>3, <1>5 DEF ConfirmRead
<1>6. ASSUME NEW p \in Reqs, NEW s \in {"insert", "activate", "mail", "send", "reissue"},
             Goto(p, s), RowsForget
      PROVE  LedgerInv'
  <2>1. s \notin Careful  BY DEF Careful, Early, Sending, Hashed, Settling
  <2>. QED  BY <1>6, <2>1, LedgerElsewhere
<1>7. ASSUME NEW p \in Reqs, Return(p), RowsForget  PROVE LedgerInv'
  BY <1>0, <1>7, LedgerReturn
<1>8. ASSUME NEW p \in Reqs, PrepareSupersede(p)  PROVE LedgerInv'
  <2>1. RowsForget
    BY <1>8 DEF PrepareSupersede, RowsForget, TypeOK, Rows
  <2>. QED  BY <1>6, <1>8, <2>1 DEF PrepareSupersede
<1>9. ASSUME NEW p \in Reqs, PrepareInsert(p)  PROVE LedgerInv'
  <2>. DEFINE c == req[p].gift
              row == [NoRow EXCEPT !.status = "pending_escrow", !.code = FirstCode]
  <2>1. row.claimHash = NoHash /\ row.returnHash = NoHash  BY DEF NoRow
  <2>2. c \in Cards  BY <1>9, Running DEF PrepareInsert, At
  <2>3. card' = card \/ card' = [card EXCEPT ![c] = row]  BY <1>9 DEF PrepareInsert
  <2>. HIDE DEF row
  <2>4. RowsForget  BY <2>1, <2>2, <2>3 DEF RowsForget, TypeOK
  <2>. QED  BY <1>7, <1>9, <2>4 DEF PrepareInsert
<1>10. ASSUME NEW p \in Reqs, ConfirmProof(p) \/ ConfirmMailCheck(p) \/ ResumeCustody(p)
       PROVE  LedgerInv'
  BY <1>1, <1>6, <1>7, <1>10 DEF ConfirmProof, ConfirmMailCheck, ResumeCustody
<1>11. ASSUME NEW p \in Reqs, sendGiftInvitation(p)  PROVE LedgerInv'
  BY <1>1, <1>7, <1>11 DEF sendGiftInvitation
<1>12. ASSUME NEW p \in Reqs, ConfirmActivate(p)  PROVE LedgerInv'
  <2>1. req[p].gift \in Cards /\ card[req[p].gift] \in Rows
    BY <1>12, Running DEF ConfirmActivate, At
  <2>2. /\ [card[req[p].gift] EXCEPT !.status = "active"].claimHash = card[req[p].gift].claimHash
        /\ [card[req[p].gift] EXCEPT !.status = "active"].returnHash = card[req[p].gift].returnHash
    BY <2>1 DEF Rows
  <2>3. RowsForget  BY <1>12, <2>1, <2>2, UpdateForgets DEF ConfirmActivate
  <2>. QED  BY <1>6, <1>7, <1>12, <2>3 DEF ConfirmActivate
<1>13. ASSUME NEW p \in Reqs, ResumeReissue(p)  PROVE LedgerInv'
  <2>1. req[p].gift \in Cards /\ card[req[p].gift] \in Rows
    BY <1>13, Running DEF ResumeReissue, At
  <2>2. /\ [card[req[p].gift] EXCEPT !.code = @ + 1].claimHash = card[req[p].gift].claimHash
        /\ [card[req[p].gift] EXCEPT !.code = @ + 1].returnHash = card[req[p].gift].returnHash
    BY <2>1 DEF Rows
  <2>3. RowsForget  BY <1>13, <2>1, <2>2, UpdateForgets DEF ResumeReissue
  <2>. QED  BY <1>7, <1>13, <2>3 DEF ResumeReissue
<1>. QED  BY <1>2, <1>4, <1>5, <1>8, <1>9, <1>10, <1>11, <1>12, <1>13 DEF CreateNext

\* The environment: mined, dropped and foreign transactions, and everything that
\* does not concern the operator account.
LEMMA LedgerEnvironment ==
  ASSUME GiftConstants, TypeOK, TypeOK', LedgerInv, Environment
  PROVE  LedgerInv'
<1>1. UNCHANGED <<card, clock>> /\ clock' >= clock
  <2>1. UNCHANGED <<card, clock>>
    BY DEF Environment, MineNext, DropTx, OtherWriterSends, LeaseExpires, Crash, ToggleLock,
           RevokeApproval, HolderMoves, Expire, WalletSendsDeposit, DepositMined
  <2>. QED  BY <2>1 DEF TypeOK
<1>2. RowsForget  BY <1>1 DEF RowsForget
<1>3. CASE MineNext
  <2>1. PICK i \in DOMAIN txs, s \in {"success", "reverted"} :
          /\ txs[i].state = "pending" /\ txs[i].nonce = latest
          /\ txs' = [txs EXCEPT ![i].state = s] /\ latest' = latest + 1
    BY <1>3 DEF MineNext
  <2>2. TxsKept /\ NoncesUsed'  BY <2>1, TxSettles
  <2>. QED  BY <1>1, <1>2, <1>3, <2>2, LedgerOutside DEF MineNext
<1>4. CASE DropTx
  <2>1. TxsKept /\ NoncesUsed'  BY <1>4, TxSettles DEF DropTx
  <2>. QED  BY <1>1, <1>2, <1>4, <2>1, LedgerOutside DEF DropTx
<1>5. CASE OtherWriterSends
  <2>1. PICK n \in latest .. latest + Len(txs) : Accept(Other, Escrow, n)
    BY <1>5 DEF OtherWriterSends
  <2>2. n \in Nat /\ n >= latest  BY <2>1, CountIsNat DEF TypeOK
  <2>3. TxsKept /\ NoncesUsed'  BY <1>5, <2>1, <2>2, TxAccepted DEF OtherWriterSends
  <2>. QED  BY <1>1, <1>2, <1>5, <2>3, LedgerOutside DEF OtherWriterSends
<1>6. ASSUME NEW p \in Reqs, Crash(p)  PROVE LedgerInv'
  <2>1. TxsKept /\ NoncesUsed'  BY <1>6, TxsStill DEF Crash
  <2>. QED  BY <1>1, <1>2, <1>6, <2>1, LedgerReturn DEF Crash, ReturnKeepingLease
<1>7. CASE UNCHANGED <<req, txs, latest>>
  BY <1>1, <1>2, <1>7, TxsStill, LedgerOutside
<1>. QED
  BY <1>3, <1>4, <1>5, <1>6, <1>7 DEF Environment, LeaseExpires, ToggleLock, RevokeApproval,
     HolderMoves, Expire, WalletSendsDeposit, DepositMined

\* What the decision table concludes, and from what.
LEMMA VerdictsFollow ==
  ASSUME NEW t
  PROVE  LET v == reconcileGiftTransfer(t)
         IN  /\ v \in {"retry_same_nonce", "retry_fresh_nonce"} => t.hash = NoHash /\ t.nonce # NoNonce
             /\ v = "retry_fresh_nonce" => t.latest # NoNonce /\ t.latest > t.nonce
             /\ v = "failed" => t.hash # NoHash /\ t.receipt = "reverted"
BY DEF reconcileGiftTransfer

\* What an invocation that reconciles puts into the table, and does with the answer.
Concludes(p, t) ==
  LET c == req[p].gift
      seen == req[p].seen
  IN  /\ t.owner = req[p].holder /\ t.destination = Destination(req[p].op, c, seen)
      /\ t.hash = HashOf(seen, req[p].op) /\ t.nonce = seen.nonce
      /\ t.latest \in {latest, NoNonce} /\ Receipt(t.hash, t.receipt)
      /\ req' = [req EXCEPT ![p] = [@ EXCEPT !.pc = "apply",
                                      !.verdict = reconcileGiftTransfer(t)]]

LEMMA ReconcileReads ==
  ASSUME NEW p \in Reqs, Reconcile(p), ~Return(p)
  PROVE  \E t : Concludes(p, t)
<1>. DEFINE c == req[p].gift
            seen == req[p].seen
            h == HashOf(seen, req[p].op)
<1>1. PICK r \in {"none", "success", "reverted"}, elapsed \in Ages,
           n \in latest .. latest + Len(txs) :
        /\ Receipt(h, r)
        /\ LET dest == Destination(req[p].op, c, seen)
               counts == h = NoHash /\ seen.nonce # NoNonce
               v == reconcileGiftTransfer(
                      [owner |-> req[p].holder, destination |-> dest,
                       hash |-> h, receipt |-> r,
                       matches |-> r = "success" /\ txs[h].to = dest,
                       nonce |-> seen.nonce,
                       pending |-> IF counts THEN n ELSE NoNonce,
                       latest |-> IF counts THEN latest ELSE NoNonce,
                       age |-> pendingOperationAge(seen.started, elapsed)])
           IN  IF v = "pending" THEN Return(p)
               ELSE req' = [req EXCEPT ![p] = [@ EXCEPT !.pc = "apply", !.verdict = v]]
  BY ZenonT(60) DEF Reconcile
<1>. DEFINE dest == Destination(req[p].op, c, seen)
            counts == h = NoHash /\ seen.nonce # NoNonce
            count == IF counts THEN n ELSE NoNonce
            k == IF counts THEN latest ELSE NoNonce
            matches == r = "success" /\ txs[h].to = dest
<1>2. PICK t : t = [owner |-> req[p].holder, destination |-> dest,
                    hash |-> h, receipt |-> r, matches |-> matches,
                    nonce |-> seen.nonce, pending |-> count, latest |-> k,
                    age |-> pendingOperationAge(seen.started, elapsed)]
  OBVIOUS
<1>3. /\ t.owner = req[p].holder /\ t.destination = dest
      /\ t.hash = h /\ t.nonce = seen.nonce /\ t.latest = k /\ t.receipt = r
  BY <1>2
<1>4. req' = [req EXCEPT ![p] = [@ EXCEPT !.pc = "apply",
                                   !.verdict = reconcileGiftTransfer(t)]]
  BY <1>1, <1>2
<1>. QED  BY <1>1, <1>3, <1>4 DEF Concludes

\* Reading the row, the chain, the receipt and the nonces.
LEMMA LedgerRead ==
  ASSUME GiftConstants, TypeOK, TypeOK', LedgerInv, NEW p \in Reqs,
         ClaimBegins(p) \/ CancelBegins(p) \/ ReadChain(p) \/ Reconcile(p)
  PROVE  LedgerInv'
<1>0. UNCHANGED <<card, txs, latest, clock>> /\ clock' >= clock
  <2>1. UNCHANGED <<card, txs, latest, clock>>
    BY DEF ClaimBegins, ClaimRead, CancelBegins, CancelRead, ReadChain, Reconcile, ledgerOnly
  <2>. QED  BY <2>1 DEF TypeOK
<1>1. TxsKept /\ NoncesUsed' /\ RowsForget  BY <1>0, TxsStill DEF RowsForget
<1>2. RowsKnow'  BY <1>1, ForgettingKnows
<1>3. \A h : Known(h)' <=> Known(h)  BY <1>0 DEF Known
<1>4. \A op : \A c \in Cards : Known(HashOf(card[c], op))
  BY DEF LedgerInv, RowsKnow, HashOf
<1>5. ASSUME \A q \in Reqs \ {p} : req'[q] = req[q], CarriesOwn(p)'  PROVE LedgerInv'
  BY <1>0, <1>1, <1>2, <1>5, LedgerFrame
<1>6. ASSUME NEW c \in Cards, NEW w \in Users \cup {None}, ClaimRead(p, c, w)
      PROVE  LedgerInv'
  <2>1. /\ req'[p].pc = "chain" /\ req'[p].op = "claim" /\ req'[p].seen = card[c]
        /\ \A q \in Reqs \ {p} : req'[q] = req[q]
    BY <1>6 DEF ClaimRead, TypeOK, Idle
  <2>2. Known(HashOf(req'[p].seen, req'[p].op))  BY <1>4, <2>1
  <2>3. CarriesOwn(p)'
    BY <1>0, <2>1, <2>2 DEF CarriesOwn, Early, Sending, Hashed, Known
  <2>. QED  BY <1>5, <2>1, <2>3
<1>7. ASSUME NEW c \in Cards, CancelRead(p, c)  PROVE LedgerInv'
  <2>1. /\ req'[p].op = "cancel" /\ req'[p].seen = card[c]
        /\ req'[p].pc = IF card[c].status = "claim_pending" THEN "reopen"
                        ELSE IF Escrowed(c) THEN "chain" ELSE "retire"
        /\ \A q \in Reqs \ {p} : req'[q] = req[q]
    BY <1>7 DEF CancelRead, TypeOK, Idle
  <2>2. /\ req'[p].pc \in {"reopen", "chain", "retire"}
        /\ req'[p].pc = "retire" => req'[p].seen.status # "claim_pending"
    BY <2>1
  <2>3. Known(HashOf(req'[p].seen, req'[p].op))  BY <1>4, <2>1
  <2>4. CarriesOwn(p)'
    BY <1>0, <2>2, <2>3 DEF CarriesOwn, Early, Sending, Hashed, Known
  <2>. QED  BY <1>5, <2>1, <2>4
<1>8. CASE ReadChain(p)
  <2>1. req[p] \in Requests /\ req[p].pc = "chain"  BY <1>8, Running DEF ReadChain
  <2>2. PICK s \in {"reconcile", "take"} : \E h, l, a :
          req' = [req EXCEPT ![p] = [req[p] EXCEPT !.holder = h, !.locked = l,
                                                   !.approved = a, !.pc = s]]
    BY <1>8 DEF ReadChain
  <2>3. /\ req'[p].pc = s /\ req'[p].op = req[p].op /\ req'[p].seen = req[p].seen
        /\ \A q \in Reqs \ {p} : req'[q] = req[q]
    <3>0. PICK h, l, a :
            req' = [req EXCEPT ![p] = [req[p] EXCEPT !.holder = h, !.locked = l,
                                                     !.approved = a, !.pc = s]]
      BY <2>2
    <3>1. req'[p] = [req[p] EXCEPT !.holder = h, !.locked = l, !.approved = a, !.pc = s]
          /\ \A q \in Reqs \ {p} : req'[q] = req[q]
      BY <3>0 DEF TypeOK
    <3>. QED  BY <2>1, <3>1 DEF Requests
  <2>4. Known(HashOf(req[p].seen, req[p].op))
    BY <2>1 DEF LedgerInv, CarriesOwn, Settling
  <2>5. CarriesOwn(p)'
    BY <1>0, <2>3, <2>4 DEF CarriesOwn, Early, Sending, Hashed, Known
  <2>. QED  BY <1>5, <2>3, <2>5
<1>9. CASE Reconcile(p)
  <2>. DEFINE c == req[p].gift
              seen == req[p].seen
              h == HashOf(seen, req[p].op)
  <2>1. CASE Return(p)  BY <1>0, <1>1, <2>1, LedgerReturn
  <2>2. ASSUME ~Return(p)  PROVE LedgerInv'
    <3>1. PICK t : Concludes(p, t)  BY <1>9, <2>2, ReconcileReads
    <3>. DEFINE v == reconcileGiftTransfer(t)
    <3>2. /\ v \in {"retry_same_nonce", "retry_fresh_nonce"} => h = NoHash
          /\ v = "retry_fresh_nonce" => t.latest # NoNonce /\ t.latest > seen.nonce
          /\ v = "failed" => h # NoHash /\ t.receipt = "reverted"
      BY <3>1, VerdictsFollow DEF Concludes
    <3>. HIDE DEF v
    <3>3. req[p] \in Requests /\ req[p].pc = "reconcile"  BY <1>9, Running DEF Reconcile
    <3>4. /\ req'[p].pc = "apply" /\ req'[p].verdict = v
          /\ req'[p].op = req[p].op /\ req'[p].seen = seen
          /\ \A q \in Reqs \ {p} : req'[q] = req[q]
      <4>1. req' = [req EXCEPT ![p] = [req[p] EXCEPT !.pc = "apply", !.verdict = v]]
        BY <3>1 DEF v, Concludes
      <4>2. req'[p] = [req[p] EXCEPT !.pc = "apply", !.verdict = v]
            /\ \A q \in Reqs \ {p} : req'[q] = req[q]
        BY <4>1 DEF TypeOK
      <4>. QED  BY <3>3, <4>2 DEF Requests
    <3>5. Known(h)  BY <3>3 DEF LedgerInv, CarriesOwn, Settling
    <3>6. v = "failed" => h # NoHash /\ h \in DOMAIN txs /\ txs[h].state = "reverted"
      BY <3>1, <3>2, <3>5 DEF Known, Receipt, Concludes
    <3>7. VerdictSound(p)'
      BY <1>0, <3>1, <3>2, <3>4, <3>6 DEF VerdictSound, Concludes
    <3>8. CarriesOwn(p)'
      BY <1>0, <3>4, <3>5, <3>7 DEF CarriesOwn, Early, Sending, Hashed, Known
    <3>. QED  BY <1>5, <3>4, <3>8
  <2>. QED  BY <2>1, <2>2
<1>. QED  BY <1>6, <1>7, <1>8, <1>9 DEF ClaimBegins, CancelBegins

\* A new attempt: its own start, its row's destination.
LEMMA LedgerBegin ==
  ASSUME TypeOK, TypeOK', LedgerInv, UNCHANGED <<txs, latest>>, clock' = clock + 1,
         NEW p \in Reqs, RowsForget,
         req'[p].pc = "lease", req'[p].start = clock',
         req'[p].op # "claim" => req'[p].wallet = SenderOf[req'[p].gift],
         req'[p].op # "claim" /\ req'[p].initial =>
           req'[p].seen.status \in {"pending_escrow", "active"},
         \A q \in Reqs \ {p} : req'[q] = req[q]
  PROVE  LedgerInv'
<1>1. clock \in Nat /\ clock' \in Nat /\ clock' >= clock  BY DEF TypeOK
<1>2. CarriesOwn(p)'
  BY <1>1 DEF CarriesOwn, Early, Sending, Hashed, Settling
<1>3. TxsKept /\ NoncesUsed'  BY TxsStill
<1>4. RowsKnow'  BY <1>3, ForgettingKnows
<1>. QED  BY <1>1, <1>2, <1>3, <1>4, LedgerFrame

\* Settling what an earlier invocation left behind.
LEMMA LedgerSettle ==
  ASSUME GiftConstants, TypeOK, TypeOK', LedgerInv, NEW p \in Reqs,
         \/ ApplyComplete(p) \/ ApplyFailed(p) \/ ApplyRetry(p)
         \/ ResetClaim(p) \/ ResetReturn(p) \/ CancelReopen(p)
  PROVE  LedgerInv'
<1>. DEFINE c == req[p].gift
            seen == req[p].seen
            open == IF seen.from = None THEN "active" ELSE seen.from
<1>0. /\ UNCHANGED <<txs, latest>> /\ clock' >= clock
      /\ req[p] \in Requests /\ c \in Cards /\ card[c] \in Rows /\ seen \in Rows
  <2>1. UNCHANGED <<txs, latest>>
    BY DEF ApplyComplete, ApplyFailed, ApplyRetry, ResetClaim, ResetReturn, CancelReopen,
           ledgerOnly
  <2>2. clock' \in {clock, clock + 1}
    BY DEF ApplyComplete, ApplyFailed, ApplyRetry, ResetClaim, ResetReturn, CancelReopen,
           FreshStart, NextStart
  <2>3. req[p] \in Requests /\ c \in Cards /\ card[c] \in Rows
    BY Running DEF ApplyComplete, ApplyFailed, ApplyRetry, ResetClaim, ResetReturn,
                   CancelReopen, At
  <2>. QED  BY <2>1, <2>2, <2>3 DEF TypeOK, Requests
<1>1. TxsKept /\ NoncesUsed'  BY <1>0, TxsStill
<1>2. ASSUME NEW guard, NEW row, Update(c, guard, row),
             row.claimHash \in {card[c].claimHash, NoHash},
             row.returnHash \in {card[c].returnHash, NoHash}
      PROVE  RowsForget
  BY <1>0, <1>2, UpdateForgets
<1>3. ASSUME Return(p), RowsForget  PROVE LedgerInv'
  BY <1>0, <1>1, <1>3, LedgerReturn
<1>4. ASSUME Goto(p, "take"), RowsForget  PROVE LedgerInv'
  <2>1. "take" \notin Careful  BY DEF Careful, Early, Sending, Hashed, Settling
  <2>. QED  BY <1>0, <1>4, <2>1, LedgerElsewhere
<1>5. CASE ApplyComplete(p)
  <2>1. PICK from : Update(c, card[c].status = PendingStatus(req[p].op),
                     [Cleared(card[c]) EXCEPT !.status = FinalStatus(req[p].op), !.from = from])
    BY <1>5 DEF ApplyComplete, Cleared
  <2>2. Cleared(card[c]) \in Rows  BY <1>0, RowMarks
  <2>3. LET row == [Cleared(card[c]) EXCEPT !.status = FinalStatus(req[p].op), !.from = from]
        IN  row.claimHash = card[c].claimHash /\ row.returnHash = card[c].returnHash
    BY <1>0, <2>2, RowMarks DEF Rows
  <2>4. RowsForget  BY <1>2, <2>1, <2>3
  <2>. QED  BY <1>3, <1>5, <2>4 DEF ApplyComplete
<1>6. CASE ApplyFailed(p)
  <2>1. /\ ReopenedClaim(card[c]) \in Rows /\ ReopenedReturn(card[c], open) \in Rows
        /\ ReopenedClaim(card[c]).returnHash = card[c].returnHash
        /\ ReopenedReturn(card[c], open).claimHash = card[c].claimHash
    <3>1. open \in CardStatus  BY <1>0 DEF Rows, CardStatus, OpenStatus
    <3>. QED  BY <1>0, <3>1, RowShapes, RowMarks
  <2>2. /\ [ReopenedClaim(card[c]) EXCEPT !.claimHash = NoHash].claimHash = NoHash
        /\ [ReopenedClaim(card[c]) EXCEPT !.claimHash = NoHash].returnHash = card[c].returnHash
        /\ [ReopenedReturn(card[c], open) EXCEPT !.returnHash = NoHash].returnHash = NoHash
        /\ [ReopenedReturn(card[c], open) EXCEPT !.returnHash = NoHash].claimHash = card[c].claimHash
    BY <2>1 DEF Rows
  <2>3. RowsForget  BY <1>2, <1>6, <2>2 DEF ApplyFailed
  <2>. QED  BY <1>3, <1>6, <2>3 DEF ApplyFailed
<1>7. CASE ResetClaim(p)
  <2>1. RowsForget  BY <1>0, <1>2, <1>7, RowMarks DEF ResetClaim
  <2>. QED  BY <1>3, <1>4, <1>7, <2>1 DEF ResetClaim
<1>8. ASSUME RowsForget, NEW row \in Rows, NEW s \in {"take", "chain", "retire"},
             req' = [req EXCEPT ![p] = [req[p] EXCEPT !.seen = row, !.pc = s]],
             row.status # "claim_pending", row.returnHash = seen.returnHash,
             req[p].op = "cancel", req[p].pc \in Settling
      PROVE  LedgerInv'
  <2>1. /\ req'[p].pc = s /\ req'[p].seen = row /\ req'[p].op = "cancel"
        /\ \A q \in Reqs \ {p} : req'[q] = req[q]
    <3>1. req'[p] = [req[p] EXCEPT !.seen = row, !.pc = s]
          /\ \A q \in Reqs \ {p} : req'[q] = req[q]
      BY <1>8 DEF TypeOK
    <3>2. req[p].op = "cancel"  BY <1>8
    <3>3. /\ req'[p].pc = s /\ req'[p].seen = row /\ req'[p].op = req[p].op
      BY <1>0, <3>1 DEF Requests
    <3>. QED  BY <3>1, <3>2, <3>3
  <2>2. Known(seen.returnHash)
    BY <1>8 DEF LedgerInv, CarriesOwn, HashOf
  <2>3. \A h : Known(h)' <=> Known(h)  BY <1>0 DEF Known
  <2>4. CarriesOwn(p)'
    BY <1>8, <2>1, <2>2, <2>3 DEF CarriesOwn, Early, Sending, Hashed, HashOf, Known
  <2>5. RowsKnow'  BY <1>1, <1>8, ForgettingKnows
  <2>. QED  BY <1>0, <1>1, <2>1, <2>4, <2>5, LedgerFrame
<1>9. CASE ResetReturn(p)
  <2>1. RowsForget  BY <1>0, <1>2, <1>9, RowMarks DEF ResetReturn
  <2>2. ReopenedReturn(seen, open).returnHash = seen.returnHash
    BY <1>0, RowMarks
  <2>3. /\ ReopenedReturn(seen, open) \in Rows
        /\ ReopenedReturn(seen, open).status # "claim_pending"
    <3>1. Cleared(seen) \in Rows  BY <1>0, RowMarks
    <3>2. open \in {"pending_escrow", "active"} /\ open \in CardStatus
      BY <1>0 DEF Rows, CardStatus, OpenStatus
    <3>3. ReopenedReturn(seen, open).status = open
      BY <3>1 DEF Rows, ReopenedReturn
    <3>. QED  BY <1>0, <3>2, <3>3, RowShapes
  <2>4. req[p].op = "cancel" /\ req[p].pc \in Settling
    BY <1>9 DEF ResetReturn, At, Settling
  <2>5. \/ Return(p)
        \/ req' = [req EXCEPT ![p] = [req[p] EXCEPT !.seen = ReopenedReturn(seen, open),
                                                   !.pc = "take"]]
    BY <1>9 DEF ResetReturn
  <2>. QED  BY <1>3, <1>8, <2>1, <2>2, <2>3, <2>4, <2>5
<1>10. CASE CancelReopen(p)
  <2>1. RowsForget  BY <1>0, <1>2, <1>10, RowMarks DEF CancelReopen
  <2>2. LET row == [Cleared(seen) EXCEPT !.status = "active"]
        IN  row \in Rows /\ row.returnHash = seen.returnHash /\ row.status # "claim_pending"
    <3>0. "active" \in CardStatus  BY DEF CardStatus, OpenStatus
    <3>1. Cleared(seen) \in Rows /\ Cleared(seen).returnHash = seen.returnHash
      BY <1>0, RowMarks
    <3>. QED  BY <3>0, <3>1 DEF Rows
  <2>3. req[p].op = "cancel" /\ req[p].pc \in Settling
    BY <1>10 DEF CancelReopen, At, Settling
  <2>4. \/ Return(p)
        \/ \E s \in {"chain", "retire"} :
             req' = [req EXCEPT ![p] = [req[p] EXCEPT
                       !.seen = [Cleared(seen) EXCEPT !.status = "active"], !.pc = s]]
    BY <1>10 DEF CancelReopen
  <2>. QED  BY <1>3, <1>8, <2>1, <2>2, <2>3, <2>4
<1>11. CASE ApplyRetry(p)
  <2>. DEFINE op == req[p].op
              w == Destination(op, c, seen)
              n == IF req[p].verdict = "retry_same_nonce" THEN seen.nonce ELSE NoNonce
  <2>1. CASE Return(p) /\ UNCHANGED card
    BY <1>3, <2>1 DEF RowsForget
  <2>2. CASE /\ clock' = clock + 1
             /\ card' = [card EXCEPT ![c].started = clock']
             /\ req' = [req EXCEPT ![p] = [Idle EXCEPT !.op = op, !.gift = c,
                          !.pc = "lease", !.start = clock', !.wallet = w, !.nonce = n]]
    <3>1. RowsForget  BY <1>0, <2>2 DEF RowsForget, TypeOK, Rows
    <3>. HIDE DEF n
    <3>2. /\ req'[p].pc = "lease" /\ req'[p].start = clock' /\ req'[p].op = op
          /\ req'[p].wallet = w /\ req'[p].gift = c /\ ~req'[p].initial
          /\ \A q \in Reqs \ {p} : req'[q] = req[q]
      BY <2>2 DEF Idle, TypeOK
    <3>3. op # "claim" => w = SenderOf[c]  BY DEF Destination
    <3>. QED  BY <1>0, <2>2, <3>1, <3>2, <3>3, LedgerBegin
  <2>. QED  BY <1>11, <2>1, <2>2 DEF ApplyRetry, FreshStart, NextStart
<1>. QED  BY <1>5, <1>6, <1>7, <1>9, <1>10, <1>11

\* Taking a card into the invocation's own pending status, or retiring it.
LEMMA LedgerTake ==
  ASSUME GiftConstants, TypeOK, TypeOK', LedgerInv, NEW p \in Reqs,
         TakeClaim(p) \/ TakeReturn(p) \/ CancelLegacy(p) \/ CancelRetire(p)
  PROVE  LedgerInv'
<1>. DEFINE c == req[p].gift
            seen == req[p].seen
<1>0. /\ UNCHANGED <<txs, latest>> /\ clock' >= clock
      /\ req[p] \in Requests /\ c \in Cards /\ card[c] \in Rows
  <2>1. UNCHANGED <<txs, latest>>
    BY DEF TakeClaim, TakeReturn, CancelLegacy, CancelRetire, ledgerOnly
  <2>2. clock' \in {clock, clock + 1}
    BY DEF TakeClaim, TakeReturn, CancelLegacy, CancelRetire, FreshStart, NextStart
  <2>3. req[p] \in Requests /\ c \in Cards /\ card[c] \in Rows
    BY Running DEF TakeClaim, TakeReturn, CancelLegacy, CancelRetire, At
  <2>. QED  BY <2>1, <2>2, <2>3 DEF TypeOK
<1>1. TxsKept /\ NoncesUsed'  BY <1>0, TxsStill
<1>2. ASSUME NEW row, card' = [card EXCEPT ![c] = row],
             row.claimHash \in {card[c].claimHash, NoHash},
             row.returnHash \in {card[c].returnHash, NoHash}
      PROVE  RowsForget
  BY <1>0, <1>2 DEF RowsForget, TypeOK
<1>3. ASSUME Return(p), RowsForget  PROVE LedgerInv'
  BY <1>0, <1>1, <1>3, LedgerReturn
<1>4. CASE TakeClaim(p)
  <2>1. CASE Return(p) /\ UNCHANGED card  BY <1>3, <2>1 DEF RowsForget
  <2>2. CASE /\ clock' = clock + 1
             /\ card' = [card EXCEPT ![c] = [@ EXCEPT !.status = "claim_pending",
                           !.wallet = req[p].wallet, !.started = clock']]
             /\ req' = [req EXCEPT ![p] = [Idle EXCEPT !.op = "claim", !.gift = c,
                          !.pc = "lease", !.start = clock', !.initial = TRUE,
                          !.wallet = req[p].wallet]]
    <3>1. RowsForget  BY <1>0, <2>2 DEF RowsForget, TypeOK, Rows
    <3>2. /\ req'[p].pc = "lease" /\ req'[p].start = clock' /\ req'[p].op = "claim"
          /\ \A q \in Reqs \ {p} : req'[q] = req[q]
      BY <2>2 DEF Idle, TypeOK
    <3>. QED  BY <1>0, <2>2, <3>1, <3>2, LedgerBegin
  <2>. QED  BY <1>4, <2>1, <2>2 DEF TakeClaim, FreshStart, NextStart
<1>5. CASE TakeReturn(p)
  <2>1. CASE Return(p) /\ UNCHANGED card  BY <1>3, <2>1 DEF RowsForget
  <2>2. CASE /\ clock' = clock + 1
             /\ card' = [card EXCEPT ![c] = [@ EXCEPT !.status = "cancel_pending",
                           !.from = seen.status, !.started = clock']]
             /\ req' = [req EXCEPT ![p] = [Idle EXCEPT !.op = "cancel", !.gift = c,
                          !.pc = "lease", !.start = clock', !.initial = TRUE,
                          !.wallet = SenderOf[c], !.seen.status = seen.status]]
    <3>1. RowsForget  BY <1>0, <2>2 DEF RowsForget, TypeOK, Rows
    <3>2. /\ req'[p].pc = "lease" /\ req'[p].start = clock' /\ req'[p].gift = c
          /\ req'[p].wallet = SenderOf[c] /\ req'[p].seen.status = seen.status
          /\ \A q \in Reqs \ {p} : req'[q] = req[q]
      BY <2>2 DEF Idle, NoRow, TypeOK
    <3>3. seen.status \in {"pending_escrow", "active"}
      BY <1>5 DEF TakeReturn, At, TypeOK, Invocations
    <3>. QED  BY <1>0, <2>2, <3>1, <3>2, <3>3, LedgerBegin
  <2>3. CASE /\ card' = [card EXCEPT ![c] = [@ EXCEPT !.status = "cancelled",
                           !.from = None, !.started = NoStart]]
             /\ Goto(p, "retire") /\ UNCHANGED clock
    <3>1. RowsForget  BY <1>0, <2>3 DEF RowsForget, TypeOK, Rows
    <3>2. seen.status # "claim_pending"
      BY <1>5 DEF TakeReturn, At, TypeOK, Invocations
    <3>3. "retire" \notin Settling \cup {"hash", "undo", "record"} \cup Early \cup Sending \cup Hashed
      BY DEF Settling, Early, Sending, Hashed
    <3>4. clock' \in Nat  BY DEF TypeOK
    <3>5. CarriesOwn(p)'  BY <1>0, <2>3, <3>2, <3>3, <3>4, GotoCarries
    <3>6. \A q \in Reqs \ {p} : req'[q] = req[q]  BY <2>3, GotoFields
    <3>7. RowsKnow'  BY <1>1, <3>1, ForgettingKnows
    <3>. QED  BY <1>0, <1>1, <3>5, <3>6, <3>7, LedgerFrame
  <2>. QED  BY <1>5, <2>1, <2>2, <2>3 DEF TakeReturn, FreshStart, NextStart
<1>6. CASE CancelLegacy(p)
  <2>1. LET row == [card[c] EXCEPT !.status = "cancelled"]
        IN  row.claimHash = card[c].claimHash /\ row.returnHash = card[c].returnHash
    BY <1>0 DEF Rows
  <2>2. RowsForget  BY <1>0, <1>6, <2>1, UpdateForgets DEF CancelLegacy
  <2>. QED  BY <1>3, <1>6, <2>2 DEF CancelLegacy
<1>7. CASE CancelRetire(p)
  <2>1. Cleared(card[c]) \in Rows /\ Cleared(card[c]).claimHash = card[c].claimHash
    BY <1>0, RowMarks
  <2>2. LET row == [Cleared(card[c]) EXCEPT !.status = "cancelled",
                      !.returnHash = NoHash, !.from = None]
        IN  row.claimHash = card[c].claimHash /\ row.returnHash = NoHash
    BY <2>1 DEF Rows
  <2>3. RowsForget  BY <1>2, <1>7, <2>2 DEF CancelRetire
  <2>. QED  BY <1>3, <1>7, <2>3 DEF CancelRetire
<1>. QED  BY <1>4, <1>5, <1>6, <1>7

\* From the lease to the final write.
LEMMA LedgerSubmit ==
  ASSUME GiftConstants, TypeOK, TypeOK', LedgerInv, NEW p \in Reqs, submitTransfer(p)
  PROVE  LedgerInv'
<1>. DEFINE c == req[p].gift
<1>0. /\ clock' >= clock /\ clock \in Nat /\ clock' \in Nat /\ latest \in Nat
      /\ req[p] \in Requests /\ c \in Cards /\ card[c] \in Rows
      /\ UNCHANGED latest
  <2>1. UNCHANGED latest
    BY DEF submitTransfer, TakeLease, SimulateFails, Simulate, RecordNonce, Broadcast,
           BroadcastFails, RecordHash, Confirmed, Unconfirmed, UndoAttempt, ReleaseLease,
           Finalize, ledgerOnly
  <2>2. clock' \in {clock, clock + 1}
    BY DEF submitTransfer, TakeLease, SimulateFails, Simulate, RecordNonce, Broadcast,
           BroadcastFails, RecordHash, Confirmed, Unconfirmed, UndoAttempt, ReleaseLease,
           Finalize, NextStart
  <2>3. req[p].pc # "idle"
    BY DEF submitTransfer, TakeLease, SimulateFails, Simulate, RecordNonce, Broadcast,
           BroadcastFails, RecordHash, Confirmed, Unconfirmed, UndoAttempt, ReleaseLease,
           Finalize
  <2>. QED  BY <2>1, <2>2, <2>3, Running DEF TypeOK
<1>1. UNCHANGED txs => TxsKept /\ NoncesUsed'  BY <1>0, TxsStill
<1>2. UNCHANGED card => RowsForget  BY DEF RowsForget
<1>3. ASSUME Return(p), UNCHANGED txs, RowsForget  PROVE LedgerInv'
  BY <1>0, <1>1, <1>3, LedgerReturn
<1>4. ASSUME Goto(p, "release"), UNCHANGED txs, RowsForget  PROVE LedgerInv'
  <2>1. "release" \notin Careful  BY DEF Careful, Early, Sending, Hashed, Settling
  <2>. QED  BY <1>0, <1>4, <2>1, LedgerElsewhere
<1>5. ASSUME UNCHANGED txs, RowsKnow', CarriesOwn(p)',
             \A q \in Reqs \ {p} : req'[q] = req[q]
      PROVE  LedgerInv'
  BY <1>0, <1>1, <1>5, LedgerFrame
<1>6. ASSUME NEW s, UNCHANGED txs, Goto(p, s), RowsKnow', s \notin Settling \cup {"hash"},
             s \in Early => req[p].pc \in Early,
             s = "undo" => req[p].initial,
             s \in {"record"} \cup Sending => req[p].pc \in {"record"} \cup Sending,
             s \in Hashed => req[p].pc \in Hashed,
             s \in Early \cup Sending \cup Hashed => req[p].pc \in Early \cup Sending \cup Hashed,
             s # "retire"
      PROVE  LedgerInv'
  <2>1. CarriesOwn(p)'  BY <1>0, <1>6, GotoCarries
  <2>2. \A q \in Reqs \ {p} : req'[q] = req[q]  BY <1>6, GotoFields
  <2>. QED  BY <1>5, <1>6, <2>1, <2>2
<1>7. ASSUME UNCHANGED <<card, txs>>  PROVE RowsKnow'
  BY <1>1, <1>2, <1>7, ForgettingKnows
<1>8. CASE TakeLease(p)
  BY <1>2, <1>3, <1>6, <1>7, <1>8
     DEF TakeLease, Settling, Early, Sending, Hashed, ledgerOnly
<1>9. CASE SimulateFails(p)
  BY <1>2, <1>4, <1>6, <1>7, <1>9
     DEF SimulateFails, Settling, Early, Sending, Hashed, ledgerOnly
<1>10. CASE Simulate(p)
  <2>1. PICK n \in latest .. latest + Len(txs) :
          LET nonce == IF req[p].nonce = NoNonce THEN n ELSE req[p].nonce
          IN  req' = [req EXCEPT ![p] = [@ EXCEPT !.pc = "record", !.nonce = nonce]]
    BY <1>10 DEF Simulate
  <2>. DEFINE m == IF req[p].nonce = NoNonce THEN n ELSE req[p].nonce
  <2>2. m \in Nat
    <3>1. n \in Nat /\ req[p].nonce \in Nat \cup {NoNonce}
      BY <1>0, CountIsNat DEF Requests
    <3>. QED  BY <3>1
  <2>3. req' = [req EXCEPT ![p] = [req[p] EXCEPT !.pc = "record", !.nonce = m]]
    BY <2>1
  <2>. HIDE DEF m
  <2>4. /\ req'[p].pc = "record" /\ req'[p].nonce = m /\ req'[p].start = req[p].start
        /\ req'[p].op = req[p].op /\ req'[p].gift = c /\ req'[p].wallet = req[p].wallet
        /\ req'[p].initial = req[p].initial /\ req'[p].seen = req[p].seen
        /\ \A q \in Reqs \ {p} : req'[q] = req[q]
    <3>1. req'[p] = [req[p] EXCEPT !.pc = "record", !.nonce = m]
          /\ \A q \in Reqs \ {p} : req'[q] = req[q]
      BY <2>3 DEF TypeOK
    <3>. QED  BY <1>0, <3>1 DEF Requests
  <2>5. CarriesOwn(p) /\ req[p].pc = "simulate"  BY <1>10 DEF LedgerInv, Simulate
  <2>6. UNCHANGED <<card, txs, clock>>  BY <1>10 DEF Simulate, ledgerOnly
  <2>7. CarriesOwn(p)'
    BY <2>2, <2>4, <2>5, <2>6 DEF CarriesOwn, Early, Sending, Hashed, Settling
  <2>. QED  BY <1>5, <1>7, <2>4, <2>6, <2>7
<1>11. CASE RecordNonce(p)
  <2>1. RowsForget
    <3>1. CASE UNCHANGED card  BY <1>2, <3>1
    <3>2. CASE card' = [card EXCEPT ![c] = [@ EXCEPT !.nonce = req[p].nonce,
                                                     !.started = clock']]
      BY <1>0, <3>2 DEF RowsForget, TypeOK, Rows
    <3>. QED  BY <1>11, <3>1, <3>2 DEF RecordNonce
  <2>2. UNCHANGED txs  BY <1>11 DEF RecordNonce, ledgerOnly
  <2>3. RowsKnow'  BY <1>1, <2>1, <2>2, ForgettingKnows
  <2>. QED
    BY <1>4, <1>6, <1>11, <2>1, <2>2, <2>3
       DEF RecordNonce, Settling, Early, Sending, Hashed
<1>12. CASE Broadcast(p)
  <2>1. req[p].nonce \in Nat /\ req[p].nonce >= latest
    BY <1>12 DEF Broadcast, LedgerInv, CarriesOwn, Sending
  <2>2. /\ TxsKept /\ NoncesUsed'
        /\ Len(txs) + 1 \in DOMAIN txs'
        /\ txs'[Len(txs) + 1] = [gift |-> c, to |-> req[p].wallet, nonce |-> req[p].nonce,
                                 state |-> "pending"]
    BY <1>0, <1>12, <2>1, TxAccepted DEF Broadcast
  <2>3. RowsForget  BY <1>2, <1>12 DEF Broadcast
  <2>4. CASE ReturnKeepingLease(p)
    BY <1>0, <2>2, <2>3, <2>4, LedgerReturn DEF ReturnKeepingLease
  <2>5. CASE req' = [req EXCEPT ![p] = [@ EXCEPT !.pc = "hash", !.hash = Len(txs) + 1]]
    <3>. DEFINE h == Len(txs) + 1
    <3>1. req' = [req EXCEPT ![p] = [req[p] EXCEPT !.pc = "hash", !.hash = h]]
      BY <2>5
    <3>. HIDE DEF h
    <3>2. /\ req'[p].pc = "hash" /\ req'[p].hash = h /\ req'[p].nonce = req[p].nonce
          /\ req'[p].op = req[p].op /\ req'[p].gift = c /\ req'[p].wallet = req[p].wallet
          /\ \A q \in Reqs \ {p} : req'[q] = req[q]
      <4>1. req'[p] = [req[p] EXCEPT !.pc = "hash", !.hash = h]
            /\ \A q \in Reqs \ {p} : req'[q] = req[q]
        BY <3>1 DEF TypeOK
      <4>. QED  BY <1>0, <4>1 DEF Requests
    <3>3. CarriesOwn(p) /\ req[p].pc = "broadcast"  BY <1>12 DEF LedgerInv, Broadcast
    <3>4. /\ h \in DOMAIN txs' /\ txs'[h].gift = c /\ txs'[h].to = req[p].wallet
          /\ txs'[h].nonce = req[p].nonce
      BY <2>2 DEF h
    <3>5. CarriesOwn(p)'
      BY <2>1, <3>2, <3>3, <3>4 DEF CarriesOwn, HashIs, Early, Sending, Hashed, Settling
    <3>6. RowsKnow'  BY <2>2, <2>3, ForgettingKnows
    <3>. QED  BY <1>0, <2>2, <3>2, <3>5, <3>6, LedgerFrame
  <2>. QED  BY <1>12, <2>4, <2>5 DEF Broadcast
<1>13. CASE BroadcastFails(p) \/ Unconfirmed(p)
  BY <1>2, <1>3, <1>13 DEF BroadcastFails, Unconfirmed, ReturnKeepingLease, ledgerOnly
<1>14. CASE RecordHash(p)
  <2>1. req[p].hash \in DOMAIN txs
    BY <1>14 DEF RecordHash, LedgerInv, CarriesOwn, Hashed, HashIs
  <2>2. UNCHANGED txs  BY <1>14 DEF RecordHash, ledgerOnly
  <2>3. \A d \in Cards : /\ card'[d].claimHash \in {card[d].claimHash, req[p].hash}
                         /\ card'[d].returnHash \in {card[d].returnHash, req[p].hash}
    BY <1>0, <1>14 DEF RecordHash, Update, TypeOK, Rows
  <2>4. RowsKnow'  BY <2>1, <2>2, <2>3 DEF LedgerInv, RowsKnow, Known
  <2>. QED
    BY <1>6, <1>14, <2>2, <2>4 DEF RecordHash, Settling, Early, Sending, Hashed
<1>15. CASE Confirmed(p)
  BY <1>6, <1>7, <1>15 DEF Confirmed, Settling, Early, Sending, Hashed, ledgerOnly
<1>16. CASE UndoAttempt(p)
  <2>1. RowsForget  BY <1>0, <1>16, UpdateForgets, RowMarks DEF UndoAttempt
  <2>. QED  BY <1>4, <1>16, <2>1 DEF UndoAttempt, ledgerOnly
<1>17. CASE ReleaseLease(p)
  BY <1>2, <1>3, <1>6, <1>7, <1>17
     DEF ReleaseLease, Settling, Early, Sending, Hashed, ledgerOnly
<1>18. CASE Finalize(p)
  <2>1. req[p].hash \in DOMAIN txs
    BY <1>18 DEF Finalize, LedgerInv, CarriesOwn, Hashed, HashIs
  <2>2. UNCHANGED txs /\ Return(p)  BY <1>18 DEF Finalize, ledgerOnly
  <2>3. Cleared(card[c]) \in Rows /\ Cleared(card[c]).claimHash = card[c].claimHash
        /\ Cleared(card[c]).returnHash = card[c].returnHash
    BY <1>0, RowMarks
  <2>4. /\ LET row == [Cleared(card[c]) EXCEPT !.status = "claimed"]
           IN  row.claimHash = card[c].claimHash /\ row.returnHash = card[c].returnHash
        /\ LET row == [Cleared(card[c]) EXCEPT !.status = "cancelled",
                         !.returnHash = req[p].hash, !.from = None]
           IN  row.claimHash = card[c].claimHash /\ row.returnHash = req[p].hash
    BY <2>3 DEF Rows
  <2>5. \A d \in Cards : /\ card'[d].claimHash = card[d].claimHash
                         /\ card'[d].returnHash \in {card[d].returnHash, req[p].hash}
    <3>1. PICK row : /\ Update(c, card[c].status = PendingStatus(req[p].op), row)
                     /\ row.claimHash = card[c].claimHash
                     /\ row.returnHash \in {card[c].returnHash, req[p].hash}
      <4>1. CASE req[p].op = "claim"  BY <1>18, <2>4, <4>1 DEF Finalize
      <4>2. CASE req[p].op # "claim"  BY <1>18, <2>4, <4>2 DEF Finalize
      <4>. QED  BY <4>1, <4>2
    <3>. QED  BY <1>0, <3>1, UpdateFields
  <2>6. RowsKnow'  BY <2>1, <2>2, <2>5 DEF LedgerInv, RowsKnow, Known
  <2>7. CarriesOwn(p)' /\ \A q \in Reqs \ {p} : req'[q] = req[q]
    BY <2>2, ReturnFields, ElsewhereCarries DEF Careful, Early, Sending, Hashed, Settling
  <2>. QED  BY <1>5, <2>2, <2>6, <2>7
<1>. QED  BY <1>8, <1>9, <1>10, <1>11, <1>12, <1>13, <1>14, <1>15, <1>16, <1>17, <1>18
          DEF submitTransfer

\* Every step keeps LedgerInv.
LEMMA LedgerStep ==
  ASSUME GiftConstants, TypeOK, LedgerInv, [Next]_vars
  PROVE  LedgerInv'
<1>0. TypeOK'  BY TypeStep
<1>1. CASE UNCHANGED vars
  <2>1. TxsKept /\ NoncesUsed' /\ RowsForget /\ clock' >= clock
    BY <1>1, TxsStill DEF vars, RowsForget, TypeOK
  <2>. QED  BY <1>0, <1>1, <2>1, LedgerOutside DEF vars
<1>2. CASE CreateNext  BY <1>0, <1>2, LedgerCreate
<1>3. CASE Environment  BY <1>0, <1>3, LedgerEnvironment
<1>4. ASSUME NEW p \in Reqs, ClaimBegins(p) \/ CancelBegins(p) \/ TransferStep(p)
      PROVE  LedgerInv'
  BY <1>0, <1>4, LedgerRead, LedgerSettle, LedgerTake, LedgerSubmit DEF TransferStep
<1>. QED  BY <1>1, <1>2, <1>3, <1>4 DEF Next, TransferNext

\* Nothing is known in the beginning.
LEMMA LedgerInit == GiftConstants /\ Init => LedgerInv
<1>. SUFFICES ASSUME GiftConstants, Init  PROVE LedgerInv  OBVIOUS
<1>1. NoncesUsed  BY DEF Init, NoncesUsed
<1>2. RowsKnow
  BY DEF Init, RowsKnow, Known, LiveRow, NoRow
<1>3. ASSUME NEW p \in Reqs  PROVE CarriesOwn(p)
  BY DEF Init, Idle, CarriesOwn, Early, Sending, Hashed, Settling
<1>. QED  BY <1>1, <1>2, <1>3 DEF LedgerInv

-----------------------------------------------------------------------------
\* MovesSound: what a step has to show.

\* The marks of an operation on a row.
SameRow(c) ==
  /\ card'[c].status = card[c].status /\ card'[c].nonce = card[c].nonce
  /\ card'[c].wallet = card[c].wallet
  /\ card'[c].claimHash = card[c].claimHash /\ card'[c].returnHash = card[c].returnHash
SameMarks(c) == SameRow(c) /\ card'[c].started = card[c].started

\* What p does to the row of c takes it from every other attempt, or leaves it
\* as those know it.
QuietRow(p, c) ==
  \/ card'[c].status \notin Pend
  \/ card'[c].started \notin 1 .. clock
  \/ SameMarks(c)
  \/ card'[c].started = card[c].started /\ \A q \in Reqs \ {p} : ~Trying(q, c)

\* No claim that is sent can be taken for one of the row's new nonce.
QuietNonce(c) ==
  \/ card'[c].status # "claim_pending" \/ card'[c].nonce = NoNonce
  \/ /\ card[c].status = "claim_pending" /\ card'[c].nonce = card[c].nonce
     /\ card'[c].wallet = card[c].wallet

\* p sends what it already sent, if anything.
NoNewSend(p) ==
  req'[p].pc \in Sending =>
    /\ req[p].pc \in Sending
    /\ req'[p].op = req[p].op /\ req'[p].gift = req[p].gift
    /\ req'[p].nonce = req[p].nonce /\ req'[p].wallet = req[p].wallet

OnlyReq(p) == \A q \in Reqs \ {p} : req'[q] = req[q]

\* What an invocation sends carries a nonce.
LEMMA SentHasNonce ==
  ASSUME LedgerInv, NEW q \in Reqs, req[q].pc \in Sending
  PROVE  req[q].nonce \in Nat /\ req[q].nonce # NoNonce
BY DEF LedgerInv, CarriesOwn, NoNonce

\* The claims the others have sent stay sound.
LEMMA SentKept ==
  ASSUME TypeOK, LedgerInv, MovesSound, NEW p \in Reqs, OnlyReq(p),
         \A c \in Cards : QuietNonce(c)
  PROVE  \A q \in Reqs \ {p} : SentSound(q)'
<1>. SUFFICES ASSUME NEW q \in Reqs \ {p}  PROVE SentSound(q)'  OBVIOUS
<1>1. req'[q] = req[q] /\ SentSound(q)  BY DEF OnlyReq, MovesSound
<1>2. CASE req[q].pc \notin Sending  BY <1>1, <1>2 DEF SentSound, SendsClaim
<1>3. CASE req[q].pc \in Sending
  <2>1. req[q].gift \in Cards  BY <1>3, Running DEF Sending
  <2>2. req[q].nonce # NoNonce  BY <1>3, SentHasNonce
  <2>3. QuietNonce(req[q].gift)  BY <2>1
  <2>. QED  BY <1>1, <2>2, <2>3 DEF SentSound, SendsClaim, QuietNonce
<1>. QED  BY <1>2, <1>3

\* The attempts of the others stay sound.
LEMMA AttemptsKept ==
  ASSUME TypeOK, TypeOK', LedgerInv, MovesSound, latest' >= latest,
         NEW p \in Reqs, OnlyReq(p), \A c \in Cards : QuietRow(p, c),
         NoNewSend(p) \/ card'[req'[p].gift].started \notin 1 .. clock,
         NEW q \in Reqs \ {p}, Mine(q)'
  PROVE  AttemptSound(q)'
<1>. DEFINE c == req[q].gift
<1>1. /\ req'[q] = req[q] /\ req[q].pc \in Early
      /\ card'[c].status = PendingStatus(req[q].op) /\ card'[c].started = req[q].start
  BY DEF OnlyReq, Mine
<1>2. c \in Cards /\ card[c] \in Rows  BY <1>1, Running DEF Early
<1>3. req[q].start \in 1 .. clock  BY <1>1 DEF LedgerInv, CarriesOwn
<1>4. PendingStatus(req[q].op) \in Pend  BY DEF PendingStatus, Pend
<1>5. card'[c].status \in Pend /\ card'[c].started \in 1 .. clock
  BY <1>1, <1>3, <1>4
<1>6. SameMarks(c)
  <2>1. CASE card'[c].started = card[c].started /\ \A r \in Reqs \ {p} : ~Trying(r, c)
    BY <1>1, <2>1 DEF Trying
  <2>. QED  BY <1>2, <1>5, <2>1 DEF QuietRow
<1>7. Mine(q) /\ AttemptSound(q)
  <2>1. Mine(q)  BY <1>1, <1>6 DEF Mine, SameMarks, SameRow
  <2>. QED  BY <2>1 DEF MovesSound
<1>8. card[c].nonce < latest => card[c].nonce < latest'
  <2>1. card[c].nonce \in Int /\ latest \in Int /\ latest' \in Int
    BY <1>2 DEF Rows, TypeOK, NoNonce
  <2>. QED  BY <2>1
<1>9. ASSUME NEW r \in Reqs, SendsClaim(r, c, req[q].nonce)'
      PROVE  SendsClaim(r, c, req[q].nonce) /\ req'[r].wallet = req[r].wallet
  <2>1. CASE r # p  BY <1>1, <1>9, <2>1 DEF SendsClaim, OnlyReq
  <2>2. CASE r = p
    <3>1. req'[p].pc \in Sending /\ req'[p].gift = c
      BY <1>1, <1>9, <2>2 DEF SendsClaim
    <3>2. NoNewSend(p)  BY <1>5, <3>1
    <3>. QED  BY <1>1, <1>9, <2>2, <3>1, <3>2 DEF SendsClaim, NoNewSend
  <2>. QED  BY <2>1, <2>2
<1>10. HashOf(card'[c], req[q].op) = NoHash /\ Destination(req[q].op, c, card'[c]) = req[q].wallet
  BY <1>6, <1>7 DEF SameMarks, SameRow, AttemptSound, HashOf, Destination
<1>11. /\ card'[c].nonce = card[c].nonce
       /\ req[q].pc \in {"lease", "simulate"} => req[q].nonce \in {NoNonce, card[c].nonce}
       /\ req[q].nonce = card[c].nonce \/ card[c].nonce < latest'
       /\ req[q].initial => card[c].nonce = NoNonce
  BY <1>6, <1>7, <1>8 DEF SameMarks, SameRow, AttemptSound
<1>12. req[q].pc = "record" /\ req[q].op = "claim" =>
         \A r \in Reqs : SendsClaim(r, c, req[q].nonce)' => req'[r].wallet = req[q].wallet
  BY <1>7, <1>9 DEF AttemptSound
<1>. QED  BY <1>1, <1>10, <1>11, <1>12 DEF AttemptSound

\* A step of p: what is left to show of it.
LEMMA MovesFrame ==
  ASSUME TypeOK, TypeOK', LedgerInv, MovesSound, latest' >= latest,
         NEW p \in Reqs, OnlyReq(p), \A c \in Cards : RowSound(c)' /\ QuietRow(p, c),
         NoNewSend(p) \/ card'[req'[p].gift].started \notin 1 .. clock,
         \A q \in Reqs \ {p} : SentSound(q)',
         Mine(p)' => AttemptSound(p)', SentSound(p)'
  PROVE  MovesSound'
<1>1. ASSUME NEW q \in Reqs  PROVE (Mine(q)' => AttemptSound(q)') /\ SentSound(q)'
  <2>1. CASE q = p  BY <2>1
  <2>2. CASE q # p  BY <2>2, AttemptsKept
  <2>. QED  BY <2>1, <2>2
<1>. QED  BY <1>1 DEF MovesSound

-----------------------------------------------------------------------------
\* What is out for a card.

\* A nonce that is out is not used up.
LEMMA OutIsAhead ==
  ASSUME LedgerInv, NEW c, NEW n, Out(c, n)
  PROVE  n >= latest
BY DEF Out, LedgerInv, NoncesUsed

\* A pending operation whose nonce is used up, or not yet chosen, has nothing out.
LEMMA NothingOut ==
  ASSUME TypeOK, LedgerInv, MovesSound, NEW c \in Cards,
         \/ card[c].status \in Unsent
         \/ card[c].status \in Pend /\ (card[c].nonce = NoNonce \/ card[c].nonce < latest)
  PROVE  \A n \in Nat : ~Out(c, n)
<1>. SUFFICES ASSUME NEW n \in Nat, Out(c, n)  PROVE FALSE  OBVIOUS
<1>1. RowSound(c)  BY DEF MovesSound
<1>2. CASE card[c].status \in Unsent  BY <1>1, <1>2 DEF RowSound
<1>3. CASE card[c].status \in Pend /\ (card[c].nonce = NoNonce \/ card[c].nonce < latest)
  <2>1. n = card[c].nonce  BY <1>1, <1>3 DEF RowSound
  <2>2. n >= latest /\ latest \in Nat  BY OutIsAhead DEF TypeOK
  <2>. QED  BY <1>3, <2>1, <2>2 DEF NoNonce
<1>. QED  BY <1>2, <1>3

\* Nothing new is out when the account does nothing and p sends nothing new.
LEMMA OutStill ==
  ASSUME NEW p \in Reqs, OnlyReq(p), UNCHANGED <<txs, latest>>, NoNewSend(p), NEW c
  PROVE  OutShrinks(c)
<1>. SUFFICES ASSUME NEW n \in Nat, Out(c, n)'  PROVE Out(c, n)
  BY DEF OutShrinks
<1>1. CASE \E i \in DOMAIN txs' :
             txs'[i].gift = c /\ txs'[i].state = "pending" /\ txs'[i].nonce = n
  BY <1>1 DEF Out
<1>2. ASSUME n >= latest', NEW q \in Reqs, req'[q].gift = c, req'[q].pc \in Sending,
             req'[q].nonce = n
      PROVE  Out(c, n)
  <2>1. req[q].gift = c /\ req[q].pc \in Sending /\ req[q].nonce = n
    BY <1>2 DEF OnlyReq, NoNewSend
  <2>. QED  BY <1>2, <2>1 DEF Out
<1>. QED  BY <1>1, <1>2 DEF Out

\* A row without a nonce or a hash, and without anything out, is sound.
LEMMA BlankRow ==
  ASSUME NEW c \in Cards, \A n \in Nat : ~Out(c, n), OutShrinks(c),
         card'[c].nonce = NoNonce, card'[c].claimHash = NoHash, card'[c].returnHash = NoHash
  PROVE  RowSound(c)'
<1>1. \A n \in Nat : ~Out(c, n)'  BY DEF OutShrinks
<1>. QED  BY <1>1 DEF RowSound

\* What a hash is stays true.
LEMMA HashStays ==
  ASSUME TxsKept, NEW c, NEW h, NEW w, HashIs(c, h, w)
  PROVE  /\ h \in DOMAIN txs' /\ txs'[h].gift = c /\ txs'[h].to = w
         /\ txs'[h].nonce = txs[h].nonce
BY DEF HashIs, TxsKept

\* A row with the same operation on it stays sound.
LEMMA RowKept ==
  ASSUME NEW c \in Cards, RowSound(c), SameRow(c), OutShrinks(c), TxsKept
  PROVE  RowSound(c)'
<1>1. \A n \in Nat : Out(c, n)' => Out(c, n)  BY DEF OutShrinks
<1>2. card[c].claimHash # NoHash =>
        /\ HashIs(c, card[c].claimHash, card[c].wallet)'
        /\ card[c].status = "claim_pending" =>
             txs'[card[c].claimHash].nonce = card[c].nonce
  <2>. SUFFICES ASSUME card[c].claimHash # NoHash
                PROVE  /\ HashIs(c, card[c].claimHash, card[c].wallet)'
                       /\ card[c].status = "claim_pending" =>
                            txs'[card[c].claimHash].nonce = card[c].nonce
    OBVIOUS
  <2>1. HashIs(c, card[c].claimHash, card[c].wallet)  BY DEF RowSound
  <2>. QED  BY <2>1, HashStays DEF RowSound, HashIs, SameRow
<1>3. card[c].returnHash # NoHash =>
        /\ HashIs(c, card[c].returnHash, SenderOf[c])'
        /\ card[c].status = "cancel_pending" =>
             txs'[card[c].returnHash].nonce = card[c].nonce
  <2>. SUFFICES ASSUME card[c].returnHash # NoHash
                PROVE  /\ HashIs(c, card[c].returnHash, SenderOf[c])'
                       /\ card[c].status = "cancel_pending" =>
                            txs'[card[c].returnHash].nonce = card[c].nonce
    OBVIOUS
  <2>1. HashIs(c, card[c].returnHash, SenderOf[c])  BY DEF RowSound
  <2>. QED  BY <2>1, HashStays DEF RowSound, HashIs, SameRow
<1>. QED  BY <1>1, <1>2, <1>3 DEF RowSound, SameRow

\* A row that is closed keeps the hash of the operation that closed it.
LEMMA RowClosed ==
  ASSUME NEW c \in Cards, RowSound(c), OutShrinks(c), TxsKept,
         card'[c].status \in Terminal,
         card'[c].claimHash # NoHash =>
           /\ card'[c].status = "claimed" /\ card'[c].claimHash = card[c].claimHash
           /\ card'[c].wallet = card[c].wallet,
         card'[c].returnHash # NoHash =>
           /\ card'[c].status = "cancelled"
           /\ HashIs(c, card'[c].returnHash, SenderOf[c])
  PROVE  RowSound(c)'
<1>1. \A n \in Nat : Out(c, n)' => Out(c, n)  BY DEF OutShrinks
<1>2. card'[c].status \notin Pend /\ card'[c].status \notin Unsent
  BY DEF Terminal, Pend, Unsent
<1>3. card'[c].claimHash # NoHash =>
        /\ card'[c].claimHash \in DOMAIN txs'
        /\ txs'[card'[c].claimHash].gift = c /\ txs'[card'[c].claimHash].to = card'[c].wallet
  BY HashStays DEF RowSound
<1>4. card'[c].returnHash # NoHash =>
        /\ card'[c].returnHash \in DOMAIN txs'
        /\ txs'[card'[c].returnHash].gift = c /\ txs'[card'[c].returnHash].to = SenderOf[c]
  BY HashStays
<1>. QED  BY <1>1, <1>2, <1>3, <1>4 DEF RowSound, HashIs, Pend

-----------------------------------------------------------------------------
\* MovesSound, step by step.

\* A step of p that neither sends nor is one of the account.
LEMMA MovesUpdate ==
  ASSUME TypeOK, TypeOK', LedgerInv, MovesSound, UNCHANGED <<txs, latest>>,
         NEW p \in Reqs, OnlyReq(p), req'[p].pc \notin Sending,
         \A c \in Cards : \/ card'[c] = card[c]
                          \/ (RowSound(c)' /\ QuietRow(p, c) /\ QuietNonce(c)),
         Mine(p)' => AttemptSound(p)'
  PROVE  MovesSound'
<1>1. TxsKept /\ NoNewSend(p) /\ latest' >= latest
  BY TxsStill DEF NoNewSend, TypeOK
<1>2. ASSUME NEW c \in Cards  PROVE RowSound(c)' /\ QuietRow(p, c) /\ QuietNonce(c)
  <2>1. CASE card'[c] = card[c]
    <3>1. SameMarks(c) /\ SameRow(c)  BY <2>1 DEF SameMarks, SameRow
    <3>2. OutShrinks(c)  BY <1>1, OutStill
    <3>3. RowSound(c)  BY DEF MovesSound
    <3>4. RowSound(c)'  BY <1>1, <3>1, <3>2, <3>3, RowKept
    <3>. QED  BY <2>1, <3>1, <3>4 DEF QuietRow, QuietNonce
  <2>. QED  BY <2>1
<1>3. \A q \in Reqs \ {p} : SentSound(q)'  BY <1>2, SentKept
<1>4. SentSound(p)'  BY DEF SentSound, SendsClaim
<1>. QED  BY <1>1, <1>2, <1>3, <1>4, MovesFrame

\* A step of no invocation.
LEMMA MovesOutside ==
  ASSUME TypeOK, TypeOK', LedgerInv, MovesSound, UNCHANGED <<req, card>>, TxsKept,
         \A c \in Cards : OutShrinks(c)
  PROVE  MovesSound'
<1>1. ASSUME NEW c \in Cards  PROVE RowSound(c)'
  BY RowKept DEF MovesSound, SameRow
<1>2. ASSUME NEW p \in Reqs  PROVE (Mine(p)' => AttemptSound(p)') /\ SentSound(p)'
  <2>1. Mine(p)' => Mine(p)  BY DEF Mine
  <2>2. SentSound(p)'  BY DEF MovesSound, SentSound, SendsClaim
  <2>3. ASSUME Mine(p)'  PROVE AttemptSound(p)'
    <3>1. AttemptSound(p)  BY <2>1, <2>3 DEF MovesSound
    <3>2. card[req[p].gift].nonce \in Int /\ latest \in Int /\ latest' \in Int /\ latest' >= latest
      <4>1. req[p].pc # "idle"  BY <2>1, <2>3 DEF Mine, Early
      <4>2. card[req[p].gift] \in Rows  BY <4>1, Running
      <4>. QED  BY <4>2 DEF Rows, TypeOK, NoNonce, TxsKept
    <3>3. card[req[p].gift].nonce < latest => card[req[p].gift].nonce < latest'
      BY <3>2
    <3>. QED  BY <3>1, <3>3 DEF AttemptSound, SendsClaim
  <2>. QED  BY <2>2, <2>3
<1>. QED  BY <1>1, <1>2 DEF MovesSound

\* A step of p without one of its attempt.
LEMMA MovesAside ==
  ASSUME TypeOK, TypeOK', LedgerInv, MovesSound, UNCHANGED <<txs, latest>>,
         NEW p \in Reqs, OnlyReq(p), req'[p].pc \notin Early \cup Sending,
         \A c \in Cards : \/ card'[c] = card[c]
                          \/ (RowSound(c)' /\ QuietRow(p, c) /\ QuietNonce(c))
  PROVE  MovesSound'
<1>1. ~Mine(p)'  BY DEF Mine
<1>. QED  BY <1>1, MovesUpdate

\* The same for the moves the handlers make.
LEMMA MovesReturn ==
  ASSUME TypeOK, TypeOK', LedgerInv, MovesSound, UNCHANGED <<txs, latest>>,
         NEW p \in Reqs, Return(p),
         \A c \in Cards : \/ card'[c] = card[c]
                          \/ (RowSound(c)' /\ QuietRow(p, c) /\ QuietNonce(c))
  PROVE  MovesSound'
<1>1. OnlyReq(p) /\ req'[p].pc \notin Early \cup Sending
  BY ReturnFields DEF OnlyReq, Early, Sending
<1>. QED  BY <1>1, MovesAside

LEMMA MovesGoto ==
  ASSUME TypeOK, TypeOK', LedgerInv, MovesSound, UNCHANGED <<txs, latest>>,
         NEW p \in Reqs, NEW s, Goto(p, s), s \notin Early \cup Sending,
         \A c \in Cards : \/ card'[c] = card[c]
                          \/ (RowSound(c)' /\ QuietRow(p, c) /\ QuietNonce(c))
  PROVE  MovesSound'
<1>1. OnlyReq(p) /\ req'[p].pc \notin Early \cup Sending
  BY GotoFields DEF OnlyReq
<1>. QED  BY <1>1, MovesAside

\* The row p reopens, takes or inserts: no mark of an operation, nothing out.
LEMMA BlankStep ==
  ASSUME TypeOK, LedgerInv, MovesSound, UNCHANGED <<txs, latest>>,
         NEW p \in Reqs, OnlyReq(p), req'[p].pc \notin Sending, NEW c \in Cards,
         \/ card[c].status \in Unsent
         \/ card[c].status \in Pend /\ (card[c].nonce = NoNonce \/ card[c].nonce < latest),
         card'[c].nonce = NoNonce, card'[c].claimHash = NoHash, card'[c].returnHash = NoHash,
         card'[c].started \notin 1 .. clock \/ card'[c].status \notin Pend
  PROVE  RowSound(c)' /\ QuietRow(p, c) /\ QuietNonce(c)
<1>1. \A n \in Nat : ~Out(c, n)  BY NothingOut
<1>2. NoNewSend(p)  BY DEF NoNewSend
<1>3. OutShrinks(c)  BY <1>2, OutStill
<1>4. RowSound(c)'  BY <1>1, <1>3, BlankRow
<1>. QED  BY <1>4 DEF QuietRow, QuietNonce

\* The row p closes.
LEMMA CloseStep ==
  ASSUME TypeOK, LedgerInv, MovesSound, UNCHANGED <<txs, latest>>,
         NEW p \in Reqs, OnlyReq(p), req'[p].pc \notin Sending, NEW c \in Cards,
         card'[c].status \in Terminal,
         card'[c].claimHash # NoHash =>
           /\ card'[c].status = "claimed" /\ card'[c].claimHash = card[c].claimHash
           /\ card'[c].wallet = card[c].wallet,
         card'[c].returnHash # NoHash =>
           /\ card'[c].status = "cancelled"
           /\ HashIs(c, card'[c].returnHash, SenderOf[c])
  PROVE  RowSound(c)' /\ QuietRow(p, c) /\ QuietNonce(c)
<1>1. RowSound(c) /\ TxsKept  BY TxsStill DEF MovesSound
<1>2. NoNewSend(p)  BY DEF NoNewSend
<1>3. OutShrinks(c)  BY <1>2, OutStill
<1>4. RowSound(c)'  BY <1>1, <1>3, RowClosed
<1>5. card'[c].status \notin Pend /\ card'[c].status # "claim_pending"
  BY DEF Terminal, Pend
<1>. QED  BY <1>4, <1>5 DEF QuietRow, QuietNonce

\* The row p leaves with the operation that is on it.
LEMMA SameStep ==
  ASSUME TypeOK, LedgerInv, MovesSound, UNCHANGED <<txs, latest>>,
         NEW p \in Reqs, OnlyReq(p), req'[p].pc \notin Sending, NEW c \in Cards,
         SameRow(c), SameMarks(c) \/ card'[c].started \notin 1 .. clock
  PROVE  RowSound(c)' /\ QuietRow(p, c) /\ QuietNonce(c)
<1>1. RowSound(c) /\ TxsKept  BY TxsStill DEF MovesSound
<1>2. NoNewSend(p)  BY DEF NoNewSend
<1>3. OutShrinks(c)  BY <1>2, OutStill
<1>4. RowSound(c)'  BY <1>1, <1>3, RowKept
<1>. QED  BY <1>4 DEF QuietRow, QuietNonce, SameRow

\* The handlers of v1-gift-create.
LEMMA MovesCreate ==
  ASSUME GiftConstants, TypeOK, TypeOK', LedgerInv, MovesSound, CreateNext
  PROVE  MovesSound'
<1>0. UNCHANGED <<txs, latest, clock>>
  BY DEF CreateNext, PrepareRepeat, PrepareRead, ResumeRead, ConfirmRead, PrepareSupersede,
         PrepareInsert, ConfirmProof, ConfirmActivate, ConfirmMailCheck, sendGiftInvitation,
         ResumeCustody, ResumeReissue, untouched
<1>1. ASSUME NEW c \in Cards, PrepareRepeat(c)  PROVE MovesSound'
  <2>1. UNCHANGED <<req, card>>  BY <1>1 DEF PrepareRepeat
  <2>2. \A d \in Cards : OutShrinks(d)  BY <1>0, <2>1 DEF OutShrinks, Out
  <2>. QED  BY <1>0, <2>1, <2>2, TxsStill, MovesOutside
<1>2. ASSUME NEW p \in Reqs, NEW op, NEW c, NEW k,
             NEW s \in {"supersede", "custody", "mail", "proof"},
             Enter(p, op, c, s, k), UNCHANGED card
      PROVE  MovesSound'
  <2>1. req'[p].pc = s /\ OnlyReq(p)  BY <1>2 DEF Enter, Idle, TypeOK, OnlyReq
  <2>2. s \notin Early \cup Sending  BY DEF Early, Sending
  <2>. QED  BY <1>0, <1>2, <2>1, <2>2, MovesAside
<1>3. ASSUME NEW p \in Reqs, NEW c \in Cards, PrepareRead(p, c) \/ ResumeRead(p, c)
      PROVE  MovesSound'
  BY <1>2, <1>3 DEF PrepareRead, ResumeRead
<1>4. ASSUME NEW p \in Reqs, NEW c \in Cards, NEW k \in 1 .. MaxCodes, ConfirmRead(p, c, k)
      PROVE  MovesSound'
  BY <1>2, <1>4 DEF ConfirmRead
<1>5. ASSUME NEW p \in Reqs, NEW s \in {"insert", "activate", "mail", "send", "reissue"},
             Goto(p, s),
             \A c \in Cards : \/ card'[c] = card[c]
                              \/ (RowSound(c)' /\ QuietRow(p, c) /\ QuietNonce(c))
      PROVE  MovesSound'
  <2>1. s \notin Early \cup Sending  BY DEF Early, Sending
  <2>. QED  BY <1>0, <1>5, <2>1, MovesGoto
<1>6. ASSUME NEW p \in Reqs, Return(p),
             \A c \in Cards : \/ card'[c] = card[c]
                              \/ (RowSound(c)' /\ QuietRow(p, c) /\ QuietNonce(c))
      PROVE  MovesSound'
  BY <1>0, <1>6, MovesReturn
<1>7. ASSUME NEW p \in Reqs, PrepareSupersede(p)  PROVE MovesSound'
  <2>1. OnlyReq(p) /\ req'[p].pc = "insert"
    BY <1>7, GotoFields DEF PrepareSupersede, OnlyReq
  <2>2. req'[p].pc \notin Sending  BY <2>1 DEF Sending
  <2>3. ASSUME NEW d \in Cards
        PROVE  card'[d] = card[d] \/ (RowSound(d)' /\ QuietRow(p, d) /\ QuietNonce(d))
    <3>1. CASE card'[d] = card[d]  BY <3>1
    <3>2. CASE /\ card[d].status = "pending_escrow"
               /\ card'[d] = [card[d] EXCEPT !.status = "cancelled"]
      <4>1. card[d] \in Rows  BY DEF TypeOK
      <4>2. /\ card'[d].status = "cancelled" /\ card'[d].claimHash = card[d].claimHash
            /\ card'[d].returnHash = card[d].returnHash
        BY <3>2, <4>1 DEF Rows
      <4>3. card[d].claimHash = NoHash /\ card[d].returnHash = NoHash
        BY <3>2 DEF MovesSound, RowSound, Unsent
      <4>4. card'[d].status \in Terminal  BY <4>2 DEF Terminal
      <4>. QED  BY <1>0, <2>1, <2>2, <4>2, <4>3, <4>4, CloseStep
    <3>. QED  BY <1>7, <3>1, <3>2 DEF PrepareSupersede
  <2>. QED  BY <1>5, <1>7, <2>3 DEF PrepareSupersede
<1>8. ASSUME NEW p \in Reqs, PrepareInsert(p)  PROVE MovesSound'
  <2>. DEFINE c == req[p].gift
              row == [NoRow EXCEPT !.status = "pending_escrow", !.code = FirstCode]
  <2>1. /\ row.claimHash = NoHash /\ row.returnHash = NoHash /\ row.nonce = NoNonce
        /\ row.status = "pending_escrow"
    BY DEF NoRow
  <2>2. c \in Cards  BY <1>8, Running DEF PrepareInsert, At
  <2>3. card' = card \/ (card[c].status = "absent" /\ card' = [card EXCEPT ![c] = row])
    BY <1>8 DEF PrepareInsert, DuplicateRequest
  <2>. HIDE DEF row
  <2>4. OnlyReq(p) /\ req'[p].pc \notin Sending
    BY <1>8, ReturnFields DEF PrepareInsert, OnlyReq, Sending
  <2>5. ASSUME NEW d \in Cards
        PROVE  card'[d] = card[d] \/ (RowSound(d)' /\ QuietRow(p, d) /\ QuietNonce(d))
    <3>1. CASE card'[d] = card[d]  BY <3>1
    <3>2. CASE card'[d] = row /\ card[d].status = "absent"
      <4>1. card[d].status \in Unsent /\ card'[d].status \notin Pend
        BY <2>1, <3>2 DEF Unsent, Pend
      <4>. QED  BY <1>0, <2>1, <2>4, <3>2, <4>1, BlankStep
    <3>. QED  BY <2>2, <2>3, <3>1, <3>2 DEF TypeOK
  <2>. QED  BY <1>6, <1>8, <2>5 DEF PrepareInsert
<1>9. ASSUME NEW p \in Reqs, ConfirmProof(p) \/ ConfirmMailCheck(p) \/ ResumeCustody(p)
      PROVE  MovesSound'
  BY <1>5, <1>6, <1>9 DEF ConfirmProof, ConfirmMailCheck, ResumeCustody
<1>10. ASSUME NEW p \in Reqs, sendGiftInvitation(p)  PROVE MovesSound'
  BY <1>6, <1>10 DEF sendGiftInvitation
<1>11. ASSUME NEW p \in Reqs, ConfirmActivate(p)  PROVE MovesSound'
  <2>1. req[p].gift \in Cards  BY <1>11, Running DEF ConfirmActivate, At
  <2>2. PICK c \in Cards : c = req[p].gift  BY <2>1
  <2>3. PICK row : row = [card[c] EXCEPT !.status = "active"]  OBVIOUS
  <2>4. /\ row.claimHash = card[c].claimHash /\ row.returnHash = card[c].returnHash
        /\ row.nonce = card[c].nonce /\ row.status = "active"
    <3>1. card[c] \in Rows  BY DEF TypeOK
    <3>. QED  BY <2>3, <3>1 DEF Rows
  <2>5. PICK guard \in BOOLEAN : /\ guard => card[c].status = "pending_escrow"
                                 /\ Update(c, guard, row)
    BY <1>11, <2>2, <2>3 DEF ConfirmActivate, Update
  <2>6. OnlyReq(p) /\ req'[p].pc \notin Sending
    <3>1. Goto(p, "mail") \/ Return(p)  BY <1>11 DEF ConfirmActivate
    <3>. QED  BY <3>1, GotoFields, ReturnFields DEF OnlyReq, Sending
  <2>7. ASSUME NEW d \in Cards
        PROVE  card'[d] = card[d] \/ (RowSound(d)' /\ QuietRow(p, d) /\ QuietNonce(d))
    <3>1. CASE card'[d] = card[d]  BY <3>1
    <3>2. CASE d = c /\ guard /\ card'[d] = row
      <4>1. card[d].status \in Unsent /\ card'[d].status \notin Pend
        BY <2>4, <2>5, <3>2 DEF Unsent, Pend
      <4>2. /\ card'[d].nonce = NoNonce
            /\ card'[d].claimHash = NoHash /\ card'[d].returnHash = NoHash
        BY <2>4, <3>2, <4>1 DEF MovesSound, RowSound
      <4>. QED  BY <1>0, <2>6, <4>1, <4>2, BlankStep
    <3>. QED  BY <2>5, <3>1, <3>2, UpdateFields
  <2>. QED  BY <1>5, <1>6, <1>11, <2>7 DEF ConfirmActivate
<1>12. ASSUME NEW p \in Reqs, ResumeReissue(p)  PROVE MovesSound'
  <2>1. req[p].gift \in Cards  BY <1>12, Running DEF ResumeReissue, At
  <2>2. PICK c \in Cards : c = req[p].gift  BY <2>1
  <2>3. PICK row : row = [card[c] EXCEPT !.code = @ + 1]  OBVIOUS
  <2>4. /\ row.claimHash = card[c].claimHash /\ row.returnHash = card[c].returnHash
        /\ row.nonce = card[c].nonce /\ row.status = card[c].status
        /\ row.wallet = card[c].wallet /\ row.started = card[c].started
    <3>1. card[c] \in Rows  BY DEF TypeOK
    <3>. QED  BY <2>3, <3>1 DEF Rows
  <2>5. \E guard \in BOOLEAN : Update(c, guard, row)
    BY <1>12, <2>2, <2>3 DEF ResumeReissue, Update
  <2>6. OnlyReq(p) /\ req'[p].pc \notin Sending
    BY <1>12, ReturnFields DEF ResumeReissue, OnlyReq, Sending
  <2>7. ASSUME NEW d \in Cards
        PROVE  card'[d] = card[d] \/ (RowSound(d)' /\ QuietRow(p, d) /\ QuietNonce(d))
    <3>1. CASE card'[d] = card[d]  BY <3>1
    <3>2. CASE d = c /\ card'[d] = row
      <4>1. SameRow(d) /\ SameMarks(d)  BY <2>4, <3>2 DEF SameRow, SameMarks
      <4>. QED  BY <1>0, <2>6, <4>1, SameStep
    <3>. QED  BY <2>5, <3>1, <3>2, UpdateFields
  <2>. QED  BY <1>6, <1>12, <2>7 DEF ResumeReissue
<1>. QED  BY <1>1, <1>3, <1>4, <1>7, <1>8, <1>9, <1>10, <1>11, <1>12 DEF CreateNext

-----------------------------------------------------------------------------
\* The environment.

\* A transaction that is mined or dropped is out no more.
LEMMA OutSettles ==
  ASSUME UNCHANGED req, latest' >= latest, latest \in Int, latest' \in Int,
         \A i \in DOMAIN txs' : /\ i \in DOMAIN txs /\ txs'[i].gift = txs[i].gift
                                /\ txs'[i].nonce = txs[i].nonce
                                /\ txs'[i].state = "pending" => txs[i].state = "pending",
         NEW c
  PROVE  OutShrinks(c)
<1>. SUFFICES ASSUME NEW n \in Nat, Out(c, n)'  PROVE Out(c, n)
  BY DEF OutShrinks
<1>1. CASE \E i \in DOMAIN txs' :
             txs'[i].gift = c /\ txs'[i].state = "pending" /\ txs'[i].nonce = n
  BY <1>1 DEF Out
<1>2. ASSUME n >= latest', NEW q \in Reqs, req[q].gift = c, req[q].pc \in Sending,
             req[q].nonce = n
      PROVE  Out(c, n)
  <2>1. n >= latest  BY <1>2
  <2>. QED  BY <1>2, <2>1 DEF Out
<1>. QED  BY <1>1, <1>2 DEF Out

\* A transaction of another writer is of no card.
LEMMA OutOther ==
  ASSUME GiftConstants, TypeOK, LedgerInv, UNCHANGED <<req, latest>>, NEW n \in Nat,
         n >= latest, Accept(Other, Escrow, n), NEW c \in Cards
  PROVE  OutShrinks(c)
<1>1. /\ DOMAIN txs' = DOMAIN txs \cup {Len(txs) + 1}
      /\ txs'[Len(txs) + 1] = [gift |-> Other, to |-> Escrow, nonce |-> n, state |-> "pending"]
      /\ \A j \in DOMAIN txs : /\ txs'[j].gift = txs[j].gift /\ txs'[j].nonce = txs[j].nonce
                               /\ txs'[j].state = "pending" => txs[j].state = "pending"
  BY TxAccepted
<1>. SUFFICES ASSUME NEW m \in Nat, Out(c, m)'  PROVE Out(c, m)
  BY DEF OutShrinks
<1>2. Other # c  BY DEF GiftConstants
<1>3. ASSUME NEW i \in DOMAIN txs', txs'[i].gift = c, txs'[i].state = "pending",
             txs'[i].nonce = m
      PROVE  Out(c, m)
  <2>1. i # Len(txs) + 1  BY <1>1, <1>2, <1>3
  <2>2. i \in DOMAIN txs  BY <1>1, <2>1
  <2>. QED  BY <1>1, <1>3, <2>2 DEF Out
<1>4. ASSUME m >= latest', NEW q \in Reqs, req'[q].gift = c, req'[q].pc \in Sending,
             req'[q].nonce = m
      PROVE  Out(c, m)
  BY <1>4 DEF Out
<1>. QED  BY <1>3, <1>4 DEF Out

LEMMA MovesEnvironment ==
  ASSUME GiftConstants, TypeOK, TypeOK', LedgerInv, MovesSound, Environment
  PROVE  MovesSound'
<1>1. latest \in Int /\ latest' \in Int  BY DEF TypeOK
<1>2. CASE MineNext
  <2>1. PICK i \in DOMAIN txs, s \in {"success", "reverted"} :
          /\ txs[i].state = "pending" /\ txs[i].nonce = latest
          /\ txs' = [txs EXCEPT ![i].state = s] /\ latest' = latest + 1
          /\ UNCHANGED <<req, card>>
    BY <1>2 DEF MineNext
  <2>2. TxsKept /\ \A j \in DOMAIN txs' :
                     /\ j \in DOMAIN txs /\ txs'[j].gift = txs[j].gift
                     /\ txs'[j].nonce = txs[j].nonce
                     /\ txs'[j].state = "pending" => txs[j].state = "pending"
    BY <2>1, TxSettles
  <2>3. \A c \in Cards : OutShrinks(c)
    BY <1>1, <2>1, <2>2, OutSettles DEF TxsKept
  <2>. QED  BY <2>1, <2>2, <2>3, MovesOutside
<1>3. CASE DropTx
  <2>1. PICK i \in DOMAIN txs :
          /\ txs[i].state = "pending" /\ txs' = [txs EXCEPT ![i].state = "gone"]
          /\ UNCHANGED <<req, card, latest>>
    BY <1>3 DEF DropTx
  <2>2. TxsKept /\ \A j \in DOMAIN txs' :
                     /\ j \in DOMAIN txs /\ txs'[j].gift = txs[j].gift
                     /\ txs'[j].nonce = txs[j].nonce
                     /\ txs'[j].state = "pending" => txs[j].state = "pending"
    BY <2>1, TxSettles
  <2>3. \A c \in Cards : OutShrinks(c)
    BY <1>1, <2>1, <2>2, OutSettles DEF TxsKept
  <2>. QED  BY <2>1, <2>2, <2>3, MovesOutside
<1>4. CASE OtherWriterSends
  <2>1. PICK n \in latest .. latest + Len(txs) :
          Accept(Other, Escrow, n) /\ UNCHANGED <<req, card, latest>>
    BY <1>4 DEF OtherWriterSends
  <2>2. n \in Nat /\ n >= latest  BY CountIsNat, <1>1
  <2>3. TxsKept  BY <2>1, <2>2, TxAccepted
  <2>4. \A c \in Cards : OutShrinks(c)  BY <2>1, <2>2, OutOther
  <2>. QED  BY <2>1, <2>3, <2>4, MovesOutside
<1>5. CASE UNCHANGED <<req, card, txs, latest>>
  <2>1. TxsKept  BY <1>5, TxsStill
  <2>2. \A c \in Cards : OutShrinks(c)  BY <1>5 DEF OutShrinks, Out
  <2>. QED  BY <1>5, <2>1, <2>2, MovesOutside
<1>6. ASSUME NEW p \in Reqs, Crash(p)  PROVE MovesSound'
  BY <1>6, MovesReturn DEF Crash, ReturnKeepingLease
<1>. QED
  BY <1>2, <1>3, <1>4, <1>5, <1>6
  DEF Environment, LeaseExpires, ToggleLock, RevokeApproval, HolderMoves, Expire,
      WalletSendsDeposit, DepositMined

\* Reading decides nothing yet.
LEMMA MovesRead ==
  ASSUME GiftConstants, TypeOK, TypeOK', LedgerInv, MovesSound, NEW p \in Reqs,
         \/ ClaimBegins(p) \/ CancelBegins(p) \/ ReadChain(p) \/ Reconcile(p)
  PROVE  MovesSound'
<1>0. UNCHANGED <<card, txs, latest>>
  BY DEF ClaimBegins, CancelBegins, ClaimRead, CancelRead, ReadChain, Reconcile, ledgerOnly
<1>1. ASSUME NEW s \in {"chain", "reopen", "retire", "reconcile", "take", "apply", "idle"},
             req'[p].pc = s, OnlyReq(p)
      PROVE  MovesSound'
  <2>1. s \notin Early \cup Sending  BY DEF Early, Sending
  <2>. QED  BY <1>0, <1>1, <2>1, MovesAside
<1>2. ASSUME NEW c \in Cards, NEW w \in Users \cup {None}, ClaimRead(p, c, w)
      PROVE  MovesSound'
  <2>1. req'[p].pc = "chain" /\ OnlyReq(p)
    BY <1>2 DEF ClaimRead, Idle, TypeOK, OnlyReq
  <2>. QED  BY <1>1, <2>1
<1>3. ASSUME NEW c \in Cards, CancelRead(p, c)  PROVE MovesSound'
  <2>1. req'[p].pc \in {"chain", "reopen", "retire"} /\ OnlyReq(p)
    BY <1>3 DEF CancelRead, Idle, TypeOK, OnlyReq
  <2>. QED  BY <1>1, <2>1
<1>4. CASE ReadChain(p)
  <2>1. req[p] \in Requests  BY Running
  <2>2. PICK s \in {"reconcile", "take"} : \E h, l, a :
          req' = [req EXCEPT ![p] = [req[p] EXCEPT !.holder = h, !.locked = l,
                                                   !.approved = a, !.pc = s]]
    BY <1>4 DEF ReadChain
  <2>3. req'[p].pc = s /\ OnlyReq(p)
    <3>1. PICK h, l, a :
            req' = [req EXCEPT ![p] = [req[p] EXCEPT !.holder = h, !.locked = l,
                                                     !.approved = a, !.pc = s]]
      BY <2>2
    <3>. QED  BY <2>1, <3>1 DEF TypeOK, Requests, OnlyReq
  <2>. QED  BY <1>1, <2>3
<1>5. CASE Reconcile(p)
  <2>1. req[p] \in Requests  BY Running
  <2>2. Return(p) \/ \E v : req' = [req EXCEPT ![p] = [@ EXCEPT !.pc = "apply", !.verdict = v]]
    BY <1>5 DEF Reconcile
  <2>3. req'[p].pc \in {"idle", "apply"} /\ OnlyReq(p)
    <3>1. CASE Return(p)  BY <3>1, ReturnFields DEF OnlyReq
    <3>2. ASSUME NEW v, req' = [req EXCEPT ![p] = [@ EXCEPT !.pc = "apply", !.verdict = v]]
          PROVE  req'[p].pc = "apply" /\ OnlyReq(p)
      BY <2>1, <3>2 DEF TypeOK, Requests, OnlyReq
    <3>. QED  BY <2>2, <3>1, <3>2
  <2>. QED  BY <1>1, <2>3
<1>. QED  BY <1>2, <1>3, <1>4, <1>5 DEF ClaimBegins, CancelBegins
-----------------------------------------------------------------------------
\* Settling what an earlier invocation left behind.

\* A row with an operation pending carries no hash of the other direction.
LEMMA OneHash ==
  ASSUME MovesSound, NEW c \in Cards, NEW op, card[c].status = PendingStatus(op)
  PROVE  /\ op = "claim" => card[c].returnHash = NoHash
         /\ op # "claim" => card[c].claimHash = NoHash
         /\ card[c].status \in Pend
BY DEF MovesSound, RowSound, PendingStatus, Pend

\* A conditional update that takes an operation that can move nothing off its row.
LEMMA BlankUpdate ==
  ASSUME TypeOK, TypeOK', LedgerInv, MovesSound, UNCHANGED <<txs, latest>>,
         NEW p \in Reqs, OnlyReq(p), req'[p].pc \notin Early \cup Sending,
         NEW c \in Cards, NEW guard, NEW row, Update(c, guard, row),
         guard => /\ card[c].status \in Pend
                  /\ card[c].nonce = NoNonce \/ card[c].nonce < latest
                  /\ row.nonce = NoNonce /\ row.started = NoStart
                  /\ row.claimHash = NoHash /\ row.returnHash = NoHash
  PROVE  MovesSound'
<1>1. ASSUME NEW d \in Cards
      PROVE  card'[d] = card[d] \/ (RowSound(d)' /\ QuietRow(p, d) /\ QuietNonce(d))
  <2>1. CASE card'[d] = card[d]  BY <2>1
  <2>2. CASE d = c /\ guard /\ card'[d] = row
    <3>1. card'[d].started \notin 1 .. clock  BY <2>2 DEF NoStart
    <3>. QED  BY <2>2, <3>1, BlankStep
  <2>. QED  BY <2>1, <2>2, UpdateFields
<1>. QED  BY <1>1, MovesAside

\* A conditional update that closes a card.
LEMMA CloseUpdate ==
  ASSUME TypeOK, TypeOK', LedgerInv, MovesSound, UNCHANGED <<txs, latest>>,
         NEW p \in Reqs, OnlyReq(p), req'[p].pc \notin Early \cup Sending,
         NEW c \in Cards, NEW guard, NEW row, Update(c, guard, row),
         guard =>
           /\ row.status \in Terminal
           /\ row.claimHash # NoHash =>
                /\ row.status = "claimed" /\ row.claimHash = card[c].claimHash
                /\ row.wallet = card[c].wallet
           /\ row.returnHash # NoHash =>
                row.status = "cancelled" /\ HashIs(c, row.returnHash, SenderOf[c])
  PROVE  MovesSound'
<1>1. ASSUME NEW d \in Cards
      PROVE  card'[d] = card[d] \/ (RowSound(d)' /\ QuietRow(p, d) /\ QuietNonce(d))
  <2>1. CASE card'[d] = card[d]  BY <2>1
  <2>2. CASE d = c /\ guard /\ card'[d] = row
    <3>1. req'[p].pc \notin Sending  OBVIOUS
    <3>. QED  BY <2>2, <3>1, CloseStep
  <2>. QED  BY <2>1, <2>2, UpdateFields
<1>. QED  BY <1>1, MovesAside

\* Settling writes a row that is still the one that was read.
LEMMA MovesSettle ==
  ASSUME GiftConstants, TypeOK, TypeOK', AttemptInv, LedgerInv, MovesSound, NEW p \in Reqs,
         ReportsInTime,
         \/ ApplyComplete(p) \/ ApplyFailed(p) \/ ApplyRetry(p)
         \/ ResetClaim(p) \/ ResetReturn(p) \/ CancelReopen(p)
  PROVE  MovesSound'
<1>0. /\ UNCHANGED <<txs, latest>>
      /\ req[p] \in Requests /\ req[p].gift \in Cards
  <2>1. UNCHANGED <<txs, latest>>
    BY DEF ApplyComplete, ApplyFailed, ApplyRetry, ResetClaim, ResetReturn, CancelReopen,
           ledgerOnly
  <2>2. req[p] \in Requests /\ req[p].gift \in Cards
    BY Running DEF ApplyComplete, ApplyFailed, ApplyRetry, ResetClaim, ResetReturn,
                   CancelReopen, At
  <2>. QED  BY <2>1, <2>2
<1>1. PICK c \in Cards : c = req[p].gift  BY <1>0
<1>2. PICK op : op = req[p].op  OBVIOUS
<1>15. PICK seen \in Rows : seen = req[p].seen  BY <1>0 DEF Requests
<1>3. card[c] \in Rows  BY DEF TypeOK
<1>4. ASSUME UNCHANGED card, OnlyReq(p), req'[p].pc \notin Early \cup Sending
      PROVE  MovesSound'
  BY <1>0, <1>4, MovesAside
<1>5. Return(p) => OnlyReq(p) /\ req'[p].pc \notin Early \cup Sending
  BY ReturnFields DEF OnlyReq, Early, Sending
<1>6. Goto(p, "take") => OnlyReq(p) /\ req'[p].pc \notin Early \cup Sending
  BY GotoFields DEF OnlyReq, Early, Sending
<1>7. CASE ApplyComplete(p)
  <2>1. PICK from : Update(c, card[c].status = PendingStatus(op),
                     [Cleared(card[c]) EXCEPT !.status = FinalStatus(op), !.from = from])
    BY <1>1, <1>2, <1>15, <1>7 DEF ApplyComplete, Cleared
  <2>2. PICK row : row = [Cleared(card[c]) EXCEPT !.status = FinalStatus(op), !.from = from]
    OBVIOUS
  <2>3. Cleared(card[c]) \in Rows  BY <1>3, RowMarks
  <2>4. /\ row.status = FinalStatus(op) /\ row.wallet = card[c].wallet
        /\ row.claimHash = card[c].claimHash /\ row.returnHash = card[c].returnHash
    BY <1>3, <2>2, <2>3, RowMarks DEF Rows
  <2>5. Update(c, card[c].status = PendingStatus(op), row)  BY <2>1, <2>2
  <2>6. row.status \in Terminal  BY <2>4 DEF FinalStatus, Terminal
  <2>7. ASSUME card[c].status = PendingStatus(op), row.claimHash # NoHash
        PROVE  row.status = "claimed"
    BY <2>4, <2>7, OneHash DEF FinalStatus
  <2>8. ASSUME card[c].status = PendingStatus(op), row.returnHash # NoHash
        PROVE  row.status = "cancelled" /\ HashIs(c, row.returnHash, SenderOf[c])
    BY <2>4, <2>8, OneHash DEF FinalStatus, MovesSound, RowSound
  <2>9. Return(p)  BY <1>7 DEF ApplyComplete
  <2>. QED  BY <1>0, <1>5, <2>4, <2>5, <2>6, <2>7, <2>8, <2>9, CloseUpdate
<1>8. CASE ApplyFailed(p)
  <2>1. Return(p)  BY <1>8 DEF ApplyFailed
  <2>2. CASE UNCHANGED card  BY <1>4, <1>5, <2>1, <2>2
  <2>3. CASE card' # card
    <3>1. card[c] = seen  BY <1>1, <1>2, <1>15, <1>8, <2>3 DEF ReportsInTime
    <3>2. PICK open \in {"pending_escrow", "active"} : 
            Update(c, card[c].status = PendingStatus(op),
                   IF op = "claim" THEN [ReopenedClaim(card[c]) EXCEPT !.claimHash = NoHash]
                   ELSE [ReopenedReturn(card[c], open) EXCEPT !.returnHash = NoHash])
      <4>1. (IF seen.from = None THEN "active" ELSE seen.from) \in {"pending_escrow", "active"}
        BY DEF Rows
      <4>. QED  BY <1>1, <1>2, <1>15, <1>8, <4>1 DEF ApplyFailed, PendingStatus
    <3>3. PICK row : row = IF op = "claim"
                           THEN [ReopenedClaim(card[c]) EXCEPT !.claimHash = NoHash]
                           ELSE [ReopenedReturn(card[c], open) EXCEPT !.returnHash = NoHash]
      OBVIOUS
    <3>4. open \in CardStatus  BY DEF CardStatus, OpenStatus
    <3>5. ReopenedClaim(card[c]) \in Rows /\ ReopenedReturn(card[c], open) \in Rows
      BY <1>3, <3>4, RowShapes
    <3>6. /\ row.nonce = NoNonce /\ row.started = NoStart
          /\ op = "claim" => row.claimHash = NoHash /\ row.returnHash = card[c].returnHash
          /\ op # "claim" => row.returnHash = NoHash /\ row.claimHash = card[c].claimHash
      BY <1>3, <3>3, <3>5, RowMarks DEF Rows
    <3>7. ASSUME card[c].status = PendingStatus(op)
          PROVE  card[c].nonce < latest
      <4>1. PICK h : h = HashOf(seen, op)  OBVIOUS
      <4>2. h # NoHash /\ h \in DOMAIN txs /\ txs[h].state = "reverted"
        BY <1>2, <1>15, <1>8, <4>1 DEF ApplyFailed, LedgerInv, CarriesOwn, VerdictSound
      <4>3. txs[h].nonce < latest  BY <4>2 DEF LedgerInv, NoncesUsed
      <4>4. txs[h].nonce = card[c].nonce
        <5>1. RowSound(c)  BY DEF MovesSound
        <5>2. CASE op = "claim"
          BY <3>1, <3>7, <4>1, <4>2, <5>1, <5>2 DEF RowSound, HashOf, PendingStatus
        <5>3. CASE op # "claim"
          BY <3>1, <3>7, <4>1, <4>2, <5>1, <5>3 DEF RowSound, HashOf, PendingStatus
        <5>. QED  BY <5>2, <5>3
      <4>. QED  BY <4>3, <4>4
    <3>8. Update(c, card[c].status = PendingStatus(op), row)  BY <3>2, <3>3
    <3>9. ASSUME card[c].status = PendingStatus(op)
          PROVE  /\ card[c].status \in Pend /\ card[c].nonce < latest
                 /\ row.claimHash = NoHash /\ row.returnHash = NoHash
      BY <3>6, <3>7, <3>9, OneHash
    <3>. QED  BY <1>0, <1>5, <2>1, <3>6, <3>8, <3>9, BlankUpdate
  <2>. QED  BY <2>2, <2>3
<1>9. ASSUME NEW dir \in {"claim", "cancel"}, NEW row, OnlyReq(p),
             Update(c, StillUnsubmitted(c, dir, seen), row),
             req'[p].pc \notin Early \cup Sending,
             row.nonce = NoNonce, row.started = NoStart,
             row.claimHash = card[c].claimHash, row.returnHash = card[c].returnHash
      PROVE  MovesSound'
  <2>1. ASSUME StillUnsubmitted(c, dir, seen)
        PROVE  /\ card[c].status \in Pend /\ card[c].nonce = NoNonce
               /\ row.claimHash = NoHash /\ row.returnHash = NoHash
    BY <1>9, <2>1, OneHash DEF StillUnsubmitted, HashOf
  <2>. QED  BY <1>0, <1>9, <2>1, BlankUpdate
<1>10. CASE ResetClaim(p)
  <2>1. Update(c, StillUnsubmitted(c, "claim", seen), ReopenedClaim(card[c]))
    BY <1>1, <1>2, <1>15, <1>10 DEF ResetClaim
  <2>2. OnlyReq(p) /\ req'[p].pc \notin Early \cup Sending
    BY <1>5, <1>6, <1>10 DEF ResetClaim
  <2>. QED  BY <1>3, <1>9, <2>1, <2>2, RowMarks
<1>11. ASSUME NEW s \in {"take", "chain", "retire"}, NEW row,
              req' = [req EXCEPT ![p] = [req[p] EXCEPT !.seen = row, !.pc = s]]
       PROVE  OnlyReq(p) /\ req'[p].pc \notin Early \cup Sending
  <2>1. req'[p].pc = s /\ OnlyReq(p)
    BY <1>0, <1>11 DEF TypeOK, Requests, OnlyReq
  <2>. QED  BY <2>1 DEF Early, Sending
<1>12. CASE ResetReturn(p)
  <2>1. PICK open : Update(c, StillUnsubmitted(c, "cancel", seen), ReopenedReturn(card[c], open))
    BY <1>1, <1>2, <1>15, <1>12 DEF ResetReturn
  <2>2. \/ Return(p)
        \/ \E row : req' = [req EXCEPT ![p] = [req[p] EXCEPT !.pc = "take", !.seen = row]]
    BY <1>12 DEF ResetReturn
  <2>3. OnlyReq(p) /\ req'[p].pc \notin Early \cup Sending
    <3>1. ASSUME NEW row,
                 req' = [req EXCEPT ![p] = [req[p] EXCEPT !.pc = "take", !.seen = row]]
          PROVE  req'[p].pc = "take" /\ OnlyReq(p)
      BY <1>0, <3>1 DEF TypeOK, Requests, OnlyReq
    <3>. QED  BY <1>5, <2>2, <3>1 DEF Early, Sending
  <2>. QED  BY <1>3, <1>9, <2>1, <2>3, RowMarks
<1>13. CASE CancelReopen(p)
  <2>1. Update(c, StillUnsubmitted(c, "claim", seen), ReopenedClaim(card[c]))
    BY <1>1, <1>2, <1>15, <1>13 DEF CancelReopen
  <2>2. \/ Return(p)
        \/ \E row : \E s \in {"chain", "retire"} :
             req' = [req EXCEPT ![p] = [req[p] EXCEPT !.seen = row, !.pc = s]]
    BY <1>13 DEF CancelReopen
  <2>3. OnlyReq(p) /\ req'[p].pc \notin Early \cup Sending
    BY <1>5, <1>11, <2>2
  <2>. QED  BY <1>3, <1>9, <2>1, <2>3, RowMarks
<1>14. CASE ApplyRetry(p)
  <2>1. CASE Return(p) /\ UNCHANGED card  BY <1>4, <1>5, <2>1
  <2>2. CASE ~(Return(p) /\ UNCHANGED card)
    <3>1. PICK nonce :
            /\ nonce = IF req[p].verdict = "retry_same_nonce" THEN seen.nonce ELSE NoNonce
            /\ card[c].status = PendingStatus(op)
            /\ clock' = clock + 1
            /\ card' = [card EXCEPT ![c].started = clock']
            /\ req' = [req EXCEPT ![p] = [Idle EXCEPT !.op = op, !.gift = c,
                         !.pc = "lease", !.start = clock',
                         !.wallet = Destination(op, c, seen), !.nonce = nonce]]
      BY <1>1, <1>2, <1>15, <1>14, <2>2 DEF ApplyRetry, FreshStart, NextStart
    <3>2. /\ \A d \in Cards \ {c} : card'[d] = card[d]
          /\ SameRow(c) /\ card'[c].started = clock + 1
      <4>1. card'[c] = [card[c] EXCEPT !.started = clock'] /\ \A d \in Cards \ {c} : card'[d] = card[d]
        BY <3>1 DEF TypeOK
      <4>. QED  BY <1>3, <3>1, <4>1 DEF Rows, SameRow
    <3>3. card[c].started <= clock /\ clock \in Nat /\ card[c].started \in Nat
      BY <1>3 DEF AttemptInv, StartsNameAttempts, TypeOK, Rows
    <3>4. card' # card  BY <3>2, <3>3
    <3>5. card[c] = seen  BY <1>1, <1>2, <1>15, <1>14, <3>4 DEF ReportsInTime
    <3>6. /\ req'[p].op = op /\ req'[p].gift = c /\ req'[p].pc = "lease"
          /\ req'[p].wallet = Destination(op, c, seen) /\ req'[p].nonce = nonce
          /\ ~req'[p].initial /\ OnlyReq(p)
      BY <3>1 DEF Idle, TypeOK, OnlyReq
    <3>7. /\ HashOf(seen, op) = NoHash
          /\ req[p].verdict = "retry_fresh_nonce" => seen.nonce < latest
      BY <1>2, <1>15, <1>14 DEF ApplyRetry, LedgerInv, CarriesOwn, VerdictSound
    <3>8. AttemptSound(p)'
      <4>1. HashOf(card'[c], op) = NoHash /\ Destination(op, c, card'[c]) = req'[p].wallet
        BY <3>2, <3>5, <3>6, <3>7 DEF HashOf, Destination, SameRow
      <4>2. /\ nonce \in {NoNonce, card'[c].nonce}
            /\ nonce = card'[c].nonce \/ card'[c].nonce < latest
        BY <1>14, <3>1, <3>2, <3>5, <3>7 DEF ApplyRetry, SameRow
      <4>. QED  BY <1>0, <3>6, <4>1, <4>2 DEF AttemptSound
    <3>9. req'[p].pc \notin Sending  BY <3>6 DEF Sending
    <3>10. ASSUME NEW d \in Cards
           PROVE  card'[d] = card[d] \/ (RowSound(d)' /\ QuietRow(p, d) /\ QuietNonce(d))
      <4>1. CASE d # c  BY <3>2, <4>1
      <4>2. CASE d = c
        <5>1. SameRow(d) /\ card'[d].started \notin 1 .. clock  BY <3>2, <3>3, <4>2
        <5>. QED  BY <1>0, <3>6, <3>9, <5>1, SameStep
      <4>. QED  BY <4>1, <4>2
    <3>. QED  BY <1>0, <3>6, <3>8, <3>9, <3>10, MovesUpdate
  <2>. QED  BY <2>1, <2>2
<1>. QED  BY <1>7, <1>8, <1>10, <1>12, <1>13, <1>14
-----------------------------------------------------------------------------
\* Taking a card.

LEMMA MovesTake ==
  ASSUME GiftConstants, TypeOK, TypeOK', RetireInv, LedgerInv, MovesSound, NEW p \in Reqs,
         TakeClaim(p) \/ TakeReturn(p) \/ CancelLegacy(p) \/ CancelRetire(p)
  PROVE  MovesSound'
<1>0. /\ UNCHANGED <<txs, latest>>
      /\ req[p] \in Requests /\ req[p].gift \in Cards
  <2>1. UNCHANGED <<txs, latest>>
    BY DEF TakeClaim, TakeReturn, CancelLegacy, CancelRetire, ledgerOnly
  <2>2. req[p] \in Requests /\ req[p].gift \in Cards
    BY Running DEF TakeClaim, TakeReturn, CancelLegacy, CancelRetire, At
  <2>. QED  BY <2>1, <2>2
<1>1. PICK c \in Cards : c = req[p].gift  BY <1>0
<1>2. card[c] \in Rows  BY DEF TypeOK
<1>3. Return(p) => OnlyReq(p) /\ req'[p].pc \notin Early \cup Sending
  BY ReturnFields DEF OnlyReq, Early, Sending
<1>4. Goto(p, "retire") => OnlyReq(p) /\ req'[p].pc \notin Early \cup Sending
  BY GotoFields DEF OnlyReq, Early, Sending
<1>5. ASSUME UNCHANGED card, Return(p)  PROVE MovesSound'
  BY <1>0, <1>3, <1>5, MovesAside
<1>6. ASSUME NEW op \in {"claim", "cancel"}, NEW row, card[c].status \in Unsent,
             clock' = clock + 1, card' = [card EXCEPT ![c] = row],
             row.started = clock', row.nonce = card[c].nonce,
             row.claimHash = card[c].claimHash, row.returnHash = card[c].returnHash,
             req'[p].pc = "lease", req'[p].op = op, req'[p].gift = c,
             req'[p].nonce = NoNonce, Destination(op, c, row) = req'[p].wallet, OnlyReq(p)
      PROVE  MovesSound'
  <2>1. /\ card'[c] = row /\ \A d \in Cards \ {c} : card'[d] = card[d]
        /\ clock \in Nat
    BY <1>6 DEF TypeOK
  <2>2. row.nonce = NoNonce /\ row.claimHash = NoHash /\ row.returnHash = NoHash
    BY <1>6 DEF MovesSound, RowSound
  <2>3. AttemptSound(p)'
    BY <1>6, <2>1, <2>2 DEF AttemptSound, HashOf
  <2>4. req'[p].pc \notin Sending  BY <1>6 DEF Sending
  <2>5. ASSUME NEW d \in Cards
        PROVE  card'[d] = card[d] \/ (RowSound(d)' /\ QuietRow(p, d) /\ QuietNonce(d))
    <3>1. CASE d # c  BY <2>1, <3>1
    <3>2. CASE d = c
      <4>1. card'[d].started \notin 1 .. clock  BY <1>6, <2>1, <3>2
      <4>. QED  BY <1>0, <1>6, <2>1, <2>2, <2>4, <3>2, <4>1, BlankStep
    <3>. QED  BY <3>1, <3>2
  <2>. QED  BY <1>0, <1>6, <2>3, <2>4, <2>5, MovesUpdate
<1>7. CASE TakeClaim(p)
  <2>1. CASE UNCHANGED card /\ Return(p)  BY <1>5, <2>1
  <2>2. CASE ~(UNCHANGED card /\ Return(p))
    <3>1. PICK wallet : wallet = req[p].wallet  OBVIOUS
    <3>2. /\ card[c].status = "active" /\ clock' = clock + 1
          /\ card' = [card EXCEPT ![c] = [card[c] EXCEPT !.status = "claim_pending",
                        !.wallet = wallet, !.started = clock']]
          /\ req' = [req EXCEPT ![p] = [Idle EXCEPT !.op = "claim", !.gift = c,
                       !.pc = "lease", !.start = clock', !.initial = TRUE,
                       !.wallet = wallet]]
      BY <1>1, <1>7, <2>2, <3>1 DEF TakeClaim, FreshStart, NextStart
    <3>3. PICK row : row = [card[c] EXCEPT !.status = "claim_pending",
                              !.wallet = wallet, !.started = clock']
      OBVIOUS
    <3>4. /\ row.started = clock' /\ row.nonce = card[c].nonce /\ row.wallet = wallet
          /\ row.claimHash = card[c].claimHash /\ row.returnHash = card[c].returnHash
      BY <1>2, <3>3 DEF Rows
    <3>5. /\ req'[p].pc = "lease" /\ req'[p].op = "claim" /\ req'[p].gift = c
          /\ req'[p].nonce = NoNonce /\ req'[p].wallet = wallet /\ OnlyReq(p)
      BY <3>2 DEF Idle, TypeOK, OnlyReq
    <3>6. card' = [card EXCEPT ![c] = row]  BY <3>2, <3>3
    <3>7. card[c].status \in Unsent  BY <3>2 DEF Unsent
    <3>8. Destination("claim", c, row) = req'[p].wallet  BY <3>4, <3>5 DEF Destination
    <3>. QED  BY <1>6, <3>2, <3>4, <3>5, <3>6, <3>7, <3>8
  <2>. QED  BY <2>1, <2>2
<1>8. CASE TakeReturn(p)
  <2>1. PICK status : status = req[p].seen.status  OBVIOUS
  <2>2. status \in {"pending_escrow", "active"}
    BY <1>8, <2>1 DEF TakeReturn, At, TypeOK, Invocations
  <2>3. CASE UNCHANGED card /\ Return(p)  BY <1>5, <2>3
  <2>4. CASE /\ card[c].status = status /\ clock' = clock + 1
             /\ card' = [card EXCEPT ![c] = [card[c] EXCEPT !.status = "cancel_pending",
                           !.from = status, !.started = clock']]
             /\ req' = [req EXCEPT ![p] = [Idle EXCEPT !.op = "cancel",
                          !.gift = c, !.pc = "lease", !.start = clock',
                          !.initial = TRUE, !.wallet = SenderOf[c],
                          !.seen.status = status]]
    <3>1. PICK row : row = [card[c] EXCEPT !.status = "cancel_pending",
                              !.from = status, !.started = clock']
      OBVIOUS
    <3>2. /\ row.started = clock' /\ row.nonce = card[c].nonce
          /\ row.claimHash = card[c].claimHash /\ row.returnHash = card[c].returnHash
      BY <1>2, <3>1 DEF Rows
    <3>3. /\ req'[p].pc = "lease" /\ req'[p].op = "cancel" /\ req'[p].gift = c
          /\ req'[p].nonce = NoNonce /\ req'[p].wallet = SenderOf[c] /\ OnlyReq(p)
      BY <2>4 DEF Idle, TypeOK, OnlyReq
    <3>4. card' = [card EXCEPT ![c] = row]  BY <2>4, <3>1
    <3>5. card[c].status \in Unsent  BY <2>2, <2>4 DEF Unsent
    <3>6. Destination("cancel", c, row) = req'[p].wallet  BY <3>3 DEF Destination
    <3>. QED  BY <1>6, <2>4, <3>2, <3>3, <3>4, <3>5, <3>6
  <2>5. CASE /\ card[c].status = status
             /\ card' = [card EXCEPT ![c] = [card[c] EXCEPT !.status = "cancelled",
                           !.from = None, !.started = NoStart]]
             /\ Goto(p, "retire")
    <3>1. PICK row : row = [card[c] EXCEPT !.status = "cancelled", !.from = None,
                                           !.started = NoStart]
      OBVIOUS
    <3>2. /\ row.status = "cancelled"
          /\ row.claimHash = card[c].claimHash /\ row.returnHash = card[c].returnHash
      BY <1>2, <3>1 DEF Rows
    <3>3. row.claimHash = NoHash /\ row.returnHash = NoHash
      BY <2>2, <2>5, <3>2 DEF MovesSound, RowSound, Unsent
    <3>4. Update(c, TRUE, row)  BY <2>5, <3>1 DEF Update
    <3>. QED  BY <1>0, <1>4, <2>5, <3>2, <3>3, <3>4, CloseUpdate DEF Terminal
  <2>. QED
    BY <1>1, <1>8, <2>1, <2>3, <2>4, <2>5 DEF TakeReturn, FreshStart, NextStart
<1>9. CASE CancelLegacy(p)
  <2>1. PICK status : status = req[p].seen.status  OBVIOUS
  <2>2. PICK row : row = [card[c] EXCEPT !.status = "cancelled"]  OBVIOUS
  <2>3. Update(c, card[c].status = status, row) /\ Return(p)
    BY <1>1, <1>9, <2>1, <2>2 DEF CancelLegacy
  <2>4. status # "claim_pending" /\ status \notin Terminal
    BY <1>9, <2>1 DEF CancelLegacy, At, LedgerInv, CarriesOwn, RetireInv, RetiresClosed,
                      OpenStatus, Terminal
  <2>5. /\ row.status = "cancelled"
        /\ row.claimHash = card[c].claimHash /\ row.returnHash = card[c].returnHash
    BY <1>2, <2>2 DEF Rows
  <2>6. ASSUME card[c].status = status
        PROVE  /\ row.claimHash = NoHash
               /\ row.returnHash # NoHash => HashIs(c, row.returnHash, SenderOf[c])
    BY <2>4, <2>5, <2>6 DEF MovesSound, RowSound, Terminal
  <2>. QED  BY <1>0, <1>3, <2>3, <2>5, <2>6, CloseUpdate DEF Terminal
<1>10. CASE CancelRetire(p)
  <2>1. PICK row : row = [Cleared(card[c]) EXCEPT !.status = "cancelled",
                            !.returnHash = NoHash, !.from = None]
    OBVIOUS
  <2>2. Update(c, TRUE, row) /\ Return(p)
    BY <1>1, <1>10, <2>1 DEF CancelRetire, Update
  <2>3. card[c].status = "cancelled"
    BY <1>1, <1>10 DEF CancelRetire, At, RetireInv, RetiresClosed
  <2>4. Cleared(card[c]) \in Rows /\ Cleared(card[c]).claimHash = card[c].claimHash
    BY <1>2, RowMarks
  <2>5. row.status = "cancelled" /\ row.returnHash = NoHash /\ row.claimHash = card[c].claimHash
    BY <2>1, <2>4 DEF Rows
  <2>6. row.claimHash = NoHash  BY <2>3, <2>5 DEF MovesSound, RowSound
  <2>. QED  BY <1>0, <1>3, <2>2, <2>5, <2>6, CloseUpdate DEF Terminal
<1>. QED  BY <1>7, <1>8, <1>9, <1>10
-----------------------------------------------------------------------------
\* The transfer.

\* An attempt that only moves on.
LEMMA MovesEarly ==
  ASSUME TypeOK, TypeOK', LedgerInv, MovesSound, UNCHANGED <<card, txs, latest>>,
         NEW p \in Reqs, NEW s \in {"simulate", "undo"}, Goto(p, s), req[p].pc \in Early,
         s = "simulate" => req[p].pc = "lease"
  PROVE  MovesSound'
<1>1. /\ req'[p].pc = s /\ req'[p].op = req[p].op /\ req'[p].gift = req[p].gift
      /\ req'[p].wallet = req[p].wallet /\ req'[p].start = req[p].start
      /\ req'[p].initial = req[p].initial /\ req'[p].nonce = req[p].nonce
      /\ OnlyReq(p)
  BY GotoFields DEF OnlyReq
<1>2. Mine(p)' => AttemptSound(p)'
  <2>1. Mine(p)' => Mine(p) /\ AttemptSound(p)  BY <1>1 DEF Mine, MovesSound
  <2>. QED  BY <1>1, <2>1 DEF AttemptSound
<1>3. req'[p].pc \notin Sending  BY <1>1 DEF Sending
<1>. QED  BY <1>1, <1>2, <1>3, MovesUpdate

\* The nonce an attempt of a pending operation goes on with.
LEMMA MovesSimulate ==
  ASSUME GiftConstants, TypeOK, TypeOK', LedgerInv, MovesSound, NEW p \in Reqs, Simulate(p)
  PROVE  MovesSound'
<1>1. /\ UNCHANGED <<card, txs, latest>> /\ req[p].pc = "simulate"
      /\ req[p] \in Requests /\ req[p].gift \in Cards
  BY Running DEF Simulate, ledgerOnly
<1>2. PICK c \in Cards : c = req[p].gift  BY <1>1
<1>3. PICK n \in latest .. latest + Len(txs) :
        req' = [req EXCEPT ![p] = [@ EXCEPT !.pc = "record",
                  !.nonce = IF req[p].nonce = NoNonce THEN n ELSE req[p].nonce]]
  BY DEF Simulate
<1>8. PICK nonce : nonce = IF req[p].nonce = NoNonce THEN n ELSE req[p].nonce  OBVIOUS
<1>4. n \in Nat /\ n >= latest /\ latest \in Nat  BY CountIsNat DEF TypeOK
<1>5. /\ req'[p].pc = "record" /\ req'[p].nonce = nonce /\ req'[p].op = req[p].op
      /\ req'[p].gift = c /\ req'[p].wallet = req[p].wallet
      /\ req'[p].start = req[p].start /\ req'[p].initial = req[p].initial
      /\ OnlyReq(p)
  <2>1. req' = [req EXCEPT ![p] = [req[p] EXCEPT !.pc = "record", !.nonce = nonce]]
    BY <1>3, <1>8
  <2>2. req'[p] = [req[p] EXCEPT !.pc = "record", !.nonce = nonce] /\ OnlyReq(p)
    BY <2>1 DEF TypeOK, OnlyReq
  <2>. QED  BY <1>1, <1>2, <2>2 DEF Requests
<1>6. ASSUME Mine(p)'  PROVE AttemptSound(p)'
  <2>1. Mine(p) /\ AttemptSound(p)
    <3>1. Mine(p)  BY <1>1, <1>2, <1>5, <1>6 DEF Mine, Early
    <3>. QED  BY <3>1 DEF MovesSound
  <2>2. /\ HashOf(card[c], req[p].op) = NoHash
        /\ Destination(req[p].op, c, card[c]) = req[p].wallet
        /\ req[p].nonce \in {NoNonce, card[c].nonce}
        /\ req[p].nonce = card[c].nonce \/ card[c].nonce < latest
        /\ req[p].initial => card[c].nonce = NoNonce
    BY <1>1, <1>2, <2>1 DEF AttemptSound
  <2>3. card[c].status = PendingStatus(req[p].op) /\ card[c].status \in Pend
    BY <1>2, <2>1 DEF Mine, PendingStatus, Pend
  <2>4. nonce = card[c].nonce \/ card[c].nonce < latest
    BY <1>3, <1>8, <1>4, <2>2 DEF NoNonce
  <2>5. ASSUME req[p].op = "claim", NEW q \in Reqs, SendsClaim(q, c, nonce)'
        PROVE  req'[q].wallet = req[p].wallet
    <3>1. q # p  BY <1>5, <2>5 DEF SendsClaim, Sending
    <3>2. SendsClaim(q, c, nonce) /\ req'[q] = req[q]
      BY <1>5, <2>5, <3>1 DEF SendsClaim, OnlyReq
    <3>3. CASE req[p].nonce # NoNonce
      <4>1. nonce = card[c].nonce  BY <1>3, <1>8, <2>2, <3>3
      <4>2. card[c].status = "claim_pending"  BY <2>3, <2>5 DEF PendingStatus
      <4>3. req[q].gift = c  BY <3>2 DEF SendsClaim
      <4>4. req[q].wallet = card[c].wallet
        BY <3>2, <4>1, <4>2, <4>3 DEF MovesSound, SentSound
      <4>. QED  BY <2>2, <2>5, <3>2, <4>4 DEF Destination
    <3>4. CASE req[p].nonce = NoNonce
      <4>1. nonce = n  BY <1>3, <1>8, <3>4
      <4>2. Out(c, n)  BY <1>4, <3>2, <4>1 DEF Out, SendsClaim
      <4>3. card[c].nonce = NoNonce \/ card[c].nonce < latest  BY <2>2, <3>4
      <4>. QED  BY <1>4, <2>3, <4>2, <4>3, NothingOut
    <3>. QED  BY <3>3, <3>4
  <2>. QED  BY <1>1, <1>5, <2>2, <2>4, <2>5 DEF AttemptSound
<1>7. req'[p].pc \notin Sending  BY <1>5 DEF Sending
<1>. QED  BY <1>1, <1>5, <1>6, <1>7, MovesUpdate

\* The row takes the nonce of the attempt, which is then all that can be out.
LEMMA MovesRecord ==
  ASSUME GiftConstants, TypeOK, TypeOK', LedgerInv, MovesSound, NEW p \in Reqs, RecordNonce(p)
  PROVE  MovesSound'
<1>1. /\ UNCHANGED <<txs, latest>> /\ req[p].pc = "record"
      /\ req[p] \in Requests /\ req[p].gift \in Cards
  BY Running DEF RecordNonce, ledgerOnly
<1>2. PICK c \in Cards : c = req[p].gift  BY <1>1
<1>3. CASE UNCHANGED card /\ Goto(p, IF req[p].initial THEN "undo" ELSE "release")
  <2>1. CASE req[p].initial
    <3>1. req[p].pc \in Early  BY <1>1 DEF Early
    <3>. QED  BY <1>1, <1>3, <2>1, <3>1, MovesEarly
  <2>2. CASE ~req[p].initial
    <3>1. "release" \notin Early \cup Sending  BY DEF Early, Sending
    <3>. QED  BY <1>1, <1>3, <2>2, <3>1, MovesGoto
  <2>. QED  BY <2>1, <2>2
<1>4. PICK own : own = req[p].nonce  OBVIOUS
<1>5. CASE /\ Mine(p) /\ clock' = clock + 1 /\ Goto(p, "broadcast")
           /\ card' = [card EXCEPT ![c] = [card[c] EXCEPT !.nonce = own, !.started = clock']]
  <2>1. /\ \A d \in Cards \ {c} : card'[d] = card[d]
        /\ card'[c].nonce = own /\ card'[c].started = clock + 1
        /\ card'[c].status = card[c].status /\ card'[c].wallet = card[c].wallet
        /\ card'[c].claimHash = card[c].claimHash /\ card'[c].returnHash = card[c].returnHash
        /\ clock \in Nat
    <3>1. card'[c] = [card[c] EXCEPT !.nonce = own, !.started = clock']
          /\ \A d \in Cards \ {c} : card'[d] = card[d]
      BY <1>5 DEF TypeOK
    <3>2. card[c] \in Rows  BY DEF TypeOK
    <3>. QED  BY <1>5, <3>1, <3>2 DEF Rows, TypeOK
  <2>2. /\ req'[p].pc = "broadcast" /\ req'[p].op = req[p].op /\ req'[p].gift = c
        /\ req'[p].wallet = req[p].wallet /\ req'[p].nonce = own /\ OnlyReq(p)
    BY <1>2, <1>4, <1>5, GotoFields DEF OnlyReq
  <2>3. AttemptSound(p)  BY <1>5 DEF MovesSound
  <2>4. card[c].status = PendingStatus(req[p].op) /\ card[c].status \in Pend
    BY <1>2, <1>5 DEF Mine, PendingStatus, Pend
  <2>5. /\ HashOf(card[c], req[p].op) = NoHash
        /\ Destination(req[p].op, c, card[c]) = req[p].wallet
        /\ own = card[c].nonce \/ card[c].nonce < latest
        /\ req[p].op = "claim" =>
             \A q \in Reqs : SendsClaim(q, c, own) => req[q].wallet = req[p].wallet
    BY <1>1, <1>2, <1>4, <2>3 DEF AttemptSound
  <2>6. \A n \in Nat : Out(c, n) => n = own
    <3>1. CASE own = card[c].nonce  BY <2>4, <3>1 DEF MovesSound, RowSound
    <3>2. CASE card[c].nonce < latest  BY <2>4, <3>2, NothingOut
    <3>. QED  BY <2>5, <3>1, <3>2
  <2>7. ASSUME NEW d \in Cards, NEW n \in Nat, Out(d, n)'
        PROVE  Out(d, n) \/ (d = c /\ n = own)
    <3>1. CASE \E i \in DOMAIN txs' :
                 txs'[i].gift = d /\ txs'[i].state = "pending" /\ txs'[i].nonce = n
      BY <1>1, <3>1 DEF Out
    <3>2. ASSUME n >= latest', NEW q \in Reqs, req'[q].gift = d, req'[q].pc \in Sending,
                 req'[q].nonce = n
          PROVE  Out(d, n) \/ (d = c /\ n = own)
      <4>1. CASE q = p  BY <2>2, <3>2, <4>1
      <4>2. CASE q # p  BY <1>1, <2>2, <3>2, <4>2 DEF Out, OnlyReq
      <4>. QED  BY <4>1, <4>2
    <3>. QED  BY <2>7, <3>1, <3>2 DEF Out
  <2>8. TxsKept  BY <1>1, TxsStill
  <2>9. ASSUME NEW d \in Cards  PROVE RowSound(d)' /\ QuietRow(p, d)
    <3>1. CASE d # c
      <4>1. SameRow(d) /\ SameMarks(d)  BY <2>1, <3>1 DEF SameRow, SameMarks
      <4>2. OutShrinks(d)  BY <2>7, <3>1 DEF OutShrinks
      <4>3. RowSound(d)  BY DEF MovesSound
      <4>4. RowSound(d)'  BY <2>8, <4>1, <4>2, <4>3, RowKept
      <4>. QED  BY <4>1, <4>4 DEF QuietRow
    <3>2. CASE d = c
      <4>1. \A n \in Nat : Out(d, n)' => n = card'[d].nonce  BY <2>1, <2>6, <2>7, <3>2
      <4>2. card'[d].claimHash = NoHash /\ card'[d].returnHash = NoHash
        BY <2>1, <2>4, <2>5, <3>2, OneHash DEF HashOf
      <4>3. card'[d].status \in Pend /\ card'[d].status \notin Unsent
        BY <2>1, <2>4, <3>2 DEF Pend, Unsent
      <4>4. RowSound(d)'  BY <4>1, <4>2, <4>3 DEF RowSound
      <4>5. card'[d].started \notin 1 .. clock  BY <2>1, <3>2
      <4>. QED  BY <4>4, <4>5 DEF QuietRow
    <3>. QED  BY <3>1, <3>2
  <2>10. ASSUME NEW q \in Reqs \ {p}  PROVE SentSound(q)'
    <3>1. req'[q] = req[q] /\ SentSound(q)  BY <2>2 DEF OnlyReq, MovesSound
    <3>2. CASE req[q].pc \notin Sending  BY <3>1, <3>2 DEF SentSound, SendsClaim
    <3>3. CASE req[q].pc \in Sending /\ req[q].gift # c
      <4>1. req[q].gift \in Cards  BY <3>3, Running DEF Sending
      <4>. QED  BY <2>1, <3>1, <3>3, <4>1 DEF SentSound, SendsClaim
    <3>4. CASE req[q].pc \in Sending /\ req[q].gift = c
      <4>1. SUFFICES ASSUME SendsClaim(q, c, own), card[c].status = "claim_pending"
                     PROVE  req[q].wallet = card[c].wallet
        BY <2>1, <3>1, <3>4 DEF SentSound, SendsClaim
      <4>2. req[p].op = "claim"  BY <2>4, <4>1 DEF PendingStatus
      <4>. QED  BY <2>5, <4>1, <4>2 DEF Destination
    <3>. QED  BY <3>2, <3>3, <3>4
  <2>11. SentSound(p)'
    <3>1. SUFFICES ASSUME req[p].op = "claim"  PROVE req[p].wallet = card[c].wallet
      BY <2>1, <2>2 DEF SentSound, SendsClaim
    <3>. QED  BY <2>5, <3>1 DEF Destination
  <2>12. card'[req'[p].gift].started \notin 1 .. clock  BY <2>1, <2>2
  <2>13. ~Mine(p)'  BY <2>2 DEF Mine, Early
  <2>14. latest' >= latest  BY <2>8 DEF TxsKept
  <2>. QED  BY <2>2, <2>9, <2>10, <2>11, <2>12, <2>13, <2>14, MovesFrame
<1>. QED
  BY <1>1, <1>2, <1>3, <1>4, <1>5 DEF RecordNonce, Mine, Early, NextStart

\* What is broadcast, as card c's transfer to w, was out already.
BroadcastOf(p, c, w, n) ==
  /\ UNCHANGED <<card, latest>> /\ req[p].pc = "broadcast" /\ n >= latest
  /\ c = req[p].gift /\ w = req[p].wallet /\ n = req[p].nonce
  /\ TxsKept /\ DOMAIN txs' = DOMAIN txs \cup {Len(txs) + 1}
  /\ txs'[Len(txs) + 1] = [gift |-> c, to |-> w, nonce |-> n, state |-> "pending"]
  /\ \A j \in DOMAIN txs : /\ txs'[j].gift = txs[j].gift /\ txs'[j].nonce = txs[j].nonce
                           /\ txs'[j].state = "pending" => txs[j].state = "pending"
  /\ OnlyReq(p) /\ NoNewSend(p)
  /\ \/ req'[p].pc = "idle"
     \/ /\ req'[p].pc = "hash" /\ req'[p].op = req[p].op /\ req'[p].gift = c
        /\ req'[p].wallet = w /\ req'[p].nonce = n /\ req'[p].hash = Len(txs) + 1
  /\ \A d \in Cards : OutShrinks(d)

LEMMA BroadcastOut ==
  ASSUME GiftConstants, TypeOK, TypeOK', LedgerInv, NEW p \in Reqs, Broadcast(p)
  PROVE  \E c \in Cards, w \in Users \cup {None}, n \in Nat : BroadcastOf(p, c, w, n)
<1>1. /\ UNCHANGED <<card, latest>> /\ req[p].pc = "broadcast"
      /\ req[p] \in Requests /\ req[p].gift \in Cards
  BY Running DEF Broadcast
<1>2. PICK c \in Cards : c = req[p].gift  BY <1>1
<1>3. PICK n \in Nat : n = req[p].nonce
  BY <1>1, SentHasNonce DEF Sending
<1>4. PICK w \in Users \cup {None} : w = req[p].wallet  BY <1>1 DEF Requests
<1>5. n >= latest /\ Accept(c, w, n)  BY <1>2, <1>3, <1>4 DEF Broadcast
<1>6. /\ TxsKept /\ DOMAIN txs' = DOMAIN txs \cup {Len(txs) + 1}
      /\ txs'[Len(txs) + 1] = [gift |-> c, to |-> w, nonce |-> n, state |-> "pending"]
      /\ \A j \in DOMAIN txs : /\ txs'[j].gift = txs[j].gift /\ txs'[j].nonce = txs[j].nonce
                               /\ txs'[j].state = "pending" => txs[j].state = "pending"
  BY <1>1, <1>5, TxAccepted
<1>7. /\ OnlyReq(p)
      /\ \/ req'[p].pc = "idle"
         \/ /\ req'[p].pc = "hash" /\ req'[p].op = req[p].op /\ req'[p].gift = c
            /\ req'[p].wallet = w /\ req'[p].nonce = n /\ req'[p].hash = Len(txs) + 1
  <2>1. CASE ReturnKeepingLease(p)
    BY <2>1, ReturnFields DEF ReturnKeepingLease, OnlyReq
  <2>2. CASE req' = [req EXCEPT ![p] = [@ EXCEPT !.pc = "hash", !.hash = Len(txs) + 1]]
    <3>1. req'[p] = [req[p] EXCEPT !.pc = "hash", !.hash = Len(txs) + 1] /\ OnlyReq(p)
      BY <2>2 DEF TypeOK, OnlyReq
    <3>. QED  BY <1>1, <1>2, <1>3, <1>4, <3>1 DEF Requests
  <2>. QED  BY <2>1, <2>2 DEF Broadcast
<1>8. NoNewSend(p)
  BY <1>1, <1>2, <1>3, <1>4, <1>7 DEF NoNewSend, Sending
<1>9. Out(c, n)  BY <1>1, <1>2, <1>3, <1>5 DEF Out, Sending
<1>10. ASSUME NEW d \in Cards  PROVE OutShrinks(d)
  <2>. SUFFICES ASSUME NEW m \in Nat, Out(d, m)'  PROVE Out(d, m)
    BY DEF OutShrinks
  <2>1. ASSUME NEW i \in DOMAIN txs', txs'[i].gift = d, txs'[i].state = "pending",
               txs'[i].nonce = m
        PROVE  Out(d, m)
    <3>1. CASE i = Len(txs) + 1  BY <1>6, <1>9, <2>1, <3>1
    <3>2. CASE i \in DOMAIN txs  BY <1>6, <2>1, <3>2 DEF Out
    <3>. QED  BY <1>6, <3>1, <3>2
  <2>2. ASSUME m >= latest', NEW q \in Reqs, req'[q].gift = d, req'[q].pc \in Sending,
               req'[q].nonce = m
        PROVE  Out(d, m)
    <3>1. req[q].gift = d /\ req[q].pc \in Sending /\ req[q].nonce = m
      BY <1>7, <1>8, <2>2 DEF OnlyReq, NoNewSend
    <3>. QED  BY <1>1, <2>2, <3>1 DEF Out
  <2>. QED  BY <2>1, <2>2 DEF Out
<1>11. BroadcastOf(p, c, w, n)
  BY <1>1, <1>2, <1>3, <1>4, <1>5, <1>6, <1>7, <1>8, <1>10 DEF BroadcastOf
<1>. QED  BY <1>11

LEMMA MovesBroadcast ==
  ASSUME GiftConstants, TypeOK, TypeOK', LedgerInv, MovesSound, NEW p \in Reqs, Broadcast(p)
  PROVE  MovesSound'
<1>1. PICK c \in Cards, w \in Users \cup {None}, n \in Nat : BroadcastOf(p, c, w, n)  BY BroadcastOut
<1>2. /\ UNCHANGED <<card, latest>> /\ req[p].pc = "broadcast" /\ TxsKept
      /\ c = req[p].gift /\ w = req[p].wallet /\ n = req[p].nonce
      /\ OnlyReq(p) /\ NoNewSend(p) /\ \A d \in Cards : OutShrinks(d)
      /\ \/ req'[p].pc = "idle"
         \/ /\ req'[p].pc = "hash" /\ req'[p].op = req[p].op /\ req'[p].gift = c
            /\ req'[p].wallet = w /\ req'[p].nonce = n
  BY <1>1 DEF BroadcastOf
<1>3. ASSUME NEW d \in Cards  PROVE RowSound(d)' /\ QuietRow(p, d) /\ QuietNonce(d)
  <2>1. SameRow(d) /\ SameMarks(d)  BY <1>2 DEF SameRow, SameMarks
  <2>2. RowSound(d)  BY DEF MovesSound
  <2>3. RowSound(d)'  BY <1>2, <2>1, <2>2, RowKept
  <2>. QED  BY <1>2, <2>1, <2>3 DEF QuietRow, QuietNonce
<1>4. \A q \in Reqs \ {p} : SentSound(q)'  BY <1>2, <1>3, SentKept
<1>5. SentSound(p)'
  <2>1. SentSound(p)  BY DEF MovesSound
  <2>. QED  BY <1>2, <2>1 DEF SentSound, SendsClaim, Sending
<1>6. ~Mine(p)'  BY <1>2 DEF Mine, Early
<1>. QED  BY <1>2, <1>3, <1>4, <1>5, <1>6, MovesFrame DEF TxsKept

\* The hash an attempt reports is of the transfer its row names.
LEMMA MovesHash ==
  ASSUME GiftConstants, TypeOK, TypeOK', LedgerInv, MovesSound, NEW p \in Reqs, RecordHash(p),
         ReportsInTime
  PROVE  MovesSound'
<1>1. /\ UNCHANGED <<txs, latest>> /\ req[p].pc = "hash"
      /\ req[p] \in Requests /\ req[p].gift \in Cards
  BY Running DEF RecordHash, ledgerOnly
<1>2. PICK c \in Cards : c = req[p].gift  BY <1>1
<1>3. PICK op, h, w : op = req[p].op /\ h = req[p].hash /\ w = req[p].wallet  OBVIOUS
<1>4. PICK row : row = IF op = "claim" THEN [card[c] EXCEPT !.claimHash = h]
                       ELSE [card[c] EXCEPT !.returnHash = h]
  OBVIOUS
<1>5. Update(c, card[c].status = PendingStatus(op), row) /\ Goto(p, "receipt")
  BY <1>2, <1>3, <1>4 DEF RecordHash
<1>6. "receipt" \notin Early \cup Sending  BY DEF Early, Sending
<1>7. CASE UNCHANGED card  BY <1>1, <1>5, <1>6, <1>7, MovesGoto
<1>8. CASE card' # card
  <2>1. card[c].nonce = req[p].nonce /\ \A q \in Reqs : ~Trying(q, c)
    BY <1>2, <1>8 DEF ReportsInTime
  <2>2. card[c].status = PendingStatus(op)  BY <1>5, <1>8 DEF Update
  <2>3. /\ row.status = card[c].status /\ row.nonce = card[c].nonce
        /\ row.wallet = card[c].wallet /\ row.started = card[c].started
        /\ op = "claim" => row.claimHash = h /\ row.returnHash = card[c].returnHash
        /\ op # "claim" => row.returnHash = h /\ row.claimHash = card[c].claimHash
    <3>1. card[c] \in Rows  BY DEF TypeOK
    <3>. QED  BY <1>4, <3>1 DEF Rows
  <2>4. HashIs(c, h, w) /\ txs[h].nonce = card[c].nonce
    BY <1>1, <1>2, <1>3, <2>1 DEF LedgerInv, CarriesOwn, Hashed
  <2>5. /\ op = "claim" => w = card[c].wallet
        /\ op # "claim" => w = SenderOf[c]
    <3>1. ASSUME op = "claim"  PROVE w = card[c].wallet
      BY <1>1, <1>2, <1>3, <2>1, <2>2, <3>1
      DEF MovesSound, SentSound, SendsClaim, Sending, PendingStatus
    <3>2. ASSUME op # "claim"  PROVE w = SenderOf[c]
      BY <1>1, <1>2, <1>3, <3>2 DEF LedgerInv, CarriesOwn, Hashed
    <3>. QED  BY <3>1, <3>2
  <2>6. OnlyReq(p) /\ req'[p].pc \notin Sending
    BY <1>5, GotoFields DEF OnlyReq, Sending
  <2>7. NoNewSend(p) /\ TxsKept  BY <1>1, <2>6, TxsStill DEF NoNewSend
  <2>8. ASSUME NEW d \in Cards, d = c, card'[d] = row
        PROVE  RowSound(d)' /\ QuietRow(p, d) /\ QuietNonce(d)
    <3>1. OutShrinks(d)  BY <1>1, <2>6, <2>7, OutStill
    <3>2. card[d].status \in Pend /\ card[d].status \notin Unsent
      BY <2>2, <2>8 DEF PendingStatus, Pend, Unsent
    <3>3. RowSound(d)  BY DEF MovesSound
    <3>4. \A n \in Nat : Out(d, n)' => n = card'[d].nonce
      BY <2>3, <2>8, <3>1, <3>2, <3>3 DEF OutShrinks, RowSound
    <3>5. RowSound(d)'
      <4>1. CASE op = "claim"
        <5>1. /\ card'[d].status = "claim_pending" /\ card'[d].returnHash = NoHash
              /\ card'[d].status \notin Unsent
          BY <2>2, <2>3, <2>8, <4>1, OneHash DEF PendingStatus, Unsent
        <5>2. /\ card'[d].claimHash \in DOMAIN txs' /\ txs'[card'[d].claimHash].gift = d
              /\ txs'[card'[d].claimHash].to = card'[d].wallet
              /\ txs'[card'[d].claimHash].nonce = card'[d].nonce
          BY <1>1, <2>3, <2>4, <2>5, <2>8, <4>1 DEF HashIs
        <5>. QED  BY <3>4, <5>1, <5>2 DEF RowSound, HashIs
      <4>2. CASE op # "claim"
        <5>1. /\ card'[d].status = "cancel_pending" /\ card'[d].claimHash = NoHash
              /\ card'[d].status \notin Unsent
          BY <2>2, <2>3, <2>8, <4>2, OneHash DEF PendingStatus, Unsent
        <5>2. /\ card'[d].returnHash \in DOMAIN txs' /\ txs'[card'[d].returnHash].gift = d
              /\ txs'[card'[d].returnHash].to = SenderOf[d]
              /\ txs'[card'[d].returnHash].nonce = card'[d].nonce
          BY <1>1, <2>3, <2>4, <2>5, <2>8, <4>2 DEF HashIs
        <5>. QED  BY <3>4, <5>1, <5>2 DEF RowSound, HashIs
      <4>. QED  BY <4>1, <4>2
    <3>6. QuietRow(p, d)  BY <2>1, <2>3, <2>8 DEF QuietRow
    <3>7. QuietNonce(d)  BY <2>3, <2>8 DEF QuietNonce
    <3>. QED  BY <3>5, <3>6, <3>7
  <2>9. ASSUME NEW d \in Cards
        PROVE  card'[d] = card[d] \/ (RowSound(d)' /\ QuietRow(p, d) /\ QuietNonce(d))
    <3>1. card'[d] = card[d] \/ (d = c /\ card'[d] = row)
      BY <1>5, <2>2, UpdateFields
    <3>. QED  BY <2>8, <3>1
  <2>10. req'[p].pc \notin Early \cup Sending
    BY <1>5, <1>6, GotoFields
  <2>. QED  BY <1>1, <2>6, <2>9, <2>10, MovesAside
<1>. QED  BY <1>7, <1>8

\* An attempt that broadcast nothing is undone, one that is confirmed closes its card.
LEMMA MovesEnd ==
  ASSUME GiftConstants, TypeOK, TypeOK', LedgerInv, MovesSound, NEW p \in Reqs,
         UndoAttempt(p) \/ Finalize(p)
  PROVE  MovesSound'
<1>1. /\ UNCHANGED <<txs, latest>>
      /\ req[p] \in Requests /\ req[p].gift \in Cards
  BY Running DEF UndoAttempt, Finalize, ledgerOnly
<1>2. PICK c \in Cards : c = req[p].gift  BY <1>1
<1>3. PICK op, h : op = req[p].op /\ h = req[p].hash  OBVIOUS
<1>4. card[c] \in Rows  BY DEF TypeOK
<1>5. CASE UndoAttempt(p)
  <2>1. PICK status : status = req[p].seen.status  OBVIOUS
  <2>2. PICK row : row = IF op = "claim" THEN ReopenedClaim(card[c])
                         ELSE ReopenedReturn(card[c], status)
    OBVIOUS
  <2>3. PICK mine \in BOOLEAN :
          mine <=> card[c].status = PendingStatus(op) /\ card[c].started = req[p].start
    OBVIOUS
  <2>4. Update(c, mine, row) /\ Goto(p, "release")
    BY <1>2, <1>3, <1>5, <2>1, <2>2, <2>3 DEF UndoAttempt, Update
  <2>5. /\ row.nonce = NoNonce /\ row.started = NoStart
        /\ row.claimHash = card[c].claimHash /\ row.returnHash = card[c].returnHash
    BY <1>4, <2>2, RowMarks
  <2>6. ASSUME mine
        PROVE  /\ card[c].status \in Pend /\ card[c].nonce = NoNonce
               /\ row.claimHash = NoHash /\ row.returnHash = NoHash
    <3>1. Mine(p)  BY <1>2, <1>3, <1>5, <2>3, <2>6 DEF UndoAttempt, Mine, Early
    <3>2. AttemptSound(p) /\ req[p].initial
      BY <1>5, <3>1 DEF UndoAttempt, MovesSound, LedgerInv, CarriesOwn
    <3>3. HashOf(card[c], op) = NoHash /\ card[c].nonce = NoNonce
      BY <1>2, <1>3, <3>2 DEF AttemptSound
    <3>4. card[c].status = PendingStatus(op)  BY <2>3, <2>6
    <3>. QED  BY <2>5, <3>3, <3>4, OneHash DEF HashOf
  <2>7. OnlyReq(p) /\ req'[p].pc \notin Early \cup Sending
    BY <2>4, GotoFields DEF OnlyReq, Early, Sending
  <2>. QED  BY <1>1, <2>4, <2>5, <2>6, <2>7, BlankUpdate
<1>6. CASE Finalize(p)
  <2>1. PICK row : row = IF op = "claim" THEN [Cleared(card[c]) EXCEPT !.status = "claimed"]
                         ELSE [Cleared(card[c]) EXCEPT !.status = "cancelled",
                                 !.returnHash = h, !.from = None]
    OBVIOUS
  <2>2. Update(c, card[c].status = PendingStatus(op), row) /\ Return(p)
    BY <1>2, <1>3, <1>6, <2>1 DEF Finalize
  <2>3. /\ row.claimHash = card[c].claimHash /\ row.wallet = card[c].wallet
        /\ op = "claim" => row.status = "claimed" /\ row.returnHash = card[c].returnHash
        /\ op # "claim" => row.status = "cancelled" /\ row.returnHash = h
    <3>1. Cleared(card[c]) \in Rows  BY <1>4, RowMarks
    <3>. QED  BY <1>4, <2>1, <3>1, RowMarks DEF Rows
  <2>4. op # "claim" => HashIs(c, h, SenderOf[c])
    BY <1>2, <1>3, <1>6 DEF Finalize, LedgerInv, CarriesOwn, Hashed
  <2>5. ASSUME card[c].status = PendingStatus(op)
        PROVE  /\ row.claimHash # NoHash => row.status = "claimed"
               /\ row.returnHash # NoHash =>
                    row.status = "cancelled" /\ HashIs(c, row.returnHash, SenderOf[c])
    BY <2>3, <2>4, <2>5, OneHash
  <2>6. row.status \in Terminal  BY <2>3 DEF Terminal
  <2>7. OnlyReq(p) /\ req'[p].pc \notin Early \cup Sending
    BY <2>2, ReturnFields DEF OnlyReq, Early, Sending
  <2>. QED  BY <1>1, <2>2, <2>3, <2>5, <2>6, <2>7, CloseUpdate
<1>. QED  BY <1>5, <1>6

\* The steps of submitClaimTransfer and submitReturn.
LEMMA MovesSubmit ==
  ASSUME GiftConstants, TypeOK, TypeOK', LedgerInv, MovesSound, NEW p \in Reqs,
         submitTransfer(p), ReportsInTime
  PROVE  MovesSound'
<1>1. ASSUME UNCHANGED <<card, txs, latest>>,
             \/ Return(p)
             \/ \E s \in {"release", "receipt", "release-final", "final"} : Goto(p, s)
      PROVE  MovesSound'
  <2>1. CASE Return(p)  BY <1>1, <2>1, MovesReturn
  <2>2. ASSUME NEW s \in {"release", "receipt", "release-final", "final"}, Goto(p, s)
        PROVE  MovesSound'
    <3>1. s \notin Early \cup Sending  BY DEF Early, Sending
    <3>. QED  BY <1>1, <2>2, <3>1, MovesGoto
  <2>. QED  BY <1>1, <2>1, <2>2
<1>2. CASE TakeLease(p)
  <2>1. UNCHANGED <<card, txs, latest>> /\ req[p].pc = "lease" /\ req[p].pc \in Early
    BY <1>2 DEF TakeLease, ledgerOnly, Early
  <2>2. Return(p) \/ \E s \in {"simulate", "undo"} : Goto(p, s)  BY <1>2 DEF TakeLease
  <2>. QED  BY <1>1, <2>1, <2>2, MovesEarly
<1>3. CASE SimulateFails(p)
  <2>1. UNCHANGED <<card, txs, latest>> /\ req[p].pc \in Early
    BY <1>3 DEF SimulateFails, ledgerOnly, Early
  <2>2. Goto(p, "undo") \/ Goto(p, "release")  BY <1>3 DEF SimulateFails
  <2>3. CASE Goto(p, "undo")
    <3>1. "undo" # "simulate"  OBVIOUS
    <3>. QED  BY <2>1, <2>3, <3>1, MovesEarly
  <2>. QED  BY <1>1, <2>1, <2>2, <2>3
<1>4. CASE BroadcastFails(p) \/ Confirmed(p) \/ Unconfirmed(p) \/ ReleaseLease(p)
  <2>1. UNCHANGED <<card, txs, latest>>
    BY <1>4 DEF BroadcastFails, Confirmed, Unconfirmed, ReleaseLease, ledgerOnly
  <2>. QED
    BY <1>1, <1>4, <2>1
    DEF BroadcastFails, Confirmed, Unconfirmed, ReleaseLease, ReturnKeepingLease
<1>. QED
  BY <1>2, <1>3, <1>4, MovesSimulate, MovesRecord, MovesBroadcast, MovesHash, MovesEnd
  DEF submitTransfer

-----------------------------------------------------------------------------
\* The theorems.

LEMMA MovesInit == GiftConstants /\ Init => MovesSound
<1>. SUFFICES ASSUME GiftConstants, Init  PROVE MovesSound  OBVIOUS
<1>1. \A p \in Reqs : req[p].pc = "idle"  BY DEF Init, Idle
<1>2. txs = <<>>  BY DEF Init
<1>3. \A c, n : ~Out(c, n)  BY <1>1, <1>2 DEF Out, Sending
<1>4. ASSUME NEW c \in Cards
      PROVE  /\ card[c].status \in Unsent /\ card[c].nonce = NoNonce
             /\ card[c].claimHash = NoHash /\ card[c].returnHash = NoHash
  BY DEF Init, LiveRow, NoRow, Unsent
<1>5. \A c \in Cards : RowSound(c)  BY <1>3, <1>4 DEF RowSound, Unsent, Pend
<1>. QED  BY <1>1, <1>5 DEF MovesSound, Mine, SentSound, SendsClaim, Early, Sending

\* Every step keeps MovesInv, as long as reports arrive in time.
LEMMA MovesStep ==
  GiftConstants /\ MovesInv /\ [Next /\ ReportsInTime]_vars => MovesInv'
<1>. SUFFICES ASSUME GiftConstants, MovesInv, [Next /\ ReportsInTime]_vars
              PROVE  MovesInv'
  OBVIOUS
<1>1. /\ TypeOK /\ TypeOK' /\ AttemptInv /\ RetireInv /\ LedgerInv /\ MovesSound
      /\ AttemptInv' /\ RetireInv' /\ LedgerInv'
  BY AttemptNext, RetireNext, LedgerStep DEF MovesInv, AttemptInv
<1>2. MovesSound'
  <2>1. CASE UNCHANGED vars
    <3>1. UNCHANGED <<card, req, txs, latest>>  BY <2>1 DEF vars
    <3>2. TxsKept  BY <1>1, <3>1, TxsStill
    <3>3. \A c \in Cards : OutShrinks(c)  BY <3>1 DEF OutShrinks, Out
    <3>. QED  BY <1>1, <3>1, <3>2, <3>3, MovesOutside
  <2>2. CASE CreateNext  BY <1>1, <2>2, MovesCreate
  <2>3. CASE Environment  BY <1>1, <2>3, MovesEnvironment
  <2>4. ASSUME NEW p \in Reqs, ClaimBegins(p) \/ CancelBegins(p) \/ TransferStep(p),
               ReportsInTime
        PROVE  MovesSound'
    BY <1>1, <2>4, MovesRead, MovesSettle, MovesTake, MovesSubmit DEF TransferStep
  <2>. QED  BY <2>1, <2>2, <2>3, <2>4 DEF Next, TransferNext
<1>. QED  BY <1>1, <1>2 DEF MovesInv

LEMMA MovesHolds == InTimeSpec => []MovesInv
<1>1. GiftConstants /\ Init => MovesInv
  BY AttemptInit, TypeInit, LedgerInit, MovesInit
  DEF MovesInv, RetireInv, RetiresClosed, Init, Idle
<1>. QED  BY GiftConstants, <1>1, MovesStep, PTL DEF InTimeSpec

\* Whatever is retried, crashed or raced, the transfers of one card that can still
\* be mined carry one nonce, and a card that may be claimed or cancelled afresh has
\* none: nothing the operator sent for it can move its token behind its row.
THEOREM TransfersShareNonce == InTimeSpec => []OneMovableNonce
<1>1. MovesInv => OneMovableNonce
  <2>. SUFFICES ASSUME MovesInv, NEW c \in Cards
                PROVE  /\ \A m, n \in MovableNonces(c) : m = n
                       /\ card[c].status \in {"pending_escrow", "active"} =>
                            MovableNonces(c) = {}
    BY DEF OneMovableNonce
  <2>0. TypeOK /\ LedgerInv /\ MovesSound  BY DEF MovesInv, AttemptInv
  <2>1. ASSUME NEW n \in MovableNonces(c)  PROVE n \in Nat /\ Out(c, n)
    <3>1. CASE \E i \in DOMAIN txs :
                 txs[i].gift = c /\ txs[i].state = "pending" /\ txs[i].nonce = n
      BY <2>0, <3>1, TxShapes DEF Out
    <3>2. CASE \E q \in Reqs : /\ req[q].gift = c /\ req[q].pc = "broadcast"
                               /\ req[q].nonce >= latest /\ req[q].nonce = n
      BY <2>0, <3>2, SentHasNonce DEF Out, Sending
    <3>. QED  BY <3>1, <3>2 DEF MovableNonces
  <2>2. RowSound(c)  BY <2>0 DEF MovesSound
  <2>3. \A m, n \in MovableNonces(c) : m = n  BY <2>1, <2>2 DEF RowSound
  <2>4. card[c].status \in {"pending_escrow", "active"} => MovableNonces(c) = {}
    BY <2>1, <2>2 DEF RowSound, Unsent
  <2>. QED  BY <2>3, <2>4
<1>. QED  BY <1>1, MovesHolds, PTL

\* A hash in a row is that of a transfer of its card, to the wallet the row names or
\* back to the sender.
THEOREM HashesAreOwn == InTimeSpec => []HashIsOwnTransfer
<1>1. MovesInv => HashIsOwnTransfer
  BY DEF MovesInv, MovesSound, RowSound, HashIs, HashIsOwnTransfer
<1>. QED  BY <1>1, MovesHolds, PTL

-----------------------------------------------------------------------------
\* A transfer of card c was mined; c is finished, or one was.
Sent(c) == \E i \in DOMAIN txs : txs[i].gift = c /\ txs[i].state = "success"
Done(c) == card[c].status \in Terminal \/ Sent(c)

\* Where the transfer of a pending row goes, and that it got there.
Goes(c) == IF card[c].status = "claim_pending" THEN card[c].wallet ELSE SenderOf[c]
Arrived(c, w) ==
  \E i \in DOMAIN txs : txs[i].gift = c /\ txs[i].state = "success" /\ txs[i].to = w
RowDelivered(c) ==
  \E i \in DOMAIN txs : /\ txs[i].gift = c /\ txs[i].state = "success"
                        /\ txs[i].nonce = card[c].nonce /\ txs[i].to = Goes(c)

\* The token is in escrow; and it will be when the setup, if c is one, is confirmed.
Backed(c) == owner[TokenOf[c]] = Escrow
Secured(c) ==
  card[c].status # "absent" /\ (card[c].status = "pending_escrow" => Backed(c))

\* One open card to a token, one mined transaction to a nonce, no gift to escrow.
Mined == {"success", "reverted"}
ChainSound ==
  /\ \A c, d \in Cards : Open(c) /\ Open(d) /\ TokenOf[c] = TokenOf[d] => c = d
  /\ \A i, j \in DOMAIN txs :
       /\ txs[i].state \in Mined /\ txs[j].state \in Mined
       /\ txs[i].nonce = txs[j].nonce
       => i = j
  /\ \A i \in DOMAIN txs : txs[i].gift # Other => txs[i].to # Escrow

\* The token of a live card is in escrow until a transfer of the row's own nonce
\* brought it where the row says; a finished card has nothing out; a card nobody
\* prepared has no browser at work on it.
CustodySound(c) ==
  /\ card[c].status = "active" => Backed(c)
  /\ card[c].status \in Pend => (Backed(c) <=> ~Sent(c))
  /\ Sent(c) => card[c].status \in Terminal \/ (card[c].status \in Pend /\ RowDelivered(c))
  /\ card[c].status \in Terminal => \A n \in Nat : ~Out(c, n)
  /\ card[c].status \in Pend =>
       \A i \in DOMAIN txs : txs[i].gift = c /\ txs[i].state = "pending" => txs[i].to = Goes(c)
  /\ card[c].status = "claimed" => Arrived(c, card[c].wallet)
  /\ card[c].status = "absent" => c \notin told /\ deposit[c] = "none" /\ card[c].code = 0
  /\ deposit[c] = "done" => Secured(c)

\* What an invocation concludes from what it read, which stays true.
Looked == {"reconcile", "apply", "take"}
RunHeld(p) ==
  LET c == req[p].gift
      h == HashOf(req[p].seen, req[p].op)
  IN  /\ req[p].pc \in Settling \cup {"take", "proof"} => card[c].status # "absent"
      /\ req[p].pc \in Settling /\ h # NoHash => txs[h].gift = c
      /\ req[p].pc = "chain" /\ req[p].seen.status \in Pend => Secured(c)
      /\ req[p].pc \in Looked /\ req[p].holder = Escrow => Secured(c)
      /\ req[p].pc = "reconcile" /\ req[p].holder # Escrow => Done(c)
      /\ req[p].pc = "apply" /\ req[p].verdict = "complete" => Done(c)
      /\ req[p].pc = "activate" => Secured(c)
      /\ req[p].pc \in {"release-final", "final"} => Sent(c)

\* What it sends goes where its row says, and nobody else sends under its nonce.
Holding == {"simulate", "record", "broadcast", "hash", "receipt"}
SendHeld(p) ==
  LET c == req[p].gift
  IN  /\ req[p].pc = "record" /\ Mine(p) /\ Sent(c) => req[p].nonce = card[c].nonce
      /\ req[p].pc \in Sending /\ req[p].nonce >= latest /\ card[c].status \in Pend =>
           req[p].wallet = Goes(c)
      /\ req[p].pc \in {"hash", "receipt"} =>
           \A i \in DOMAIN txs : txs[i].nonce = req[p].nonce /\ txs[i].state # "gone" =>
             i = req[p].hash

Works(p) == req[p].pc # "idle" /\ Escrowed(req[p].gift)
LeaseHeld == \A p \in Reqs : req[p].pc \in Holding => lease = p

HeldSound ==
  /\ ChainSound /\ LeaseHeld
  /\ \A c \in Cards : Escrowed(c) => CustodySound(c)
  /\ \A p \in Reqs : Works(p) => RunHeld(p) /\ SendHeld(p)

HeldInv == MovesInv /\ HeldSound

-----------------------------------------------------------------------------
\* What a step may make of a row.

\* The row stays, but for the nonce its own attempt records before the transfer.
RowStays(c) ==
  /\ card'[c].status = card[c].status /\ card'[c].wallet = card[c].wallet
  /\ card[c].status = "absent" => card'[c].code = card[c].code
  /\ card[c].status \in Pend =>
       /\ Escrowed(c) /\ Sent(c) => card'[c].nonce = card[c].nonce
       /\ card'[c].started \in 1 .. clock =>
            card'[c].nonce = card[c].nonce /\ card'[c].started = card[c].started
\* A setup is inserted, a card becomes or is again available.
Inserted(c) ==
  /\ card[c].status = "absent" /\ card'[c].status = "pending_escrow"
  /\ ~TokenTaken(c) /\ \A d \in Cards \ {c} : card'[d] = card[d]
Opened(c) ==
  /\ card[c].status \in Pend \cup {"pending_escrow"}
  /\ card'[c].status \in {"pending_escrow", "active"}
  /\ Escrowed(c) => Backed(c) /\ ~Sent(c)
\* A card with its token in escrow is taken.
Taken(c) ==
  /\ card[c].status \in {"pending_escrow", "active"} /\ card'[c].status \in Pend
  /\ card'[c].started \notin 1 .. clock
  /\ Escrowed(c) => Backed(c)
\* A card is given up before anything was sent, or finished after it was.
Closed(c) ==
  /\ card[c].status \in OpenStatus /\ card'[c].status \in Terminal
  /\ Escrowed(c) =>
       \/ card[c].status \in Unsent /\ card'[c].status = "cancelled"
       \/ /\ card[c].status \in Pend /\ Sent(c)
          /\ card'[c].status = "claimed" =>
               card[c].status = "claim_pending" /\ card'[c].wallet = card[c].wallet

RowStep(c) == RowStays(c) \/ Inserted(c) \/ Opened(c) \/ Taken(c) \/ Closed(c)

\* The rows' steps go with what the browsers are told and with what is out.
ToldOnly(c) ==
  Escrowed(c) /\ c \in told' => c \in told \/ card'[c].status # "absent"
OutFits(c) == OutShrinks(c) \/ (card[c].status \in Pend /\ RowStays(c))

\* What was concluded of card c stays true.
HeldOn(c) ==
  /\ card[c].status # "absent" => card'[c].status # "absent"
  /\ Secured(c) => Secured(c)'
  /\ Done(c) => Done(c)'
  /\ Sent(c) => Sent(c)'

\* A row whose transfer was mined has nothing out.
LEMMA SentIsOver ==
  ASSUME TypeOK, LedgerInv, MovesSound, NEW c \in Cards, CustodySound(c), Sent(c)
  PROVE  \A n \in Nat : ~Out(c, n)
<1>1. CASE card[c].status \in Terminal  BY <1>1 DEF CustodySound
<1>2. CASE card[c].status \in Pend /\ RowDelivered(c)
  <2>1. card[c].nonce < latest
    BY <1>2 DEF RowDelivered, LedgerInv, NoncesUsed
  <2>. QED  BY <1>2, <2>1, NothingOut
<1>. QED  BY <1>1, <1>2 DEF CustodySound

\* What the rows' steps leave of one card.
LEMMA RowHeld ==
  ASSUME GiftConstants, TypeOK, TypeOK', LedgerInv, MovesSound, NEW c \in Cards,
         UNCHANGED <<owner, txs, latest, deposit>>, Escrowed(c), CustodySound(c),
         RowStep(c), ToldOnly(c), OutFits(c)
  PROVE  CustodySound(c)' /\ HeldOn(c)
<1>1. /\ Backed(c)' <=> Backed(c)
      /\ Sent(c)' <=> Sent(c)
      /\ \A w : Arrived(c, w)' <=> Arrived(c, w)
  BY DEF Backed, Sent, Arrived
<1>2. card[c].status \in CardStatus /\ card'[c].status \in CardStatus
  <2>1. card[c] \in Rows /\ card'[c] \in Rows  BY DEF TypeOK
  <2>. QED  BY <2>1 DEF Rows
<1>3. OutShrinks(c) => \A n \in Nat : Out(c, n)' => Out(c, n)  BY DEF OutShrinks
<1>. USE DEF CardStatus, OpenStatus, Terminal, Pend, Unsent
<1>4. CASE RowStays(c)
  <2>1. /\ card'[c].status = card[c].status /\ card'[c].wallet = card[c].wallet
        /\ Goes(c)' = Goes(c)
    BY <1>4 DEF RowStays, Goes
  <2>2. card[c].status \in Pend /\ Sent(c) /\ RowDelivered(c) => RowDelivered(c)'
    <3>1. card[c].status \in Pend /\ Sent(c) => card'[c].nonce = card[c].nonce
      BY <1>4 DEF RowStays
    <3>. QED  BY <2>1, <3>1 DEF RowDelivered
  <2>3. card'[c].status \in Terminal => \A n \in Nat : ~Out(c, n)'
    BY <1>3, <2>1 DEF OutFits, CustodySound
  <2>4. Secured(c)' <=> Secured(c)  BY <1>1, <2>1 DEF Secured
  <2>5. card'[c].status = "absent" => c \notin told' /\ deposit'[c] = "none" /\ card'[c].code = 0
    BY <1>4, <2>1 DEF CustodySound, RowStays, ToldOnly
  <2>6. Sent(c)' => card'[c].status \in Terminal \/ (card'[c].status \in Pend /\ RowDelivered(c)')
    BY <1>1, <2>1, <2>2 DEF CustodySound
  <2>7. card'[c].status \in Pend =>
          \A i \in DOMAIN txs' : txs'[i].gift = c /\ txs'[i].state = "pending" => txs'[i].to = Goes(c)'
    BY <2>1 DEF CustodySound
  <2>8. CustodySound(c)'
    BY <1>1, <2>1, <2>3, <2>4, <2>5, <2>6, <2>7 DEF CustodySound
  <2>. QED  BY <1>1, <2>1, <2>4, <2>8 DEF HeldOn, Done
<1>5. CASE Inserted(c)
  <2>1. ~Sent(c) /\ ~Done(c) /\ ~Secured(c)
    BY <1>5 DEF Inserted, CustodySound, Done, Secured
  <2>2. CustodySound(c)'  BY <1>1, <1>5, <2>1 DEF Inserted, CustodySound
  <2>. QED  BY <1>1, <1>5, <2>1, <2>2 DEF Inserted, HeldOn, Done
<1>6. CASE Opened(c)
  <2>1. Backed(c) /\ ~Sent(c)  BY <1>6 DEF Opened
  <2>2. Secured(c)' /\ ~Done(c) /\ ~Sent(c)'
    BY <1>1, <1>6, <2>1 DEF Opened, Secured, Done
  <2>3. CustodySound(c)'  BY <1>1, <1>6, <2>1, <2>2 DEF Opened, CustodySound
  <2>. QED  BY <1>1, <1>6, <2>1, <2>2, <2>3 DEF Opened, HeldOn, Secured
<1>7. CASE Taken(c)
  <2>1. Backed(c) /\ ~Sent(c) /\ ~Done(c)  BY <1>7 DEF Taken, CustodySound, Done
  <2>2. ~RowStays(c)  BY <1>7 DEF Taken, RowStays
  <2>3. \A n \in Nat : ~Out(c, n)  BY <1>7, NothingOut DEF Taken
  <2>4. \A i \in DOMAIN txs : ~(txs[i].gift = c /\ txs[i].state = "pending")
    BY <2>3, TxShapes DEF Out
  <2>5. Secured(c)'  BY <1>7 DEF Taken, Secured
  <2>6. CustodySound(c)'  BY <1>1, <1>7, <2>1, <2>4, <2>5 DEF Taken, CustodySound
  <2>. QED  BY <1>1, <1>7, <2>1, <2>5, <2>6 DEF Taken, HeldOn
<1>8. CASE Closed(c)
  <2>1. ~RowStays(c)  BY <1>8 DEF Closed, RowStays
  <2>2. \A n \in Nat : ~Out(c, n)  BY <1>8, NothingOut, SentIsOver DEF Closed
  <2>3. \A n \in Nat : ~Out(c, n)'  BY <1>3, <2>1, <2>2 DEF OutFits
  <2>4. Secured(c)' /\ Done(c)'  BY <1>8 DEF Closed, Secured, Done
  <2>5. card'[c].status = "claimed" => Arrived(c, card[c].wallet)'
    <3>. SUFFICES ASSUME card'[c].status = "claimed"
                  PROVE  Arrived(c, card[c].wallet) /\ card'[c].wallet = card[c].wallet
      BY DEF Arrived
    <3>1. card[c].status = "claim_pending" /\ Sent(c) /\ card'[c].wallet = card[c].wallet
      BY <1>8 DEF Closed
    <3>2. RowDelivered(c) /\ Goes(c) = card[c].wallet  BY <3>1 DEF CustodySound, Goes
    <3>. QED  BY <3>1, <3>2 DEF RowDelivered, Arrived
  <2>6. CustodySound(c)'  BY <1>1, <1>8, <2>3, <2>4, <2>5 DEF Closed, CustodySound
  <2>. QED  BY <1>1, <1>8, <2>4, <2>6 DEF Closed, HeldOn
<1>. QED  BY <1>4, <1>5, <1>6, <1>7, <1>8 DEF RowStep

\* A card opens by being inserted, when no other of its token is open.
LEMMA RowsOpen ==
  ASSUME GiftConstants, TypeOK, TypeOK', ChainSound, UNCHANGED txs,
         \A c \in Cards : RowStep(c)
  PROVE  ChainSound'
<1>1. ASSUME NEW c \in Cards  PROVE Open(c)' => Open(c) \/ Inserted(c)
  BY DEF RowStep, RowStays, Opened, Taken, Closed, Open, OpenStatus, Pend, Terminal
<1>2. ASSUME NEW c \in Cards, NEW d \in Cards, c # d, Open(c)', Open(d)',
             TokenOf[c] = TokenOf[d]
      PROVE  FALSE
  <2>1. CASE Inserted(c)
    <3>1. card'[d] = card[d] /\ ~Open(d)  BY <1>2, <2>1 DEF Inserted, TokenTaken
    <3>. QED  BY <1>2, <3>1 DEF Open
  <2>2. CASE Inserted(d)
    <3>1. card'[c] = card[c] /\ ~Open(c)  BY <1>2, <2>2 DEF Inserted, TokenTaken
    <3>. QED  BY <1>2, <3>1 DEF Open
  <2>3. CASE Open(c) /\ Open(d)  BY <1>2, <2>3 DEF ChainSound
  <2>. QED  BY <1>1, <1>2, <2>1, <2>2, <2>3
<1>. QED  BY <1>2 DEF ChainSound

\* What an invocation concluded stays true while it does nothing.
LEMMA RunKept ==
  ASSUME LedgerInv, TxsKept, NEW q \in Reqs, req'[q] = req[q], RunHeld(q),
         HeldOn(req[q].gift)
  PROVE  RunHeld(q)'
<1>1. req[q].pc \in Settling => Known(HashOf(req[q].seen, req[q].op))
  BY DEF LedgerInv, CarriesOwn
<1>2. req[q].pc \in Settling /\ HashOf(req[q].seen, req[q].op) # NoHash =>
        txs'[HashOf(req[q].seen, req[q].op)].gift = req[q].gift
  BY <1>1 DEF RunHeld, Known, TxsKept
<1>. QED  BY <1>2 DEF RunHeld, HeldOn

\* What it sends stays so while the rows take their steps.
LEMMA SendKeptByRows ==
  ASSUME GiftConstants, TypeOK, LedgerInv, MovesSound, UNCHANGED <<txs, latest>>,
         NEW q \in Reqs, req'[q] = req[q], Works(q), SendHeld(q),
         RowStep(req[q].gift), CustodySound(req[q].gift)
  PROVE  SendHeld(q)'
<1>. DEFINE c == req[q].gift
<1>1. c \in Cards /\ card[c] \in Rows /\ req[q] \in Requests  BY Running DEF Works
<1>2. Sent(c)' <=> Sent(c)  BY DEF Sent
<1>3. req[q].pc = "record" /\ Mine(q)' /\ Sent(c)' => req[q].nonce = card'[c].nonce
  <2>. SUFFICES ASSUME req[q].pc = "record", Mine(q)', Sent(c)
                PROVE  req[q].nonce = card'[c].nonce
    BY <1>2
  <2>1. /\ card'[c].status = PendingStatus(req[q].op) /\ card'[c].status \in Pend
        /\ card'[c].started = req[q].start
    BY DEF Mine, PendingStatus, Pend
  <2>2. req[q].start \in 1 .. clock  BY DEF LedgerInv, CarriesOwn, Early
  <2>3. RowStays(c)
    BY <2>1, <2>2 DEF RowStep, Inserted, Opened, Taken, Closed, Pend, Terminal
  <2>4. /\ card[c].status = card'[c].status /\ card[c].started = card'[c].started
        /\ card[c].nonce = card'[c].nonce
    BY <2>1, <2>2, <2>3 DEF RowStays
  <2>5. Mine(q)  BY <2>1, <2>4 DEF Mine, Early
  <2>. QED  BY <2>4, <2>5 DEF SendHeld
<1>4. req[q].pc \in Sending /\ req[q].nonce >= latest /\ card'[c].status \in Pend =>
        req[q].wallet = Goes(c)'
  <2>. SUFFICES ASSUME req[q].pc \in Sending, req[q].nonce >= latest, card'[c].status \in Pend
                PROVE  req[q].wallet = Goes(c)'
    OBVIOUS
  <2>1. req[q].nonce \in Nat /\ Out(c, req[q].nonce)  BY SentHasNonce DEF Out
  <2>2. card[c].status \notin Unsent /\ card[c].status \notin Terminal
    BY <2>1, NothingOut, <1>1 DEF CustodySound
  <2>3. RowStays(c)
    BY <2>2 DEF RowStep, Inserted, Opened, Taken, Closed, Pend, Terminal, Unsent
  <2>4. Goes(c)' = Goes(c) /\ card[c].status \in Pend  BY <2>3 DEF RowStays, Goes
  <2>. QED  BY <2>4 DEF SendHeld
<1>5. req[q].pc \in {"hash", "receipt"} =>
        \A i \in DOMAIN txs' : txs'[i].nonce = req[q].nonce /\ txs'[i].state # "gone" =>
          i = req[q].hash
  BY DEF SendHeld
<1>. QED  BY <1>3, <1>4, <1>5 DEF SendHeld

\* A step of p on the rows: what is left to show of p itself.
LEMMA HeldByRows ==
  ASSUME GiftConstants, TypeOK, TypeOK', LedgerInv, MovesSound, HeldSound,
         UNCHANGED <<owner, txs, latest, deposit>>,
         \A c \in Cards : RowStep(c) /\ ToldOnly(c) /\ OutFits(c),
         NEW p \in Reqs, OnlyReq(p),
         \A q \in Reqs \ {p} : lease = q => lease' = q,
         req'[p].pc \in Holding => lease' = p,
         Works(p)' => RunHeld(p)' /\ SendHeld(p)'
  PROVE  HeldSound'
<1>1. \A c \in Cards : Escrowed(c) => CustodySound(c)' /\ HeldOn(c)
  BY RowHeld DEF HeldSound
<1>2. ChainSound'  BY RowsOpen DEF HeldSound
<1>3. LeaseHeld'  BY DEF HeldSound, LeaseHeld, OnlyReq
<1>4. ASSUME NEW q \in Reqs \ {p}, Works(q)'  PROVE RunHeld(q)' /\ SendHeld(q)'
  <2>1. req'[q] = req[q] /\ Works(q)  BY <1>4 DEF OnlyReq, Works
  <2>2. req[q].gift \in Cards /\ Escrowed(req[q].gift)  BY <2>1, Running DEF Works
  <2>3. /\ CustodySound(req[q].gift) /\ HeldOn(req[q].gift) /\ RowStep(req[q].gift)
        /\ RunHeld(q) /\ SendHeld(q)
    BY <1>1, <2>1, <2>2 DEF HeldSound
  <2>4. TxsKept  BY TxsStill
  <2>. QED  BY <2>1, <2>3, <2>4, RunKept, SendKeptByRows
<1>. QED  BY <1>1, <1>2, <1>3, <1>4 DEF HeldSound, Escrowed

-----------------------------------------------------------------------------
\* The steps of the chain.

\* The transfer of card c that is mined is one its row still waits for.
SentFits(c) ==
  Sent(c)' => \/ Sent(c)
              \/ card[c].status \in Pend /\ card[c].nonce # NoNonce /\ card[c].nonce >= latest

\* A card whose token stays, and of which no transfer is mined.
LEMMA CustodyKept ==
  ASSUME NEW c \in Cards, Escrowed(c), CustodySound(c), UNCHANGED card, ToldOnly(c),
         TxsKept, OutShrinks(c),
         Sent(c)' => Sent(c),
         Open(c) /\ Backed(c) => Backed(c)',
         card[c].status \in Pend /\ Backed(c)' => Backed(c),
         \A i \in DOMAIN txs' : txs'[i].gift = c /\ txs'[i].state = "pending" =>
           \/ i \in DOMAIN txs /\ txs[i].state = "pending"
           \/ card[c].status \in Pend => txs'[i].to = Goes(c),
         card[c].status = "absent" => deposit'[c] = deposit[c],
         deposit'[c] = "done" => deposit[c] = "done" \/ Secured(c)'
  PROVE  CustodySound(c)' /\ HeldOn(c) /\ SentFits(c)
<1>1. Sent(c) => Sent(c)'  BY DEF Sent, TxsKept
<1>2. /\ RowDelivered(c) => RowDelivered(c)'
      /\ Arrived(c, card[c].wallet) => Arrived(c, card[c].wallet)'
  BY DEF RowDelivered, Arrived, TxsKept, Goes
<1>3. Secured(c) => Secured(c)'  BY DEF Secured, Open, OpenStatus
<1>4. \A n \in Nat : Out(c, n)' => Out(c, n)  BY DEF OutShrinks
<1>5. card[c].status = "active" \/ card[c].status \in Pend => Open(c)
  BY DEF Open, OpenStatus, Pend
<1>6. card[c].status \in Pend =>
        \A i \in DOMAIN txs' : txs'[i].gift = c /\ txs'[i].state = "pending" =>
          txs'[i].to = Goes(c)'
  BY DEF CustodySound, TxsKept, Goes
<1>7. card'[c].status = card[c].status /\ card'[c].wallet = card[c].wallet
      /\ card'[c].code = card[c].code
  OBVIOUS
<1>8. CustodySound(c)'
  BY <1>1, <1>2, <1>3, <1>4, <1>5, <1>6, <1>7 DEF CustodySound, ToldOnly
<1>. QED  BY <1>1, <1>3, <1>8 DEF HeldOn, Done, SentFits

\* What an invocation sends stays so while the chain takes a step.
LEMMA SendKeptByChain ==
  ASSUME TypeOK, TypeOK', MovesSound, UNCHANGED card, TxsKept, NEW q \in Reqs, req'[q] = req[q],
         Works(q), SendHeld(q), SentFits(req[q].gift),
         req[q].pc \in {"hash", "receipt"} => DOMAIN txs' = DOMAIN txs,
         LedgerInv
  PROVE  SendHeld(q)'
<1>. DEFINE c == req[q].gift
<1>1. c \in Cards /\ card[c] \in Rows /\ req[q] \in Requests  BY Running DEF Works
<1>2. card[c].nonce \in Int /\ latest \in Int /\ latest' \in Int /\ latest' >= latest
  BY <1>1 DEF Rows, TypeOK, NoNonce, TxsKept
<1>3. req[q].pc = "record" /\ Mine(q)' /\ Sent(c)' => req[q].nonce = card'[c].nonce
  <2>. SUFFICES ASSUME req[q].pc = "record", Mine(q), Sent(c)'
                PROVE  req[q].nonce = card[c].nonce
    BY DEF Mine
  <2>1. AttemptSound(q)  BY DEF MovesSound
  <2>2. req[q].nonce = card[c].nonce \/ card[c].nonce < latest  BY <2>1 DEF AttemptSound
  <2>3. CASE Sent(c)  BY <2>3 DEF SendHeld
  <2>4. CASE card[c].nonce >= latest  BY <1>2, <2>2, <2>4
  <2>. QED  BY <2>3, <2>4 DEF SentFits
<1>4. req[q].pc \in Sending /\ req[q].nonce >= latest' /\ card'[c].status \in Pend =>
        req[q].wallet = Goes(c)'
  <2>. SUFFICES ASSUME req[q].pc \in Sending, req[q].nonce >= latest', card[c].status \in Pend
                PROVE  req[q].wallet = Goes(c)
    BY DEF Goes
  <2>1. req[q].nonce >= latest  BY <1>2, SentHasNonce
  <2>. QED  BY <2>1 DEF SendHeld
<1>5. req[q].pc \in {"hash", "receipt"} =>
        \A i \in DOMAIN txs' : txs'[i].nonce = req[q].nonce /\ txs'[i].state # "gone" =>
          i = req[q].hash
  <2>. SUFFICES ASSUME req[q].pc \in {"hash", "receipt"}, NEW i \in DOMAIN txs',
                       txs'[i].nonce = req[q].nonce, txs'[i].state # "gone"
                PROVE  i = req[q].hash
    OBVIOUS
  <2>1. i \in DOMAIN txs /\ txs[i].nonce = req[q].nonce /\ txs[i].state # "gone"
    BY DEF TxsKept
  <2>. QED  BY <2>1 DEF SendHeld
<1>. QED  BY <1>3, <1>4, <1>5 DEF SendHeld

\* What is left to show of an invocation that takes the step.
OwnHeld(p) ==
  /\ req'[p].pc \in Holding => lease' = p
  /\ Works(p)' => RunHeld(p)' /\ SendHeld(p)'

\* What is left to show of a step of the chain, and of the invocations P that take it.
LEMMA HeldByChain ==
  ASSUME GiftConstants, TypeOK, TypeOK', LedgerInv, MovesSound, HeldSound,
         UNCHANGED card, TxsKept, ChainSound',
         \A c \in Cards : Escrowed(c) => CustodySound(c)' /\ HeldOn(c) /\ SentFits(c),
         NEW P, \A q \in Reqs \ P : req'[q] = req[q],
         \A q \in Reqs \ P : lease = q => lease' = q /\ DOMAIN txs' = DOMAIN txs,
         \A q \in Reqs \cap P : OwnHeld(q)
  PROVE  HeldSound'
<1>1. ASSUME NEW q \in Reqs, req'[q].pc \in Holding  PROVE lease' = q
  <2>1. CASE q \in P  BY <1>1, <2>1 DEF OwnHeld
  <2>2. CASE q \notin P
    <3>1. req'[q] = req[q] /\ lease = q  BY <1>1, <2>2 DEF HeldSound, LeaseHeld
    <3>. QED  BY <2>2, <3>1
  <2>. QED  BY <2>1, <2>2
<1>2. ASSUME NEW q \in Reqs \ P, Works(q)'  PROVE RunHeld(q)' /\ SendHeld(q)'
  <2>1. req'[q] = req[q] /\ Works(q)  BY <1>2 DEF Works
  <2>2. req[q].gift \in Cards /\ Escrowed(req[q].gift)  BY <2>1, Running DEF Works
  <2>3. HeldOn(req[q].gift) /\ SentFits(req[q].gift) /\ RunHeld(q) /\ SendHeld(q)
    BY <2>1, <2>2 DEF HeldSound
  <2>4. req[q].pc \in {"hash", "receipt"} => DOMAIN txs' = DOMAIN txs
    BY DEF HeldSound, LeaseHeld, Holding
  <2>. QED  BY <2>1, <2>3, <2>4, RunKept, SendKeptByChain
<1>3. ASSUME NEW q \in Reqs, Works(q)'  PROVE RunHeld(q)' /\ SendHeld(q)'
  <2>1. CASE q \in P  BY <1>3, <2>1 DEF OwnHeld
  <2>2. CASE q \notin P  BY <1>2, <1>3, <2>2
  <2>. QED  BY <2>1, <2>2
<1>. QED  BY <1>1, <1>3 DEF HeldSound, LeaseHeld, Escrowed

\* Of the operator's transactions, when none is mined and none is a gift to escrow.
LEMMA ChainKept ==
  ASSUME ChainSound, UNCHANGED card, TxsKept,
         \A j \in DOMAIN txs' :
           /\ txs'[j].state \in Mined => j \in DOMAIN txs /\ txs[j].state \in Mined
           /\ j \in DOMAIN txs \/ txs'[j].gift = Other \/ txs'[j].to # Escrow
  PROVE  ChainSound'
<1>1. \A c, d \in Cards : Open(c)' /\ Open(d)' /\ TokenOf[c] = TokenOf[d] => c = d
  BY DEF ChainSound, Open
<1>2. ASSUME NEW i \in DOMAIN txs', NEW j \in DOMAIN txs', txs'[i].state \in Mined,
             txs'[j].state \in Mined, txs'[i].nonce = txs'[j].nonce
      PROVE  i = j
  BY <1>2 DEF ChainSound, TxsKept
<1>3. \A j \in DOMAIN txs' : txs'[j].gift # Other => txs'[j].to # Escrow
  BY DEF ChainSound, TxsKept
<1>. QED  BY <1>1, <1>2, <1>3 DEF ChainSound

\* A transfer is mined: it takes the token of its own card out of escrow, of a card
\* whose row waits for it, and no other card's.
LEMMA HeldMine ==
  ASSUME GiftConstants, TypeOK, TypeOK', LedgerInv, MovesSound, HeldSound, MineNext
  PROVE  HeldSound'
<1>. DEFINE passes(x) == x.gift = Other \/ Transferable(x.gift)
<1>0. PICK i \in DOMAIN txs :
        /\ txs[i].state = "pending" /\ txs[i].nonce = latest
        /\ txs' = [txs EXCEPT ![i].state = IF passes(txs[i]) THEN "success" ELSE "reverted"]
        /\ latest' = latest + 1
        /\ IF txs[i].gift # Other /\ passes(txs[i])
           THEN owner' = [owner EXCEPT ![TokenOf[txs[i].gift]] = txs[i].to]
           ELSE UNCHANGED owner
        /\ UNCHANGED <<card, req, lease, deposit, told>>
  BY DEF MineNext
<1>. HIDE DEF passes
<1>11. PICK ok \in BOOLEAN : ok <=> passes(txs[i])  OBVIOUS
<1>12. PICK g, to : g = txs[i].gift /\ to = txs[i].to  OBVIOUS
<1>1. /\ g = txs[i].gift /\ to = txs[i].to
      /\ ok <=> g = Other \/ Transferable(g)
      /\ txs[i].state = "pending" /\ txs[i].nonce = latest
      /\ txs' = [txs EXCEPT ![i].state = IF ok THEN "success" ELSE "reverted"]
      /\ latest' = latest + 1
      /\ IF g # Other /\ ok THEN owner' = [owner EXCEPT ![TokenOf[g]] = to]
         ELSE UNCHANGED owner
      /\ UNCHANGED <<card, req, lease, deposit, told>>
  BY <1>0, <1>11, <1>12 DEF passes
<1>2. PICK s \in Mined : s = IF ok THEN "success" ELSE "reverted"  BY DEF Mined
<1>3. txs' = [txs EXCEPT ![i].state = s]  BY <1>1, <1>2
<1>4. /\ TxsKept /\ NoncesUsed'
      /\ \A j \in DOMAIN txs' : /\ j \in DOMAIN txs /\ txs'[j].gift = txs[j].gift
                                /\ txs'[j].nonce = txs[j].nonce
                                /\ txs'[j].state = "pending" => txs[j].state = "pending"
  BY <1>1, <1>2, <1>3, TxSettles DEF Mined
<1>5. /\ DOMAIN txs' = DOMAIN txs /\ latest \in Nat /\ latest' \in Nat
      /\ txs[i] \in Transactions /\ txs'[i].state = s
      /\ \A j \in DOMAIN txs : txs[j] \in Transactions /\ (j # i => txs'[j] = txs[j])
  <2>1. txs[i] \in Transactions /\ latest \in Nat
        /\ \A j \in DOMAIN txs : txs[j] \in Transactions
    BY TxShapes
  <2>. QED  BY <1>1, <1>3, <2>1 DEF Transactions
<1>6. \A c \in Cards : OutShrinks(c)
  BY <1>1, <1>4, <1>5, OutSettles DEF TxsKept
<1>7. ChainSound'
  <2>1. ASSUME NEW j \in DOMAIN txs', NEW k \in DOMAIN txs', txs'[j].state \in Mined,
               txs'[k].state \in Mined, txs'[j].nonce = txs'[k].nonce
        PROVE  j = k
    <3>1. \A l \in DOMAIN txs : l # i /\ txs'[l].state \in Mined =>
            txs[l].state \in Mined /\ txs'[l].nonce = txs[l].nonce /\ txs'[l].nonce # latest
      BY <1>5 DEF LedgerInv, NoncesUsed, Mined
    <3>2. txs'[i].nonce = latest  BY <1>1, <1>4, <1>5
    <3>. QED  BY <1>5, <2>1, <3>1, <3>2 DEF HeldSound, ChainSound
  <2>2. \A j \in DOMAIN txs' : txs'[j].gift # Other => txs'[j].to # Escrow
    BY <1>4, <1>5 DEF HeldSound, ChainSound, TxsKept
  <2>3. \A c, d \in Cards : Open(c)' /\ Open(d)' /\ TokenOf[c] = TokenOf[d] => c = d
    BY <1>1 DEF HeldSound, ChainSound, Open
  <2>. QED  BY <2>1, <2>2, <2>3 DEF ChainSound
<1>8. g # Other => g \in Cards /\ Out(g, latest) /\ to # Escrow
  <2>1. g \in Cards \cup {Other}  BY <1>1, <1>5 DEF Transactions
  <2>. QED  BY <1>1, <2>1 DEF Out, HeldSound, ChainSound
<1>9. g # Other /\ Escrowed(g) =>
        card[g].status \in Pend /\ card[g].nonce = latest /\ Open(g)
  <2>. SUFFICES ASSUME g # Other, Escrowed(g)
                PROVE  card[g].status \in Pend /\ card[g].nonce = latest /\ Open(g)
    OBVIOUS
  <2>1. CustodySound(g) /\ RowSound(g) /\ card[g] \in Rows
    BY <1>8 DEF HeldSound, MovesSound, TypeOK
  <2>2. card[g].status \in Pend
    BY <1>5, <1>8, <2>1 DEF CustodySound, RowSound, Rows, CardStatus, OpenStatus, Pend, Unsent
  <2>. QED  BY <1>5, <1>8, <2>1, <2>2 DEF RowSound, Open, OpenStatus, Pend
<1>10. ASSUME NEW c \in Cards, Escrowed(c)  PROVE CustodySound(c)' /\ HeldOn(c) /\ SentFits(c)
  <2>1. CustodySound(c)  BY <1>10 DEF HeldSound
  <2>2. \A j \in DOMAIN txs' : txs'[j].gift = c /\ txs'[j].state = "pending" =>
          j \in DOMAIN txs /\ txs[j].state = "pending"
    BY <1>4
  <2>3. CASE g = c /\ ok
    <3>1. g # Other /\ Transferable(g)  BY <1>1, <1>10, <2>3 DEF GiftConstants
    <3>2. card[c].status \in Pend /\ card[c].nonce = latest  BY <1>9, <1>10, <2>3, <3>1
    <3>3. Backed(c) /\ ~Sent(c)
      BY <1>10, <2>1, <2>3, <3>1, <3>2 DEF Transferable, CustodyOf, Backed, CustodySound
    <3>4. ~Backed(c)'
      <4>1. owner'[TokenOf[c]] = to  BY <1>1, <1>10, <2>3, <3>1 DEF TypeOK, GiftConstants
      <4>. QED  BY <1>8, <3>1, <4>1 DEF Backed
    <3>5. /\ i \in DOMAIN txs' /\ txs'[i].gift = c /\ txs'[i].state = "success"
          /\ txs'[i].nonce = card[c].nonce /\ txs'[i].to = Goes(c)
      BY <1>1, <1>2, <1>4, <1>5, <2>1, <2>3, <3>2 DEF TxsKept, CustodySound
    <3>6. Sent(c)' /\ RowDelivered(c)'
      <4>1. Sent(c)'  BY <3>5 DEF Sent
      <4>2. card' = card /\ Goes(c)' = Goes(c)  BY <1>1 DEF Goes
      <4>. QED  BY <3>5, <4>1, <4>2 DEF RowDelivered
    <3>7. Secured(c)' /\ SentFits(c) /\ card[c].status \notin Terminal \cup {"active", "absent", "claimed"}
      BY <1>1, <1>5, <3>2 DEF Secured, SentFits, Pend, Terminal, NoNonce
    <3>8. \A j \in DOMAIN txs' : txs'[j].gift = c /\ txs'[j].state = "pending" =>
            txs'[j].to = Goes(c)'
      BY <1>1, <2>1, <2>2, <1>4, <3>2 DEF CustodySound, TxsKept, Goes
    <3>9. CustodySound(c)'
      BY <1>1, <3>2, <3>4, <3>6, <3>7, <3>8 DEF CustodySound
    <3>. QED  BY <1>1, <3>6, <3>7, <3>9 DEF HeldOn, Done
  <2>4. CASE ~(g = c /\ ok)
    <3>1. Sent(c)' => Sent(c)
      <4>1. ASSUME NEW j \in DOMAIN txs', txs'[j].gift = c, txs'[j].state = "success"
            PROVE  j \in DOMAIN txs /\ txs[j].gift = c /\ txs[j].state = "success"
        BY <1>1, <1>2, <1>4, <1>5, <2>4, <4>1
      <4>. QED  BY <4>1 DEF Sent
    <3>2. Open(c) => (Backed(c) <=> Backed(c)')
      <4>1. CASE UNCHANGED owner  BY <4>1 DEF Backed
      <4>2. CASE g # Other /\ ok /\ g # c
        <5>1. owner' = [owner EXCEPT ![TokenOf[g]] = to] /\ Transferable(g)  BY <1>1, <4>2
        <5>2. TokenOf[g] \in Tokens /\ TokenOf[c] \in Tokens  BY <1>8, <4>2 DEF GiftConstants
        <5>3. CASE TokenOf[g] # TokenOf[c]  BY <5>1, <5>2, <5>3 DEF Backed, TypeOK
        <5>4. CASE TokenOf[g] = TokenOf[c] /\ Escrowed(g)
          BY <1>8, <1>9, <4>2, <5>4 DEF HeldSound, ChainSound
        <5>5. CASE TokenOf[g] = TokenOf[c] /\ ~Escrowed(g)
          <6>1. owner[TokenOf[c]] = SenderOf[g] /\ owner'[TokenOf[c]] = to
            BY <5>1, <5>2, <5>5 DEF Transferable, CustodyOf, TypeOK
          <6>2. SenderOf[g] # Escrow /\ to # Escrow  BY <1>8, <4>2 DEF GiftConstants
          <6>. QED  BY <6>1, <6>2 DEF Backed
        <5>. QED  BY <5>3, <5>4, <5>5
      <4>. QED  BY <1>1, <2>4, <4>1, <4>2
    <3>3. card[c].status \in Pend => Open(c)  BY DEF Open, OpenStatus, Pend
    <3>4. ToldOnly(c)  BY <1>1 DEF ToldOnly
    <3>. QED  BY <1>1, <1>4, <1>6, <1>10, <2>1, <2>2, <3>1, <3>2, <3>3, <3>4, CustodyKept
  <2>. QED  BY <2>3, <2>4
<1>. QED
  <2>1. PICK P : P = {}  OBVIOUS
  <2>. QED  BY <1>1, <1>4, <1>5, <1>7, <1>10, <2>1, HeldByChain

\* No transaction changes.
LEMMA HeldQuietly ==
  ASSUME GiftConstants, TypeOK, TypeOK', LedgerInv, MovesSound, HeldSound,
         UNCHANGED <<card, req, txs, latest>>, \A c \in Cards : ToldOnly(c),
         \A q \in Reqs : lease = q => lease' = q,
         \A c \in Cards : Escrowed(c) =>
           /\ Backed(c) => Backed(c)'
           /\ card[c].status \in Pend /\ Backed(c)' => Backed(c)
           /\ card[c].status = "absent" => deposit'[c] = deposit[c]
           /\ deposit'[c] = "done" => deposit[c] = "done" \/ Secured(c)'
  PROVE  HeldSound'
<1>1. TxsKept  BY TxsStill
<1>2. ASSUME NEW c \in Cards, Escrowed(c)  PROVE CustodySound(c)' /\ HeldOn(c) /\ SentFits(c)
  <2>1. CustodySound(c) /\ OutShrinks(c) /\ (Sent(c)' => Sent(c))
    BY <1>2 DEF HeldSound, OutShrinks, Out, Sent
  <2>. QED  BY <1>1, <1>2, <2>1, CustodyKept
<1>3. ChainSound'  BY DEF HeldSound, ChainSound, Open
<1>4. PICK P : P = {}  OBVIOUS
<1>. QED  BY <1>1, <1>2, <1>3, <1>4, HeldByChain

\* The transactions change, but none is mined; what is new goes where its row says.
Unmined(j) ==
  \/ /\ j \in DOMAIN txs
     /\ txs'[j].state \in {"gone", txs[j].state}
  \/ /\ txs'[j].state = "pending"
     /\ txs'[j].gift = Other \/ txs'[j].to # Escrow
     /\ \A c \in Cards :
          txs'[j].gift = c /\ Escrowed(c) /\ card[c].status \in Pend => txs'[j].to = Goes(c)

LEMMA HeldUnmined ==
  ASSUME GiftConstants, TypeOK, TypeOK', LedgerInv, MovesSound, HeldSound,
         UNCHANGED <<card, told, owner, deposit>>, TxsKept,
         \A c \in Cards : OutShrinks(c),
         \A j \in DOMAIN txs' : Unmined(j),
         NEW P, \A q \in Reqs \ P : req'[q] = req[q],
         \A q \in Reqs \ P : lease = q => lease' = q /\ DOMAIN txs' = DOMAIN txs,
         \A q \in Reqs \cap P : OwnHeld(q)
  PROVE  HeldSound'
<1>1. \A j \in DOMAIN txs' :
        /\ txs'[j].state \in Mined => j \in DOMAIN txs /\ txs'[j].state = txs[j].state
        /\ j \in DOMAIN txs \/ txs'[j].gift = Other \/ txs'[j].to # Escrow
  BY DEF Unmined, Mined
<1>2. ChainSound'  BY <1>1, ChainKept DEF HeldSound
<1>3. ASSUME NEW c \in Cards, Escrowed(c)  PROVE CustodySound(c)' /\ HeldOn(c) /\ SentFits(c)
  <2>1. CustodySound(c) /\ OutShrinks(c) /\ ToldOnly(c)  BY <1>3 DEF HeldSound, ToldOnly
  <2>2. Sent(c)' => Sent(c)
    <3>1. ASSUME NEW j \in DOMAIN txs', txs'[j].gift = c, txs'[j].state = "success"
          PROVE  j \in DOMAIN txs /\ txs[j].gift = c /\ txs[j].state = "success"
      BY <1>1, <3>1 DEF Mined, TxsKept
    <3>. QED  BY <3>1 DEF Sent
  <2>3. \A j \in DOMAIN txs' : txs'[j].gift = c /\ txs'[j].state = "pending" =>
          \/ j \in DOMAIN txs /\ txs[j].state = "pending"
          \/ card[c].status \in Pend => txs'[j].to = Goes(c)
    BY <1>3 DEF Unmined
  <2>4. Backed(c)' <=> Backed(c)  BY DEF Backed
  <2>. QED  BY <1>3, <2>1, <2>2, <2>3, <2>4, CustodyKept
<1>. QED  BY <1>2, <1>3, HeldByChain

\* What the RPC accepts of p goes where the row says, and is alone under its nonce.
LEMMA HeldBroadcast ==
  ASSUME GiftConstants, TypeOK, TypeOK', LedgerInv, MovesSound, HeldSound,
         NEW p \in Reqs, Broadcast(p)
  PROVE  HeldSound'
<1>1. PICK c \in Cards, w \in Users \cup {None}, n \in Nat : BroadcastOf(p, c, w, n)
  BY BroadcastOut
<1>2. /\ UNCHANGED <<card, latest>> /\ req[p].pc = "broadcast" /\ n >= latest
      /\ c = req[p].gift /\ w = req[p].wallet /\ n = req[p].nonce
      /\ TxsKept /\ DOMAIN txs' = DOMAIN txs \cup {Len(txs) + 1}
      /\ txs'[Len(txs) + 1] = [gift |-> c, to |-> w, nonce |-> n, state |-> "pending"]
      /\ \A j \in DOMAIN txs : /\ txs'[j].gift = txs[j].gift /\ txs'[j].nonce = txs[j].nonce
                               /\ txs'[j].state = "pending" => txs[j].state = "pending"
      /\ OnlyReq(p)
      /\ \/ req'[p].pc = "idle"
         \/ /\ req'[p].pc = "hash" /\ req'[p].gift = c
            /\ req'[p].nonce = n /\ req'[p].hash = Len(txs) + 1
      /\ \A d \in Cards : OutShrinks(d)
  BY <1>1 DEF BroadcastOf
<1>3. UNCHANGED <<told, owner, deposit>>
      /\ (req'[p].pc = "idle" \/ UNCHANGED lease)
      /\ Accept(c, w, n)
  BY <1>2, ReturnFields DEF Broadcast, ReturnKeepingLease
<1>4. w # Escrow  BY DEF GiftConstants
<1>5. ASSUME Escrowed(c)  PROVE card[c].status \in Pend => w = Goes(c)
  <2>1. Works(p)  BY <1>2, <1>5 DEF Works
  <2>2. req[p].pc \in Sending  BY <1>2 DEF Sending
  <2>. QED  BY <1>2, <2>1, <2>2 DEF HeldSound, SendHeld
<1>6. \A j \in DOMAIN txs' : Unmined(j)
  <2>1. ASSUME NEW j \in DOMAIN txs  PROVE txs'[j].state \in {"gone", txs[j].state}
    <3>1. /\ txs[j] \in Transactions /\ DOMAIN txs = 1 .. Len(txs) /\ Len(txs) \in Nat
      BY TxShapes
    <3>2. txs'[j] = IF txs[j].nonce = n /\ txs[j].state = "pending"
                    THEN [txs[j] EXCEPT !.state = "gone"] ELSE txs[j]
      BY <1>3, <3>1 DEF Accept
    <3>. QED  BY <3>1, <3>2 DEF Transactions
  <2>2. ASSUME NEW j \in DOMAIN txs', j = Len(txs) + 1  PROVE Unmined(j)
    BY <1>2, <1>4, <1>5, <2>2 DEF Unmined
  <2>. QED  BY <1>2, <2>1, <2>2 DEF Unmined
<1>7. ASSUME NEW q \in Reqs \ {p}, lease = q  PROVE FALSE
  BY <1>2, <1>7 DEF HeldSound, LeaseHeld, Holding
<1>8. req'[p].pc \in Holding => lease' = p
  BY <1>2, <1>3 DEF HeldSound, LeaseHeld, Holding
<1>9. ASSUME req'[p].pc = "hash", Escrowed(c)  PROVE RunHeld(p)' /\ SendHeld(p)'
  <2>1. RunHeld(p)'  BY <1>9 DEF RunHeld, Settling, Looked
  <2>2. req'[p].gift = c /\ req'[p].nonce = n /\ req'[p].hash = Len(txs) + 1
        /\ req'[p].wallet = w
    BY <1>1, <1>9 DEF BroadcastOf
  <2>3. \A i \in DOMAIN txs' : txs'[i].nonce = n /\ txs'[i].state # "gone" => i = Len(txs) + 1
    <3>. SUFFICES ASSUME NEW i \in DOMAIN txs, txs'[i].nonce = n, txs'[i].state # "gone"
                  PROVE  FALSE
      BY <1>2
    <3>1. txs'[i].state # "pending"
      <4>1. TxsKept /\ NoncesUsed' /\ Len(txs) + 1 \notin DOMAIN txs  BY <1>2, <1>3, TxAccepted
      <4>2. txs'[Len(txs) + 1].state = "pending" /\ txs'[Len(txs) + 1].nonce = n  BY <1>2
      <4>. QED  BY <1>2, <4>1, <4>2 DEF NoncesUsed
    <3>2. txs[i].state # "pending" /\ txs'[i].state = txs[i].state
      BY <1>2, <1>6, <3>1 DEF Unmined
    <3>3. txs[i] \in Transactions /\ txs[i].nonce = n  BY <1>2, TxShapes
    <3>4. txs[i].state \in Mined  BY <3>2, <3>3 DEF Transactions, Mined
    <3>5. txs[i].nonce < latest  BY <3>4 DEF LedgerInv, NoncesUsed, Mined
    <3>. QED  BY <1>2, <3>3, <3>5 DEF TypeOK
  <2>4. card[c].status \in Pend => w = Goes(c)'  BY <1>2, <1>5, <1>9 DEF Goes
  <2>5. card' = card /\ req'[p].pc = "hash"  BY <1>2, <1>9
  <2>. QED  BY <2>1, <2>2, <2>3, <2>4, <2>5 DEF SendHeld
<1>10. Works(p)' => RunHeld(p)' /\ SendHeld(p)'
  BY <1>2, <1>9 DEF Works, Escrowed
<1>11. PICK P : P = {p}  OBVIOUS
<1>12. /\ \A q \in Reqs \ P : req'[q] = req[q]
       /\ \A q \in Reqs \ P : lease = q => lease' = q /\ DOMAIN txs' = DOMAIN txs
       /\ \A q \in Reqs \cap P : OwnHeld(q)
  BY <1>2, <1>7, <1>8, <1>10, <1>11 DEF OnlyReq, OwnHeld
<1>. QED  BY <1>2, <1>3, <1>6, <1>12, HeldUnmined

\* The browser's own transfer puts its token into escrow, and takes none out.
LEMMA HeldDeposit ==
  ASSUME GiftConstants, TypeOK, TypeOK', LedgerInv, MovesSound, HeldSound,
         NotGivenOn, NEW c \in Cards, DepositMined(c)
  PROVE  HeldSound'
<1>1. PICK t \in Tokens, ok \in BOOLEAN :
        /\ t = TokenOf[c] /\ (ok => owner[t] = SenderOf[c]) /\ deposit[c] = "pending"
        /\ deposit' = [deposit EXCEPT ![c] = IF ok THEN "done" ELSE "none"]
        /\ owner' = IF ok THEN [owner EXCEPT ![t] = Escrow] ELSE owner
        /\ UNCHANGED <<card, req, told, txs, latest, lease>>
  BY DEF DepositMined, GiftConstants
<1>2. ASSUME NEW d \in Cards, Escrowed(d)
      PROVE  /\ Backed(d) => Backed(d)'
             /\ card[d].status \in Pend /\ Backed(d)' => Backed(d)
             /\ card[d].status = "absent" => deposit'[d] = deposit[d]
             /\ deposit'[d] = "done" => deposit[d] = "done" \/ Secured(d)'
  <2>1. TokenOf[d] \in Tokens /\ SenderOf[c] # Escrow  BY DEF GiftConstants
  <2>2. TokenOf[d] = t /\ ok => owner[t] # Escrow /\ owner'[t] = Escrow /\ owner' # owner
    BY <1>1, <2>1 DEF TypeOK
  <2>3. ~(TokenOf[d] = t /\ ok) => (Backed(d)' <=> Backed(d))
    BY <1>1, <2>1 DEF Backed, TypeOK
  <2>4. TokenOf[d] = t /\ ok => card[d].status \notin Pend
    BY <1>1, <1>2, <2>2 DEF NotGivenOn, Pend
  <2>5. CustodySound(d)  BY <1>2 DEF HeldSound
  <2>6. d # c => deposit'[d] = deposit[d]  BY <1>1 DEF TypeOK
  <2>7. d = c => card[d].status # "absent"  BY <1>1, <2>5 DEF CustodySound
  <2>8. d = c /\ deposit'[d] = "done" => Secured(d)'
    <3>. SUFFICES ASSUME d = c, deposit'[d] = "done"  PROVE Secured(d)'  OBVIOUS
    <3>1. ok  BY <1>1 DEF TypeOK
    <3>. QED  BY <1>1, <2>2, <2>7, <3>1 DEF Secured, Backed
  <2>. QED  BY <2>2, <2>3, <2>4, <2>6, <2>7, <2>8 DEF Backed
<1>. QED  BY <1>1, <1>2, HeldQuietly DEF ToldOnly

LEMMA HeldEnvironment ==
  ASSUME GiftConstants, TypeOK, TypeOK', LedgerInv, MovesSound, HeldSound,
         NotGivenOn, LeaseIsKept, Environment
  PROVE  HeldSound'
<1>1. latest \in Int /\ latest' \in Int  BY DEF TypeOK
<1>2. PICK none : none = {}  OBVIOUS
<1>3. CASE DropTx
  <2>1. PICK i \in DOMAIN txs :
          /\ txs[i].state = "pending" /\ txs' = [txs EXCEPT ![i].state = "gone"]
          /\ UNCHANGED <<req, card, latest, owner, told, deposit, lease>>
    BY <1>3 DEF DropTx
  <2>2. TxsKept /\ \A j \in DOMAIN txs' :
                     /\ j \in DOMAIN txs /\ txs'[j].gift = txs[j].gift
                     /\ txs'[j].nonce = txs[j].nonce
                     /\ txs'[j].state = "pending" => txs[j].state = "pending"
    BY <2>1, TxSettles
  <2>3. \A c \in Cards : OutShrinks(c)
    BY <1>1, <2>1, <2>2, OutSettles DEF TxsKept
  <2>4. DOMAIN txs' = DOMAIN txs /\ \A j \in DOMAIN txs' : Unmined(j)
    <3>1. \A j \in DOMAIN txs : txs[j] \in Transactions  BY TxShapes
    <3>. QED  BY <2>1, <3>1 DEF Unmined, Transactions
  <2>. QED  BY <1>2, <2>1, <2>2, <2>3, <2>4, HeldUnmined
<1>4. CASE OtherWriterSends
  <2>1. PICK n \in latest .. latest + Len(txs) :
          /\ Accept(Other, Escrow, n) /\ lease = None
          /\ UNCHANGED <<req, card, latest, owner, told, deposit>>
    BY <1>4 DEF OtherWriterSends
  <2>2. n \in Nat /\ n >= latest  BY CountIsNat, <1>1
  <2>3. /\ TxsKept /\ DOMAIN txs' = DOMAIN txs \cup {Len(txs) + 1}
        /\ txs'[Len(txs) + 1] = [gift |-> Other, to |-> Escrow, nonce |-> n, state |-> "pending"]
    BY <2>1, <2>2, TxAccepted
  <2>4. \A c \in Cards : OutShrinks(c)  BY <2>1, <2>2, OutOther
  <2>5. ASSUME NEW j \in DOMAIN txs  PROVE txs'[j].state \in {"gone", txs[j].state}
    <3>1. /\ txs[j] \in Transactions /\ DOMAIN txs = 1 .. Len(txs) /\ Len(txs) \in Nat
      BY TxShapes
    <3>2. txs'[j] = IF txs[j].nonce = n /\ txs[j].state = "pending"
                    THEN [txs[j] EXCEPT !.state = "gone"] ELSE txs[j]
      BY <2>1, <3>1 DEF Accept
    <3>. QED  BY <3>1, <3>2 DEF Transactions
  <2>6. \A c \in Cards : c # Other  BY DEF GiftConstants
  <2>7. \A j \in DOMAIN txs' : Unmined(j)  BY <2>3, <2>5, <2>6 DEF Unmined
  <2>8. \A q \in Reqs : lease # q  BY <2>1 DEF GiftConstants
  <2>. QED  BY <1>2, <2>1, <2>3, <2>4, <2>7, <2>8, HeldUnmined
<1>5. CASE UNCHANGED <<card, req, told, txs, latest, owner, deposit>>
           /\ (UNCHANGED lease \/ LeaseExpires)
  <2>1. \A q \in Reqs : lease = q => lease' = q
    BY <1>5 DEF LeaseIsKept, GiftConstants
  <2>. QED  BY <1>5, <2>1, HeldQuietly DEF Backed, ToldOnly
<1>6. ASSUME NEW t \in Tokens, NEW u \in Users, HolderMoves(t, u)  PROVE HeldSound'
  <2>1. /\ owner[t] # Escrow /\ owner' = [owner EXCEPT ![t] = u] /\ u # Escrow
        /\ UNCHANGED <<card, req, told, txs, latest, deposit, lease>>
    BY <1>6 DEF HolderMoves, GiftConstants
  <2>2. \A c \in Cards : Backed(c)' <=> Backed(c)
    BY <2>1 DEF Backed, TypeOK, GiftConstants
  <2>. QED  BY <2>1, <2>2, HeldQuietly DEF ToldOnly
<1>7. ASSUME NEW c \in Cards, WalletSendsDeposit(c)  PROVE HeldSound'
  <2>1. /\ c \in told /\ deposit' = [deposit EXCEPT ![c] = "pending"]
        /\ UNCHANGED <<card, req, told, txs, latest, owner, lease>>
    BY <1>7 DEF WalletSendsDeposit
  <2>2. ASSUME NEW d \in Cards, Escrowed(d)
        PROVE  /\ card[d].status = "absent" => deposit'[d] = deposit[d]
               /\ deposit'[d] = "done" => deposit[d] = "done"
    <3>1. CustodySound(d)  BY <2>2 DEF HeldSound
    <3>. QED  BY <2>1, <3>1 DEF CustodySound, TypeOK
  <2>. QED  BY <2>1, <2>2, HeldQuietly DEF Backed, ToldOnly
<1>8. ASSUME NEW p \in Reqs, Crash(p)  PROVE HeldSound'
  <2>1. /\ UNCHANGED <<card, told, txs, latest, owner, deposit>> /\ OnlyReq(p)
        /\ req'[p].pc = "idle" /\ lease' = IF lease = p THEN Orphan ELSE lease
    BY <1>8, ReturnFields DEF Crash, ReturnKeepingLease, OnlyReq
  <2>2. \A c \in Cards : RowStep(c) /\ ToldOnly(c) /\ OutFits(c)
    <3>1. NoNewSend(p)  BY <2>1 DEF NoNewSend, Sending
    <3>2. \A c \in Cards : OutShrinks(c)  BY <2>1, <3>1, OutStill
    <3>. QED  BY <2>1, <3>2 DEF RowStep, RowStays, ToldOnly, OutFits
  <2>3. req'[p].pc \notin Holding /\ ~Works(p)'  BY <2>1 DEF Holding, Works
  <2>. QED  BY <2>1, <2>2, <2>3, HeldByRows
<1>. QED
  BY <1>3, <1>4, <1>5, <1>6, <1>7, <1>8, HeldMine, HeldDeposit
  DEF Environment, LeaseExpires, ToggleLock, RevokeApproval, Expire

-----------------------------------------------------------------------------
\* The steps of the handlers.

\* A step of p that does not send.
LEMMA HeldUpdate ==
  ASSUME GiftConstants, TypeOK, TypeOK', LedgerInv, MovesSound, HeldSound,
         UNCHANGED <<owner, txs, latest, deposit>>,
         \A c \in Cards : (card'[c] = card[c] \/ RowStep(c)) /\ ToldOnly(c),
         NEW p \in Reqs, OnlyReq(p), req'[p].pc \notin Sending,
         \A q \in Reqs \ {p} : lease = q => lease' = q,
         OwnHeld(p)
  PROVE  HeldSound'
<1>1. NoNewSend(p)  BY DEF NoNewSend
<1>2. \A c \in Cards : OutShrinks(c)  BY <1>1, OutStill
<1>3. \A c \in Cards : RowStep(c)  BY DEF RowStep, RowStays
<1>. QED  BY <1>2, <1>3, HeldByRows DEF OutFits, OwnHeld

\* A step of p that concludes nothing.
Aside == {"idle", "supersede", "insert", "mail", "send", "custody", "reissue", "retire",
          "lease", "undo", "release"}
LEMMA HeldAside ==
  ASSUME GiftConstants, TypeOK, TypeOK', LedgerInv, MovesSound, HeldSound,
         UNCHANGED <<owner, txs, latest, deposit>>,
         \A c \in Cards : (card'[c] = card[c] \/ RowStep(c)) /\ ToldOnly(c),
         NEW p \in Reqs, OnlyReq(p), req'[p].pc \in Aside,
         \A q \in Reqs \ {p} : lease = q => lease' = q
  PROVE  HeldSound'
<1>1. req'[p].pc \notin Sending  BY DEF Aside, Sending
<1>2. OwnHeld(p)
  BY DEF Aside, OwnHeld, RunHeld, SendHeld, Holding, Settling, Looked, Sending
<1>. QED  BY <1>1, <1>2, HeldUpdate

\* The handlers of v1-gift-create.
LEMMA HeldCreate ==
  ASSUME GiftConstants, TypeOK, TypeOK', LedgerInv, MovesSound, HeldSound, CreateNext
  PROVE  HeldSound'
<1>0. UNCHANGED <<owner, txs, latest, deposit, lease, clock>>
  BY DEF CreateNext, PrepareRepeat, PrepareRead, ResumeRead, ConfirmRead, PrepareSupersede,
         PrepareInsert, ConfirmProof, ConfirmActivate, ConfirmMailCheck, sendGiftInvitation,
         ResumeCustody, ResumeReissue, untouched
<1>1. ASSUME NEW c \in Cards, PrepareRepeat(c)  PROVE HeldSound'
  <2>1. UNCHANGED <<req, card>> /\ \A d \in Cards : ToldOnly(d)
    BY <1>1 DEF PrepareRepeat, ToldOnly
  <2>. QED  BY <1>0, <2>1, HeldQuietly DEF Backed
<1>2. ASSUME NEW p \in Reqs, UNCHANGED <<card, told>>, OnlyReq(p), req'[p].pc \in Aside
      PROVE  HeldSound'
  BY <1>0, <1>2, HeldAside DEF ToldOnly
<1>3. ASSUME NEW p \in Reqs, Return(p)  PROVE OnlyReq(p) /\ req'[p].pc \in Aside
  BY <1>3, ReturnFields DEF OnlyReq, Aside
<1>4. ASSUME NEW p \in Reqs, NEW s, Goto(p, s)
      PROVE  OnlyReq(p) /\ req'[p].pc = s /\ req'[p].gift = req[p].gift
  BY <1>4, GotoFields DEF OnlyReq
<1>5. ASSUME NEW p \in Reqs, NEW op, NEW c \in Cards, NEW s, NEW k, Enter(p, op, c, s, k)
      PROVE  OnlyReq(p) /\ req'[p].pc = s /\ req'[p].gift = c
  BY <1>5 DEF Enter, Idle, TypeOK, OnlyReq
<1>6. ASSUME NEW p \in Reqs, NEW c \in Cards, PrepareRead(p, c) \/ ResumeRead(p, c)
      PROVE  HeldSound'
  <2>1. UNCHANGED <<card, told>> /\ \E s \in Aside : \E op : Enter(p, op, c, s, 0)
    BY <1>6 DEF PrepareRead, ResumeRead, Aside
  <2>. QED  BY <1>2, <1>5, <2>1
<1>7. ASSUME NEW p \in Reqs, NEW c \in Cards, NEW k, ConfirmRead(p, c, k)
      PROVE  HeldSound'
  <2>1. UNCHANGED <<card, told>>  BY <1>7 DEF ConfirmRead
  <2>2. CASE Enter(p, "confirm", c, "mail", k)
    BY <1>2, <1>5, <2>1, <2>2 DEF Aside
  <2>3. CASE Enter(p, "confirm", c, "proof", k) /\ card[c].status = "pending_escrow"
    <3>1. OnlyReq(p) /\ req'[p].pc = "proof" /\ req'[p].gift = c  BY <1>5, <2>3
    <3>2. OwnHeld(p) /\ req'[p].pc \notin Sending
      BY <2>1, <2>3, <3>1 DEF OwnHeld, RunHeld, SendHeld, Holding, Settling, Looked, Sending
    <3>. QED  BY <1>0, <2>1, <3>1, <3>2, HeldUpdate DEF ToldOnly
  <2>. QED  BY <1>7, <2>2, <2>3 DEF ConfirmRead
<1>8. ASSUME NEW p \in Reqs, PrepareSupersede(p)  PROVE HeldSound'
  <2>1. UNCHANGED told /\ OnlyReq(p) /\ req'[p].pc \in Aside
    BY <1>4, <1>8 DEF PrepareSupersede, Aside
  <2>2. ASSUME NEW d \in Cards  PROVE card'[d] = card[d] \/ Closed(d)
    <3>1. \/ card'[d] = card[d]
          \/ /\ card[d].status = "pending_escrow"
             /\ card'[d] = [card[d] EXCEPT !.status = "cancelled"]
      BY <1>8 DEF PrepareSupersede
    <3>2. card[d] \in Rows  BY DEF TypeOK
    <3>. QED  BY <3>1, <3>2 DEF Rows, Closed, OpenStatus, Terminal, Unsent
  <2>. QED  BY <1>0, <2>1, <2>2, HeldAside DEF RowStep, ToldOnly
<1>9. ASSUME NEW p \in Reqs, PrepareInsert(p)  PROVE HeldSound'
  <2>1. req[p].gift \in Cards  BY <1>9, Running DEF PrepareInsert, At
  <2>2. PICK c \in Cards : c = req[p].gift  BY <2>1
  <2>3. OnlyReq(p) /\ req'[p].pc \in Aside  BY <1>3, <1>9 DEF PrepareInsert
  <2>4. told' = IF card'[c].code = FirstCode THEN told \cup {c} ELSE told
    BY <1>9, <2>2 DEF PrepareInsert
  <2>5. CASE UNCHANGED card
    <3>1. Escrowed(c) /\ card[c].status = "absent" => card[c].code # FirstCode
      BY <2>5 DEF HeldSound, CustodySound, FirstCode
    <3>2. \A d \in Cards : ToldOnly(d)  BY <2>4, <2>5, <3>1 DEF ToldOnly
    <3>. QED  BY <1>0, <2>3, <2>5, <3>2, HeldAside
  <2>6. CASE /\ card[c].status = "absent" /\ ~TokenTaken(c)
             /\ card' = [card EXCEPT ![c] = [NoRow EXCEPT !.status = "pending_escrow",
                                                         !.code = FirstCode]]
    <3>1. card'[c].status = "pending_escrow" /\ \A d \in Cards \ {c} : card'[d] = card[d]
      BY <2>6 DEF NoRow, TypeOK
    <3>2. Inserted(c)  BY <2>6, <3>1 DEF Inserted
    <3>3. \A d \in Cards : card'[d] = card[d] \/ RowStep(d)  BY <3>1, <3>2 DEF RowStep
    <3>4. \A d \in Cards : ToldOnly(d)  BY <2>4, <3>1 DEF ToldOnly
    <3>. QED  BY <1>0, <2>3, <3>3, <3>4, HeldAside
  <2>. QED  BY <1>9, <2>2, <2>5, <2>6 DEF PrepareInsert, DuplicateRequest
<1>10. ASSUME NEW p \in Reqs, ConfirmProof(p)  PROVE HeldSound'
  <2>1. UNCHANGED <<card, told>> /\ req[p].pc = "proof"  BY <1>10 DEF ConfirmProof, At
  <2>2. req[p].gift \in Cards  BY <2>1, Running
  <2>3. PICK c \in Cards : c = req[p].gift  BY <2>2
  <2>4. CASE Return(p)  BY <1>2, <1>3, <2>1, <2>4
  <2>5. CASE Goto(p, "activate") /\ escrowTransferProven(c)
    <3>1. OnlyReq(p) /\ req'[p].pc = "activate" /\ req'[p].gift = c  BY <1>4, <2>3, <2>5
    <3>2. ASSUME Escrowed(c)  PROVE Secured(c)'
      <4>1. CustodySound(c) /\ card[c].status # "absent"
        BY <2>1, <2>3, <3>2 DEF HeldSound, Works, RunHeld
      <4>2. Secured(c)
        BY <2>5, <4>1 DEF escrowTransferProven, CustodySound, Secured, Backed
      <4>. QED  BY <1>0, <2>1, <4>2 DEF Secured, Backed
    <3>3. OwnHeld(p) /\ req'[p].pc \notin Sending
      BY <3>1, <3>2 DEF OwnHeld, RunHeld, SendHeld, Holding, Settling, Looked, Sending,
                        Works, Escrowed
    <3>. QED  BY <1>0, <2>1, <3>1, <3>3, HeldUpdate DEF ToldOnly
  <2>. QED  BY <1>10, <2>3, <2>4, <2>5 DEF ConfirmProof
<1>11. ASSUME NEW p \in Reqs, ConfirmActivate(p)  PROVE HeldSound'
  <2>1. req[p].pc = "activate" /\ UNCHANGED told  BY <1>11 DEF ConfirmActivate, At
  <2>2. req[p].gift \in Cards  BY <2>1, Running
  <2>3. PICK c \in Cards : c = req[p].gift  BY <2>2
  <2>4. OnlyReq(p) /\ req'[p].pc \in Aside
    BY <1>3, <1>4, <1>11 DEF ConfirmActivate, Aside
  <2>5. ASSUME NEW d \in Cards  PROVE card'[d] = card[d] \/ Opened(d)
    <3>1. PICK pending \in BOOLEAN : pending <=> card[c].status = "pending_escrow"  OBVIOUS
    <3>2. Update(c, pending, [card[c] EXCEPT !.status = "active"])
      BY <1>11, <2>3, <3>1 DEF ConfirmActivate, Update
    <3>3. CASE d # c \/ ~pending  BY <3>2, <3>3, UpdateFields
    <3>4. CASE d = c /\ pending
      <4>1. card[c] \in Rows /\ card'[c] = [card[c] EXCEPT !.status = "active"]
        BY <3>2, <3>4, UpdateFields DEF TypeOK
      <4>2. Escrowed(c) => Backed(c) /\ ~Sent(c)
        <5>. SUFFICES ASSUME Escrowed(c)  PROVE Backed(c) /\ ~Sent(c)  OBVIOUS
        <5>1. Secured(c) /\ CustodySound(c)
          BY <2>1, <2>3 DEF HeldSound, Works, RunHeld
        <5>. QED  BY <3>1, <3>4, <5>1 DEF Secured, CustodySound, Terminal, Pend
      <4>. QED  BY <3>1, <3>4, <4>1, <4>2 DEF Opened, Rows
    <3>. QED  BY <3>3, <3>4
  <2>. QED  BY <1>0, <2>1, <2>4, <2>5, HeldAside DEF RowStep, ToldOnly
<1>12. ASSUME NEW p \in Reqs, ConfirmMailCheck(p) \/ sendGiftInvitation(p) \/ ResumeCustody(p)
       PROVE  HeldSound'
  <2>1. UNCHANGED <<card, told>> /\ OnlyReq(p) /\ req'[p].pc \in Aside
    BY <1>3, <1>4, <1>12 DEF ConfirmMailCheck, sendGiftInvitation, ResumeCustody, Aside
  <2>. QED  BY <1>2, <2>1
<1>13. ASSUME NEW p \in Reqs, ResumeReissue(p)  PROVE HeldSound'
  <2>1. req[p].gift \in Cards  BY <1>13, Running DEF ResumeReissue, At
  <2>2. PICK c \in Cards : c = req[p].gift  BY <2>1
  <2>3. OnlyReq(p) /\ req'[p].pc \in Aside  BY <1>3, <1>13 DEF ResumeReissue
  <2>4. PICK pending \in BOOLEAN : pending <=> card[c].status = "pending_escrow"  OBVIOUS
  <2>5. /\ Update(c, pending, [card[c] EXCEPT !.code = @ + 1])
        /\ told' = IF pending THEN told \cup {c} ELSE told
    BY <1>13, <2>2, <2>4 DEF ResumeReissue, Update
  <2>6. ASSUME NEW d \in Cards  PROVE (card'[d] = card[d] \/ RowStays(d)) /\ ToldOnly(d)
    <3>1. CASE d # c \/ ~pending  BY <2>5, <3>1, UpdateFields DEF ToldOnly
    <3>2. CASE d = c /\ pending
      <4>1. card[c] \in Rows /\ card'[c] = [card[c] EXCEPT !.code = @ + 1]
        BY <2>5, <3>2, UpdateFields DEF TypeOK
      <4>. QED  BY <2>4, <3>2, <4>1 DEF RowStays, Rows, ToldOnly, Pend
    <3>. QED  BY <3>1, <3>2
  <2>. QED  BY <1>0, <2>3, <2>6, HeldAside DEF RowStep
<1>. QED
  BY <1>1, <1>6, <1>7, <1>8, <1>9, <1>10, <1>11, <1>12, <1>13 DEF CreateNext

\* A step of p that leaves the rows alone and sends nothing.
LEMMA HeldMove ==
  ASSUME GiftConstants, TypeOK, TypeOK', LedgerInv, MovesSound, HeldSound,
         UNCHANGED <<card, owner, txs, latest, deposit, told, lease>>,
         NEW p \in Reqs, OnlyReq(p), req'[p].pc \notin Holding,
         Works(p)' => RunHeld(p)'
  PROVE  HeldSound'
<1>1. req'[p].pc \notin Sending /\ SendHeld(p)'  BY DEF Holding, Sending, SendHeld
<1>2. OwnHeld(p) /\ \A c \in Cards : ToldOnly(c)  BY <1>1 DEF OwnHeld, ToldOnly
<1>. QED  BY <1>1, <1>2, HeldUpdate

\* A live card read with the token in escrow or out of it.
LEMMA HeldOutside ==
  ASSUME TypeOK, NEW c \in Cards, CustodySound(c), Secured(c), ~Backed(c)
  PROVE  Done(c)
<1>1. card[c].status \in CardStatus  BY DEF TypeOK, Rows
<1>. QED
  BY <1>1 DEF CardStatus, OpenStatus, Terminal, Pend, Done, CustodySound, Secured

\* The handlers that move tokens: what they read.
LEMMA HeldRead ==
  ASSUME GiftConstants, TypeOK, TypeOK', LedgerInv, MovesSound, HeldSound, NEW p \in Reqs,
         \/ ClaimBegins(p) \/ CancelBegins(p) \/ ReadChain(p) \/ Reconcile(p)
  PROVE  HeldSound'
<1>0. UNCHANGED <<card, owner, txs, latest, deposit, told, lease>>
  BY DEF ClaimBegins, CancelBegins, ClaimRead, CancelRead, ReadChain, Reconcile, ledgerOnly
<1>. USE DEF Settling, Looked, Holding
<1>1. ASSUME NEW c \in Cards, card[c].status \in OpenStatus, OnlyReq(p), req'[p].gift = c,
             req'[p].seen = card[c], req'[p].pc \in {"chain", "reopen", "retire"}
      PROVE  HeldSound'
  <2>1. \A h : h # NoHash /\ h \in {card[c].claimHash, card[c].returnHash} => txs[h].gift = c
    BY DEF MovesSound, RowSound, HashIs
  <2>2. HashOf(req'[p].seen, req'[p].op) \in {card[c].claimHash, card[c].returnHash}
    BY <1>1 DEF HashOf
  <2>3. RunHeld(p)'
    BY <1>0, <1>1, <2>1, <2>2 DEF RunHeld, Secured, OpenStatus, Pend
  <2>. QED  BY <1>0, <1>1, <2>3, HeldMove
<1>2. ASSUME NEW c \in Cards, NEW w, ClaimRead(p, c, w)  PROVE HeldSound'
  <2>1. /\ card[c].status \in OpenStatus /\ OnlyReq(p) /\ req'[p].gift = c
        /\ req'[p].seen = card[c] /\ req'[p].pc = "chain"
    BY <1>2 DEF ClaimRead, Idle, OnlyReq, OpenStatus, TypeOK
  <2>. QED  BY <1>1, <2>1
<1>3. ASSUME NEW c \in Cards, CancelRead(p, c)  PROVE HeldSound'
  <2>1. /\ card[c].status \in OpenStatus /\ OnlyReq(p) /\ req'[p].gift = c
        /\ req'[p].seen = card[c] /\ req'[p].pc \in {"chain", "reopen", "retire"}
    BY <1>3 DEF CancelRead, Idle, OnlyReq, Open, TypeOK
  <2>. QED  BY <1>1, <2>1
<1>4. CASE ReadChain(p)
  <2>1. req[p].pc = "chain" /\ req[p] \in Requests /\ req[p].gift \in Cards
    BY <1>4, Running DEF ReadChain
  <2>2. PICK c \in Cards : c = req[p].gift  BY <2>1
  <2>3. /\ OnlyReq(p) /\ req'[p].gift = c /\ req'[p].op = req[p].op
        /\ req'[p].seen = req[p].seen /\ req'[p].holder = owner[TokenOf[c]]
        /\ req'[p].pc = IF req[p].seen.status = PendingStatus(req[p].op)
                        THEN "reconcile" ELSE "take"
    BY <1>4, <2>1, <2>2 DEF ReadChain, OnlyReq, TypeOK, Requests
  <2>4. ASSUME Escrowed(c)  PROVE RunHeld(p)'
    <3>1. CustodySound(c) /\ RunHeld(p)  BY <2>1, <2>2, <2>4 DEF HeldSound, Works
    <3>2. req'[p].holder = Escrow => Backed(c)  BY <2>3 DEF Backed
    <3>3. req'[p].pc = "reconcile" /\ req'[p].holder # Escrow => Done(c)
      <4>. SUFFICES ASSUME req'[p].pc = "reconcile", req'[p].holder # Escrow
                    PROVE  Done(c)
        OBVIOUS
      <4>1. req[p].seen.status \in Pend /\ ~Backed(c)
        BY <2>3 DEF PendingStatus, Pend, Backed
      <4>2. Secured(c)  BY <2>1, <2>2, <3>1, <4>1 DEF RunHeld
      <4>. QED  BY <3>1, <4>1, <4>2, HeldOutside
    <3>4. card[c].status # "absent"  BY <2>1, <2>2, <3>1 DEF RunHeld
    <3>5. Secured(c)' <=> Secured(c)  BY <1>0 DEF Secured, Backed
    <3>6. Done(c)' <=> Done(c)  BY <1>0 DEF Done, Sent
    <3>7. req'[p].pc = "reconcile" /\ HashOf(req[p].seen, req[p].op) # NoHash =>
            txs[HashOf(req[p].seen, req[p].op)].gift = c
      BY <2>1, <2>2, <3>1 DEF RunHeld
    <3>. QED  BY <1>0, <2>3, <3>2, <3>3, <3>4, <3>5, <3>6, <3>7 DEF RunHeld, Secured
  <2>5. req'[p].pc \notin Holding /\ (Works(p)' => RunHeld(p)')
    BY <2>3, <2>4 DEF Works, Escrowed
  <2>. QED  BY <1>0, <2>3, <2>5, HeldMove
<1>5. CASE Reconcile(p)
  <2>1. req[p].pc = "reconcile" /\ req[p] \in Requests /\ req[p].gift \in Cards
    BY <1>5, Running DEF Reconcile
  <2>2. PICK c, h : c = req[p].gift /\ h = HashOf(req[p].seen, req[p].op) /\ c \in Cards
    BY <2>1
  <2>3. CASE Return(p)
    <3>1. OnlyReq(p) /\ req'[p].pc = "idle"  BY <2>3, ReturnFields DEF OnlyReq
    <3>. QED  BY <1>0, <3>1, HeldMove DEF Works
  <2>4. CASE ~Return(p)
    <3>1. PICK t : Concludes(p, t)  BY <1>5, <2>4, ReconcileReads
    <3>2. PICK v, r : v = reconcileGiftTransfer(t) /\ r = t.receipt  OBVIOUS
    <3>3. v = "complete" =>
            \/ t.owner = t.destination
            \/ t.hash # NoHash /\ t.receipt = "success"
      BY <3>2 DEF reconcileGiftTransfer
    <3>4. /\ v = "complete" =>
               \/ req[p].holder = Destination(req[p].op, c, req[p].seen)
               \/ h # NoHash /\ r = "success"
          /\ Receipt(h, r)
          /\ req' = [req EXCEPT ![p] = [@ EXCEPT !.pc = "apply", !.verdict = v]]
      BY <2>2, <3>1, <3>2, <3>3 DEF Concludes
    <3>5. /\ OnlyReq(p) /\ req'[p].gift = c /\ req'[p].op = req[p].op
          /\ req'[p].seen = req[p].seen /\ req'[p].holder = req[p].holder
          /\ req'[p].pc = "apply" /\ req'[p].verdict = v
      BY <2>1, <2>2, <3>4 DEF OnlyReq, TypeOK, Requests
    <3>6. Destination(req[p].op, c, req[p].seen) # Escrow
      <4>1. req[p].seen.wallet \in Users \cup {None}  BY <2>1 DEF Requests, Rows
      <4>. QED  BY <2>2, <4>1 DEF Destination, GiftConstants
    <3>7. ASSUME Escrowed(c)  PROVE RunHeld(p)'
      <4>1. RunHeld(p)  BY <2>1, <2>2, <3>7 DEF HeldSound, Works
      <4>2. v = "complete" => Done(c)
        <5>1. CASE req[p].holder # Escrow  BY <2>1, <2>2, <4>1, <5>1 DEF RunHeld
        <5>2. CASE h # NoHash /\ Receipt(h, "success")
          <6>1. h \in DOMAIN txs
            BY <2>1, <2>2, <5>2 DEF LedgerInv, CarriesOwn, Known
          <6>2. txs[h].gift = c /\ txs[h].state = "success"
            BY <2>1, <2>2, <4>1, <5>2 DEF RunHeld, Receipt
          <6>. QED  BY <6>1, <6>2 DEF Done, Sent
        <5>. QED  BY <3>4, <3>6, <5>1, <5>2
      <4>3. (Secured(c)' <=> Secured(c)) /\ (Done(c)' <=> Done(c))
        BY <1>0 DEF Secured, Backed, Done, Sent
      <4>. QED  BY <1>0, <2>1, <2>2, <3>5, <4>1, <4>2, <4>3 DEF RunHeld
    <3>8. req'[p].pc \notin Holding /\ (Works(p)' => RunHeld(p)')
      BY <3>5, <3>7 DEF Works, Escrowed
    <3>. QED  BY <1>0, <3>5, <3>8, HeldMove
  <2>. QED  BY <2>3, <2>4
<1>. QED  BY <1>2, <1>3, <1>4, <1>5 DEF ClaimBegins, CancelBegins

\* A write by an invocation that sends nothing.
LEMMA HeldWrite ==
  ASSUME GiftConstants, TypeOK, TypeOK', LedgerInv, MovesSound, HeldSound,
         UNCHANGED <<owner, txs, latest, deposit, told, lease>>,
         NEW p \in Reqs, OnlyReq(p), req'[p].pc \notin Holding,
         Works(p)' => RunHeld(p)',
         \A c \in Cards : card'[c] = card[c] \/ RowStep(c)
  PROVE  HeldSound'
<1>1. req'[p].pc \notin Sending /\ SendHeld(p)'  BY DEF Holding, Sending, SendHeld
<1>2. OwnHeld(p) /\ \A c \in Cards : ToldOnly(c)  BY <1>1 DEF OwnHeld, ToldOnly
<1>. QED  BY <1>1, <1>2, HeldUpdate

\* A conditional write of one row, by an invocation that answers.
LEMMA HeldAnswer ==
  ASSUME GiftConstants, TypeOK, TypeOK', LedgerInv, MovesSound, HeldSound,
         UNCHANGED <<owner, txs, latest, deposit, told, lease>>,
         NEW p \in Reqs, Return(p),
         NEW c \in Cards, NEW guard, NEW row, Update(c, guard, row),
         guard => RowStep(c)
  PROVE  HeldSound'
<1>1. OnlyReq(p) /\ req'[p].pc = "idle"  BY ReturnFields DEF OnlyReq
<1>2. req'[p].pc \notin Holding /\ ~Works(p)'  BY <1>1 DEF Holding, Works
<1>3. \A d \in Cards : card'[d] = card[d] \/ RowStep(d)
  <2>1. CASE guard  BY <2>1, UpdateFields
  <2>2. CASE ~guard  BY <2>2, UpdateFields
  <2>. QED  BY <2>1, <2>2
<1>. QED  BY <1>1, <1>2, <1>3, HeldWrite

\* A pending row without a nonce has its token in escrow; so has one of whose nonce
\* a transfer was reverted.
LEMMA NotSentYet ==
  ASSUME TypeOK, HeldSound, NEW c \in Cards, Escrowed(c), card[c].status \in Pend,
         \/ card[c].nonce = NoNonce
         \/ \E i \in DOMAIN txs : txs[i].nonce = card[c].nonce /\ txs[i].state = "reverted"
  PROVE  ~Sent(c) /\ Backed(c)
<1>1. CustodySound(c)  BY DEF HeldSound
<1>2. ASSUME Sent(c)  PROVE FALSE
  <2>1. RowDelivered(c)  BY <1>1, <1>2 DEF CustodySound, Pend, Terminal
  <2>2. PICK i \in DOMAIN txs : txs[i].state = "success" /\ txs[i].nonce = card[c].nonce
    BY <2>1 DEF RowDelivered
  <2>3. card[c].nonce # NoNonce  BY <2>2, TxShapes DEF NoNonce
  <2>4. PICK j \in DOMAIN txs : txs[j].nonce = card[c].nonce /\ txs[j].state = "reverted"
    BY <2>3
  <2>5. i = j  BY <2>2, <2>4 DEF HeldSound, ChainSound, Mined
  <2>. QED  BY <2>2, <2>4, <2>5
<1>. QED  BY <1>1, <1>2 DEF CustodySound

\* A row that is reopened before anything of it was mined.
LEMMA Reopens ==
  ASSUME TypeOK, TypeOK', HeldSound, NEW c \in Cards, card[c].status \in Pend,
         \/ card[c].nonce = NoNonce
         \/ \E i \in DOMAIN txs : txs[i].nonce = card[c].nonce /\ txs[i].state = "reverted",
         card'[c].status \in {"pending_escrow", "active"}
  PROVE  RowStep(c)
BY NotSentYet DEF RowStep, Opened

\* What the rows written when an operation ends say.
LEMMA RowStatus ==
  ASSUME NEW row \in Rows, NEW s
  PROVE  /\ ReopenedClaim(row).status = "active"
         /\ ReopenedReturn(row, s).status = s
         /\ Cleared(row).status = row.status
<1>1. Cleared(row) \in Rows  BY RowShapes
<1>. QED  BY <1>1 DEF Rows, Cleared, ReopenedClaim, ReopenedReturn

LEMMA HeldApply ==
  ASSUME GiftConstants, TypeOK, TypeOK', LedgerInv, MovesSound, HeldSound, NEW p \in Reqs,
         ReportsInTime, ApplyComplete(p) \/ ApplyFailed(p) \/ ApplyRetry(p)
  PROVE  HeldSound'
<1>0. /\ UNCHANGED <<owner, txs, latest, deposit, told, lease>>
      /\ req[p].pc = "apply" /\ req[p] \in Requests /\ req[p].gift \in Cards
  BY Running DEF ApplyComplete, ApplyFailed, ApplyRetry, ledgerOnly
<1>1. PICK c \in Cards : c = req[p].gift  BY <1>0
<1>2. card[c] \in Rows /\ card'[c] \in Rows  BY DEF TypeOK
<1>3. Escrowed(c) => RunHeld(p)  BY <1>0, <1>1 DEF HeldSound, Works
<1>4. CASE ApplyComplete(p)
  <2>1. PICK op, row :
          /\ op = req[p].op
          /\ row = [Cleared(card[c]) EXCEPT !.status = FinalStatus(op),
                                            !.from = IF op = "cancel" THEN None ELSE @]
    OBVIOUS
  <2>2. Update(c, card[c].status = PendingStatus(op), row) /\ Return(p)
    BY <1>1, <1>4, <2>1 DEF ApplyComplete
  <2>3. ASSUME card[c].status = PendingStatus(op)  PROVE RowStep(c)
    <3>1. row.status = FinalStatus(op) /\ row.wallet = card[c].wallet
      <4>1. Cleared(card[c]) \in Rows /\ Cleared(card[c]).wallet = card[c].wallet
        BY <1>2, RowMarks
      <4>. QED  BY <2>1, <4>1 DEF Rows
    <3>2. card'[c] = row  BY <2>2, <2>3, UpdateFields
    <3>3. Escrowed(c) => Sent(c)
      <4>. SUFFICES ASSUME Escrowed(c)  PROVE Sent(c)  OBVIOUS
      <4>1. Done(c)  BY <1>0, <1>1, <1>3, <1>4 DEF RunHeld, ApplyComplete
      <4>. QED  BY <2>3, <4>1 DEF Done, PendingStatus, Terminal
    <3>. QED
      BY <2>3, <3>1, <3>2, <3>3
      DEF RowStep, Closed, PendingStatus, FinalStatus, OpenStatus, Terminal, Pend
  <2>. QED  BY <1>0, <2>2, <2>3, HeldAnswer
<1>5. CASE ApplyFailed(p)
  <2>1. Return(p)  BY <1>5 DEF ApplyFailed
  <2>2. CASE UNCHANGED card
    <3>1. Update(c, FALSE, card[c])  BY <2>2 DEF Update
    <3>. QED  BY <1>0, <2>1, <3>1, HeldAnswer
  <2>3. CASE card' # card
    <3>1. card[c] = req[p].seen  BY <1>1, <1>5, <2>3 DEF ReportsInTime
    <3>2. PICK h : h = HashOf(card[c], req[p].op)  OBVIOUS
    <3>3. h # NoHash /\ h \in DOMAIN txs /\ txs[h].state = "reverted"
      BY <1>0, <1>5, <3>1, <3>2 DEF LedgerInv, CarriesOwn, VerdictSound, ApplyFailed
    <3>4. PICK op, row :
            /\ op \in {"claim", "cancel"}
            /\ h = HashOf(card[c], op)
            /\ row.status \in {"pending_escrow", "active"}
            /\ Update(c, card[c].status = PendingStatus(op), row)
      <4>1. CASE req[p].op = "claim"
        <5>1. PICK row : row = [ReopenedClaim(card[c]) EXCEPT !.claimHash = NoHash]
          OBVIOUS
        <5>2. row.status = "active"
          <6>1. ReopenedClaim(card[c]) \in Rows  BY <1>2, RowShapes
          <6>. QED  BY <1>2, <5>1, <6>1, RowStatus DEF Rows
        <5>3. Update(c, card[c].status = PendingStatus("claim"), row)
          BY <1>1, <1>5, <4>1, <5>1 DEF ApplyFailed, PendingStatus
        <5>. QED  BY <3>2, <4>1, <5>2, <5>3
      <4>2. CASE req[p].op # "claim"
        <5>1. PICK s : s = IF req[p].seen.from = None THEN "active" ELSE req[p].seen.from
          OBVIOUS
        <5>2. s \in {"pending_escrow", "active"}  BY <1>0, <5>1 DEF Requests, Rows
        <5>3. PICK row : row = [ReopenedReturn(card[c], s) EXCEPT !.returnHash = NoHash]
          OBVIOUS
        <5>4. row.status = s
          <6>1. ReopenedReturn(card[c], s) \in Rows
            BY <1>2, <5>2, RowShapes DEF CardStatus, OpenStatus
          <6>. QED  BY <1>2, <5>3, <6>1, RowStatus DEF Rows
        <5>5. Update(c, card[c].status = PendingStatus("cancel"), row)
          BY <1>1, <1>5, <4>2, <5>1, <5>3 DEF ApplyFailed, PendingStatus
        <5>6. h = HashOf(card[c], "cancel")  BY <3>2, <4>2 DEF HashOf
        <5>. QED  BY <5>2, <5>4, <5>5, <5>6
      <4>. QED  BY <4>1, <4>2
    <3>5. ASSUME card[c].status = PendingStatus(op)  PROVE RowStep(c)
      <4>1. txs[h].nonce = card[c].nonce
        BY <3>3, <3>4, <3>5 DEF MovesSound, RowSound, HashOf, PendingStatus
      <4>2. card'[c] = row  BY <3>4, <3>5, UpdateFields
      <4>. QED  BY <3>3, <3>4, <3>5, <4>1, <4>2, Reopens DEF PendingStatus, Pend
    <3>. QED  BY <1>0, <2>1, <3>4, <3>5, HeldAnswer
  <2>. QED  BY <2>2, <2>3
<1>6. CASE ApplyRetry(p)
  <2>1. CASE Return(p) /\ UNCHANGED card
    <3>1. Update(c, FALSE, card[c])  BY <2>1 DEF Update
    <3>. QED  BY <1>0, <2>1, <3>1, HeldAnswer
  <2>2. CASE /\ clock' = clock + 1 /\ card' = [card EXCEPT ![c].started = clock']
             /\ OnlyReq(p) /\ req'[p].pc = "lease"
    <3>1. ASSUME NEW d \in Cards  PROVE card'[d] = card[d] \/ RowStays(d)
      <4>1. CASE d # c  BY <2>2, <4>1 DEF TypeOK
      <4>2. CASE d = c
        <5>1. card'[c] = [card[c] EXCEPT !.started = clock']  BY <2>2 DEF TypeOK
        <5>2. card'[c].started = clock + 1 /\ clock \in Nat  BY <1>2, <2>2, <5>1 DEF Rows, TypeOK
        <5>. QED  BY <1>2, <4>2, <5>1, <5>2 DEF Rows, RowStays
      <4>. QED  BY <4>1, <4>2
    <3>2. req'[p].pc \in Aside /\ \A d \in Cards : ToldOnly(d)
      BY <1>0, <2>2 DEF Aside, ToldOnly
    <3>. QED  BY <1>0, <2>2, <3>1, <3>2, HeldAside DEF RowStep
  <2>. QED
    <3>1. ASSUME NEW r, req' = [req EXCEPT ![p] = r], r.pc = "lease"
          PROVE  OnlyReq(p) /\ req'[p].pc = "lease"
      BY <3>1 DEF TypeOK, OnlyReq
    <3>. QED  BY <1>1, <1>6, <2>1, <2>2, <3>1 DEF ApplyRetry, FreshStart, NextStart, Idle
<1>. QED  BY <1>4, <1>5, <1>6

LEMMA HeldReset ==
  ASSUME GiftConstants, TypeOK, TypeOK', LedgerInv, MovesSound, HeldSound, NEW p \in Reqs,
         ResetClaim(p) \/ ResetReturn(p) \/ CancelReopen(p)
  PROVE  HeldSound'
<1>0. /\ UNCHANGED <<owner, txs, latest, deposit, told, lease>>
      /\ req[p].pc \in {"apply", "reopen"} /\ req[p] \in Requests /\ req[p].gift \in Cards
  BY Running DEF ResetClaim, ResetReturn, CancelReopen, At, ledgerOnly
<1>1. PICK c \in Cards : c = req[p].gift  BY <1>0
<1>2. card[c] \in Rows /\ card'[c] \in Rows  BY DEF TypeOK
<1>3. Escrowed(c) => RunHeld(p)  BY <1>0, <1>1 DEF HeldSound, Works
<1>4. PICK op \in {"claim", "cancel"}, still \in BOOLEAN :
        /\ still <=> StillUnsubmitted(c, op, req[p].seen)
        /\ still => card'[c].status \in {"pending_escrow", "active"}
        /\ ~still => card'[c] = card[c]
        /\ \A d \in Cards \ {c} : card'[d] = card[d]
        /\ \/ Return(p)
           \/ /\ still /\ req[p].pc = "apply" /\ OnlyReq(p) /\ req'[p].pc = "take"
              /\ req'[p].gift = c /\ req'[p].holder = req[p].holder
           \/ /\ still /\ req[p].pc = "reopen" /\ OnlyReq(p)
              /\ req'[p].pc \in {"chain", "retire"} /\ req'[p].gift = c
              /\ req'[p].op = "cancel" /\ req[p].op = "cancel"
              /\ req'[p].seen.status = "active"
              /\ req'[p].seen.returnHash = req[p].seen.returnHash
  <2>1. CASE ResetClaim(p)
    <3>1. PICK still, row :
            /\ still \in BOOLEAN /\ (still <=> StillUnsubmitted(c, "claim", req[p].seen))
            /\ row = ReopenedClaim(card[c])
      OBVIOUS
    <3>2. Update(c, still, row) /\ req[p].pc = "apply" /\ (Return(p) \/ (still /\ Goto(p, "take")))
      BY <1>1, <2>1, <3>1 DEF ResetClaim, At, Update
    <3>3. Goto(p, "take") => /\ OnlyReq(p) /\ req'[p].pc = "take"
                             /\ req'[p].gift = c /\ req'[p].holder = req[p].holder
      BY <1>0, <1>1 DEF Goto, OnlyReq, TypeOK, Requests
    <3>4. row.status = "active"  BY <1>2, <3>1, RowStatus
    <3>. QED  BY <3>1, <3>2, <3>3, <3>4, UpdateFields
  <2>2. CASE ResetReturn(p)
    <3>1. PICK s : s = IF req[p].seen.from = None THEN "active" ELSE req[p].seen.from
      OBVIOUS
    <3>2. PICK still \in BOOLEAN : still <=> StillUnsubmitted(c, "cancel", req[p].seen)
      OBVIOUS
    <3>3. PICK row, seen : row = ReopenedReturn(card[c], s) /\ seen = ReopenedReturn(req[p].seen, s)
      OBVIOUS
    <3>4. /\ Update(c, still, row) /\ req[p].pc = "apply"
          /\ \/ Return(p)
             \/ still /\ req' = [req EXCEPT ![p] = [@ EXCEPT !.pc = "take", !.seen = seen]]
      BY <1>1, <2>2, <3>2, <3>3, <3>1 DEF ResetReturn, At, Update
    <3>5. req' = [req EXCEPT ![p] = [@ EXCEPT !.pc = "take", !.seen = seen]] =>
            /\ OnlyReq(p) /\ req'[p].pc = "take"
            /\ req'[p].gift = c /\ req'[p].holder = req[p].holder
      BY <1>0, <1>1 DEF OnlyReq, TypeOK, Requests
    <3>6. row.status \in {"pending_escrow", "active"}
      BY <1>0, <1>2, <3>1, <3>3, RowStatus DEF Requests, Rows
    <3>. QED  BY <3>2, <3>4, <3>5, <3>6, UpdateFields
  <2>3. CASE CancelReopen(p)
    <3>1. PICK still \in BOOLEAN : still <=> StillUnsubmitted(c, "claim", req[p].seen)
      OBVIOUS
    <3>2. PICK row, seen, pc :
            /\ row = ReopenedClaim(card[c])
            /\ seen = [Cleared(req[p].seen) EXCEPT !.status = "active"]
            /\ pc = IF Escrowed(c) THEN "chain" ELSE "retire"
      OBVIOUS
    <3>3. /\ Update(c, still, row) /\ req[p].pc = "reopen" /\ req[p].op = "cancel"
          /\ \/ Return(p)
             \/ still /\ req' = [req EXCEPT ![p] = [@ EXCEPT !.seen = seen, !.pc = pc]]
      BY <1>1, <2>3, <3>2, <3>1 DEF CancelReopen, At, Update
    <3>4. seen.status = "active" /\ seen.returnHash = req[p].seen.returnHash
      <4>1. req[p].seen \in Rows  BY <1>0 DEF Requests
      <4>2. /\ Cleared(req[p].seen) \in Rows
            /\ Cleared(req[p].seen).returnHash = req[p].seen.returnHash
        BY <4>1, RowMarks
      <4>. QED  BY <3>2, <4>2 DEF Rows
    <3>5. req' = [req EXCEPT ![p] = [@ EXCEPT !.seen = seen, !.pc = pc]] =>
            /\ OnlyReq(p) /\ req'[p].pc = pc /\ req'[p].gift = c
            /\ req'[p].op = req[p].op /\ req'[p].seen = seen
      BY <1>0, <1>1 DEF OnlyReq, TypeOK, Requests
    <3>6. row.status = "active" /\ pc \in {"chain", "retire"}  BY <1>2, <3>2, RowStatus
    <3>7. /\ still => card'[c].status = "active"
          /\ ~still => card'[c] = card[c]
          /\ \A d \in Cards \ {c} : card'[d] = card[d]
      BY <3>3, <3>6, UpdateFields
    <3>8. ~Return(p) =>
            /\ still /\ req[p].pc = "reopen" /\ OnlyReq(p)
            /\ req'[p].pc \in {"chain", "retire"} /\ req'[p].gift = c
            /\ req'[p].op = "cancel" /\ req[p].op = "cancel"
            /\ req'[p].seen.status = "active"
            /\ req'[p].seen.returnHash = req[p].seen.returnHash
      BY <3>3, <3>4, <3>5, <3>6
    <3>. QED  BY <3>7, <3>1, <3>8
  <2>. QED  BY <2>1, <2>2, <2>3
<1>5. still => card[c].status \in Pend /\ card[c].nonce = NoNonce
  BY <1>4 DEF StillUnsubmitted, PendingStatus, Pend
<1>6. \A d \in Cards : card'[d] = card[d] \/ RowStep(d)  BY <1>4, <1>5, Reopens
<1>7. CASE Return(p)
  <2>1. OnlyReq(p) /\ req'[p].pc \notin Holding /\ ~Works(p)'
    BY <1>7, ReturnFields DEF OnlyReq, Holding, Works
  <2>. QED  BY <1>0, <1>6, <2>1, HeldWrite
<1>8. CASE ~Return(p)
  <2>1. ASSUME Escrowed(c)  PROVE RunHeld(p)'
    <3>1. Backed(c)  BY <1>4, <1>5, <1>8, <2>1, NotSentYet
    <3>2. card'[c].status # "absent" /\ Secured(c)'
      BY <1>0, <1>4, <1>5, <1>8, <3>1 DEF Secured, Backed
    <3>3. CASE req'[p].pc = "take"
      BY <1>4, <1>8, <3>2, <3>3 DEF RunHeld, Settling, Looked
    <3>4. CASE req'[p].pc \in {"chain", "retire"}
      <4>1. req[p].pc = "reopen" /\ req'[p].op = "cancel" /\ req[p].op = "cancel"
            /\ req'[p].gift = c /\ req'[p].seen.status = "active"
            /\ req'[p].seen.returnHash = req[p].seen.returnHash
        BY <1>4, <1>8, <3>4
      <4>2. req[p].seen.returnHash # NoHash => txs[req[p].seen.returnHash].gift = c
        BY <1>1, <1>3, <2>1, <4>1 DEF RunHeld, Settling, HashOf
      <4>. QED
        BY <1>0, <3>2, <3>4, <4>1, <4>2 DEF RunHeld, Settling, Looked, HashOf, Pend
    <3>. QED  BY <1>4, <1>8, <3>3, <3>4
  <2>2. /\ OnlyReq(p) /\ req'[p].pc \notin Holding
        /\ Works(p)' => RunHeld(p)'
    BY <1>4, <1>8, <2>1 DEF Holding, Works, Escrowed
  <2>. QED  BY <1>0, <1>4, <1>6, <2>2, HeldWrite
<1>. QED  BY <1>7, <1>8

\* The steps that take a card, or end a direct cancellation.
LEMMA HeldTake ==
  ASSUME GiftConstants, TypeOK, TypeOK', RetireInv, LedgerInv, MovesSound, HeldSound,
         NEW p \in Reqs,
         TakeClaim(p) \/ TakeReturn(p) \/ CancelLegacy(p) \/ CancelRetire(p)
  PROVE  HeldSound'
<1>0. /\ UNCHANGED <<owner, txs, latest, deposit, told, lease>>
      /\ req[p].pc \in {"take", "retire"} /\ req[p] \in Requests /\ req[p].gift \in Cards
  BY Running DEF TakeClaim, TakeReturn, CancelLegacy, CancelRetire, At, ledgerOnly
<1>1. PICK c \in Cards : c = req[p].gift  BY <1>0
<1>2. card[c] \in Rows /\ card'[c] \in Rows /\ clock \in Nat  BY DEF TypeOK
<1>3. Escrowed(c) => RunHeld(p) /\ CustodySound(c)
  BY <1>0, <1>1 DEF HeldSound, Works
<1>4. ASSUME OnlyReq(p), req'[p].pc \in {"idle", "lease", "retire"},
             \A d \in Cards : card'[d] = card[d] \/ RowStep(d)
      PROVE  HeldSound'
  <2>1. req'[p].pc \in Aside /\ \A d \in Cards : ToldOnly(d)
    BY <1>0, <1>4 DEF Aside, ToldOnly
  <2>. QED  BY <1>0, <1>4, <2>1, HeldAside
<1>5. ASSUME Return(p)  PROVE OnlyReq(p) /\ req'[p].pc = "idle"
  BY <1>5, ReturnFields DEF OnlyReq
<1>6. ASSUME NEW row, card' = [card EXCEPT ![c] = row]
      PROVE  card'[c] = row /\ \A d \in Cards \ {c} : card'[d] = card[d]
  BY <1>6 DEF TypeOK
<1>7. ASSUME Return(p), UNCHANGED card  PROVE HeldSound'
  BY <1>4, <1>5, <1>7
<1>8. ASSUME NEW row, NEW r, req' = [req EXCEPT ![p] = r], r.pc = "lease",
             card' = [card EXCEPT ![c] = row], row.status \in Pend, row.started = clock + 1,
             card[c].status \in {"pending_escrow", "active"}, Escrowed(c) => Backed(c)
      PROVE  HeldSound'
  <2>1. OnlyReq(p) /\ req'[p].pc = "lease"  BY <1>8 DEF TypeOK, OnlyReq
  <2>2. card'[c] = row /\ \A d \in Cards \ {c} : card'[d] = card[d]  BY <1>6, <1>8
  <2>3. Taken(c)  BY <1>2, <1>8, <2>2 DEF Taken
  <2>. QED  BY <1>4, <2>1, <2>2, <2>3 DEF RowStep
<1>9. CASE TakeClaim(p)
  <2>1. CASE UNCHANGED card /\ Return(p)  BY <1>7, <2>1
  <2>2. CASE ~(UNCHANGED card /\ Return(p))
    <3>1. PICK wallet : wallet = req[p].wallet  OBVIOUS
    <3>2. /\ card[c].status = "active" /\ clock' = clock + 1
          /\ card' = [card EXCEPT ![c] = [card[c] EXCEPT !.status = "claim_pending",
                        !.wallet = wallet, !.started = clock']]
          /\ req' = [req EXCEPT ![p] = [Idle EXCEPT !.op = "claim", !.gift = c,
                       !.pc = "lease", !.start = clock', !.initial = TRUE,
                       !.wallet = wallet]]
      BY <1>1, <1>9, <2>2, <3>1 DEF TakeClaim, FreshStart, NextStart
    <3>3. PICK row, r :
            /\ row = [card[c] EXCEPT !.status = "claim_pending",
                                     !.wallet = wallet, !.started = clock']
            /\ r = [Idle EXCEPT !.op = "claim", !.gift = c, !.pc = "lease",
                                !.start = clock', !.initial = TRUE, !.wallet = wallet]
      OBVIOUS
    <3>4. /\ row.status \in Pend /\ row.started = clock + 1 /\ r.pc = "lease"
      BY <1>2, <3>2, <3>3 DEF Rows, Idle, Pend
    <3>5. Escrowed(c) => Backed(c)  BY <1>3, <3>2 DEF CustodySound
    <3>. QED  BY <1>8, <3>2, <3>3, <3>4, <3>5
  <2>. QED  BY <2>1, <2>2
<1>10. CASE TakeReturn(p)
  <2>1. PICK status : status = req[p].seen.status  OBVIOUS
  <2>2. status \in {"pending_escrow", "active"} /\ req[p].pc = "take"
    BY <1>10, <2>1 DEF TakeReturn, At, TypeOK, Invocations
  <2>3. CASE UNCHANGED card /\ Return(p)  BY <1>7, <2>3
  <2>4. CASE /\ card[c].status = status /\ clock' = clock + 1 /\ req[p].holder = Escrow
             /\ card' = [card EXCEPT ![c] = [card[c] EXCEPT !.status = "cancel_pending",
                           !.from = status, !.started = clock']]
             /\ req' = [req EXCEPT ![p] = [Idle EXCEPT !.op = "cancel",
                          !.gift = c, !.pc = "lease", !.start = clock',
                          !.initial = TRUE, !.wallet = SenderOf[c],
                          !.seen.status = status]]
    <3>1. PICK row, r :
            /\ row = [card[c] EXCEPT !.status = "cancel_pending",
                                     !.from = status, !.started = clock']
            /\ r = [Idle EXCEPT !.op = "cancel", !.gift = c, !.pc = "lease",
                                !.start = clock', !.initial = TRUE,
                                !.wallet = SenderOf[c], !.seen.status = status]
      OBVIOUS
    <3>2. row.status \in Pend /\ row.started = clock + 1 /\ r.pc = "lease"
      BY <1>2, <2>4, <3>1 DEF Rows, Idle, Pend
    <3>3. Escrowed(c) => Backed(c)
      <4>. SUFFICES ASSUME Escrowed(c)  PROVE Backed(c)  OBVIOUS
      <4>1. Secured(c)  BY <1>1, <1>3, <2>2, <2>4 DEF RunHeld, Looked
      <4>. QED  BY <1>3, <2>2, <2>4, <4>1 DEF Secured, CustodySound
    <3>. QED  BY <1>8, <2>2, <2>4, <3>1, <3>2, <3>3
  <2>5. CASE /\ card[c].status = status
             /\ card' = [card EXCEPT ![c] = [card[c] EXCEPT !.status = "cancelled",
                           !.from = None, !.started = NoStart]]
             /\ Goto(p, "retire")
    <3>1. PICK row : row = [card[c] EXCEPT !.status = "cancelled", !.from = None,
                                           !.started = NoStart]
      OBVIOUS
    <3>2. row.status = "cancelled"  BY <1>2, <3>1 DEF Rows
    <3>3. card'[c] = row /\ \A d \in Cards \ {c} : card'[d] = card[d]
      BY <1>6, <2>5, <3>1
    <3>4. Closed(c)
      BY <2>2, <2>5, <3>2, <3>3 DEF Closed, OpenStatus, Terminal, Unsent
    <3>5. OnlyReq(p) /\ req'[p].pc = "retire"  BY <2>5, GotoFields DEF OnlyReq
    <3>. QED  BY <1>4, <3>3, <3>4, <3>5 DEF RowStep
  <2>. QED
    BY <1>1, <1>10, <2>1, <2>3, <2>4, <2>5 DEF TakeReturn, FreshStart, NextStart
<1>11. CASE CancelLegacy(p)
  <2>1. Return(p) /\ ~Escrowed(c) /\ req[p].pc = "retire"
        /\ Update(c, card[c].status = req[p].seen.status, [card[c] EXCEPT !.status = "cancelled"])
    BY <1>1, <1>11 DEF CancelLegacy, At
  <2>2. ASSUME card[c].status = req[p].seen.status  PROVE RowStep(c)
    <3>1. card[c].status \in OpenStatus
      BY <1>1, <2>1, <2>2 DEF RetireInv, RetiresClosed
    <3>2. card'[c].status = "cancelled"
      <4>1. card'[c] = [card[c] EXCEPT !.status = "cancelled"]  BY <2>1, <2>2, UpdateFields
      <4>. QED  BY <1>2, <4>1 DEF Rows
    <3>. QED  BY <2>1, <3>1, <3>2 DEF RowStep, Closed, Terminal
  <2>. QED  BY <1>0, <2>1, <2>2, HeldAnswer
<1>12. CASE CancelRetire(p)
  <2>1. Return(p) /\ Escrowed(c) /\ req[p].pc = "retire"
        /\ card' = [card EXCEPT ![c] = [Cleared(@) EXCEPT !.status = "cancelled",
                                          !.returnHash = NoHash, !.from = None]]
    BY <1>1, <1>12 DEF CancelRetire, At
  <2>2. card[c].status = "cancelled"  BY <1>1, <2>1 DEF RetireInv, RetiresClosed
  <2>3. /\ card'[c] = [Cleared(card[c]) EXCEPT !.status = "cancelled",
                         !.returnHash = NoHash, !.from = None]
        /\ \A d \in Cards \ {c} : card'[d] = card[d]
    BY <2>1 DEF TypeOK
  <2>4. card'[c].status = "cancelled" /\ card'[c].wallet = card[c].wallet
    <3>1. Cleared(card[c]) \in Rows /\ Cleared(card[c]).wallet = card[c].wallet
      BY <1>2, RowMarks
    <3>. QED  BY <2>3, <3>1 DEF Rows
  <2>5. RowStays(c)  BY <2>2, <2>4 DEF RowStays, Pend
  <2>. QED  BY <1>4, <1>5, <2>1, <2>3, <2>5 DEF RowStep
<1>. QED  BY <1>9, <1>10, <1>11, <1>12

\* The nonce is recorded before the transfer: the row then waits for what p sends.
LEMMA HeldRecord ==
  ASSUME GiftConstants, TypeOK, TypeOK', LedgerInv, MovesSound, HeldSound,
         NEW p \in Reqs, RecordNonce(p)
  PROVE  HeldSound'
<1>1. /\ UNCHANGED <<owner, txs, latest, deposit, told, lease>> /\ req[p].pc = "record"
      /\ req[p] \in Requests /\ req[p].gift \in Cards
  BY Running DEF RecordNonce, ledgerOnly
<1>2. PICK c \in Cards : c = req[p].gift  BY <1>1
<1>3. PICK own : own = req[p].nonce  OBVIOUS
<1>4. CASE UNCHANGED card /\ Goto(p, IF req[p].initial THEN "undo" ELSE "release")
  <2>1. OnlyReq(p) /\ req'[p].pc \in {"undo", "release"}
    BY <1>4, GotoFields DEF OnlyReq
  <2>2. req'[p].pc \in Aside /\ \A d \in Cards : ToldOnly(d)
    BY <1>1, <2>1 DEF Aside, ToldOnly
  <2>. QED  BY <1>1, <1>4, <2>1, <2>2, HeldAside
<1>5. CASE /\ Mine(p) /\ clock' = clock + 1 /\ Goto(p, "broadcast")
           /\ card' = [card EXCEPT ![c] = [card[c] EXCEPT !.nonce = own, !.started = clock']]
  <2>1. /\ \A d \in Cards \ {c} : card'[d] = card[d]
        /\ card'[c].nonce = own /\ card'[c].started = clock + 1
        /\ card'[c].status = card[c].status /\ card'[c].wallet = card[c].wallet
        /\ card'[c].code = card[c].code /\ clock \in Nat
    <3>1. card'[c] = [card[c] EXCEPT !.nonce = own, !.started = clock']
          /\ \A d \in Cards \ {c} : card'[d] = card[d]
      BY <1>5 DEF TypeOK
    <3>2. card[c] \in Rows  BY DEF TypeOK
    <3>. QED  BY <1>5, <3>1, <3>2 DEF Rows, TypeOK
  <2>2. /\ req'[p].pc = "broadcast" /\ req'[p].op = req[p].op /\ req'[p].gift = c
        /\ req'[p].wallet = req[p].wallet /\ OnlyReq(p)
    BY <1>2, <1>5, GotoFields DEF OnlyReq
  <2>3. /\ card[c].status = PendingStatus(req[p].op) /\ card[c].status \in Pend
        /\ Destination(req[p].op, c, card[c]) = req[p].wallet
    BY <1>2, <1>5 DEF Mine, PendingStatus, Pend, MovesSound, AttemptSound
  <2>4. RowStays(c)
    <3>1. Escrowed(c) /\ Sent(c) => own = card[c].nonce
      BY <1>1, <1>2, <1>3, <1>5 DEF HeldSound, Works, SendHeld
    <3>. QED  BY <2>1, <2>3, <3>1 DEF RowStays, Pend
  <2>5. ASSUME NEW d \in Cards \ {c}  PROVE RowStep(d) /\ OutShrinks(d)
    <3>1. RowStep(d)  BY <2>1 DEF RowStep, RowStays
    <3>2. ASSUME NEW n \in Nat, Out(d, n)'  PROVE Out(d, n)
      <4>1. CASE \E i \in DOMAIN txs' :
                   txs'[i].gift = d /\ txs'[i].state = "pending" /\ txs'[i].nonce = n
        BY <1>1, <4>1 DEF Out
      <4>2. ASSUME n >= latest', NEW q \in Reqs, req'[q].gift = d, req'[q].pc \in Sending,
                   req'[q].nonce = n
            PROVE  Out(d, n)
        <5>1. q # p /\ req'[q] = req[q]  BY <2>2, <4>2 DEF OnlyReq
        <5>. QED  BY <1>1, <4>2, <5>1 DEF Out
      <4>. QED  BY <3>2, <4>1, <4>2 DEF Out
    <3>. QED  BY <3>1, <3>2 DEF OutShrinks
  <2>6. \A d \in Cards : RowStep(d) /\ ToldOnly(d) /\ OutFits(d)
    <3>1. RowStep(c) /\ OutFits(c)  BY <2>3, <2>4 DEF RowStep, OutFits
    <3>2. \A d \in Cards : ToldOnly(d)  BY <1>1 DEF ToldOnly
    <3>. QED  BY <2>5, <3>1, <3>2 DEF OutFits
  <2>7. lease' = p  BY <1>1 DEF HeldSound, LeaseHeld, Holding
  <2>8. RunHeld(p)'  BY <2>2 DEF RunHeld, Settling, Looked
  <2>9. SendHeld(p)'
    <3>1. req[p].wallet = Goes(c)'
      BY <2>1, <2>3 DEF Goes, Destination, PendingStatus
    <3>. QED  BY <2>2, <3>1 DEF SendHeld
  <2>10. \A q \in Reqs \ {p} : lease = q => lease' = q  BY <1>1
  <2>. QED  BY <1>1, <2>2, <2>6, <2>7, <2>8, <2>9, <2>10, HeldByRows
<1>. QED
  BY <1>1, <1>2, <1>3, <1>4, <1>5 DEF RecordNonce, Mine, Early, NextStart

\* The hash is recorded after it.
LEMMA HeldHash ==
  ASSUME GiftConstants, TypeOK, TypeOK', LedgerInv, MovesSound, HeldSound,
         NEW p \in Reqs, RecordHash(p)
  PROVE  HeldSound'
<1>1. /\ UNCHANGED <<owner, txs, latest, deposit, told, lease>> /\ req[p].pc = "hash"
      /\ req[p] \in Requests /\ req[p].gift \in Cards
  BY Running DEF RecordHash, ledgerOnly
<1>2. PICK c \in Cards : c = req[p].gift  BY <1>1
<1>3. PICK op, h : op = req[p].op /\ h = req[p].hash  OBVIOUS
<1>4. PICK row : row = IF op = "claim" THEN [card[c] EXCEPT !.claimHash = h]
                       ELSE [card[c] EXCEPT !.returnHash = h]
  OBVIOUS
<1>5. Update(c, card[c].status = PendingStatus(op), row) /\ Goto(p, "receipt")
  BY <1>1, <1>2, <1>3, <1>4 DEF RecordHash
<1>6. /\ row.status = card[c].status /\ row.nonce = card[c].nonce
      /\ row.wallet = card[c].wallet /\ row.started = card[c].started
      /\ row.code = card[c].code
  <2>1. card[c] \in Rows  BY DEF TypeOK
  <2>. QED  BY <1>4, <2>1 DEF Rows
<1>7. ASSUME NEW d \in Cards  PROVE card'[d] = card[d] \/ RowStep(d)
  <2>1. card'[d] = card[d] \/ (d = c /\ card'[d] = row)  BY <1>5, UpdateFields
  <2>. QED  BY <1>6, <2>1 DEF RowStep, RowStays
<1>8. /\ req'[p].pc = "receipt" /\ req'[p].nonce = req[p].nonce
      /\ req'[p].hash = req[p].hash /\ req'[p].gift = c /\ OnlyReq(p)
  BY <1>2, <1>5, GotoFields DEF OnlyReq
<1>9. lease' = p  BY <1>1 DEF HeldSound, LeaseHeld, Holding
<1>10. ASSUME Works(p)'  PROVE RunHeld(p)' /\ SendHeld(p)'
  <2>1. SendHeld(p)  BY <1>1, <1>2, <1>8, <1>10 DEF HeldSound, Works, Escrowed
  <2>2. RunHeld(p)'  BY <1>8 DEF RunHeld, Settling, Looked
  <2>3. SendHeld(p)'  BY <1>1, <1>8, <2>1 DEF SendHeld, Sending
  <2>. QED  BY <2>2, <2>3
<1>11. OwnHeld(p) /\ req'[p].pc \notin Sending /\ \A d \in Cards : ToldOnly(d)
  BY <1>1, <1>8, <1>9, <1>10 DEF OwnHeld, Sending, ToldOnly
<1>12. \A q \in Reqs \ {p} : lease = q => lease' = q  BY <1>1
<1>. QED  BY <1>1, <1>7, <1>8, <1>11, <1>12, HeldUpdate

\* A simulation passes only while the token is in custody.
LEMMA HeldSimulate ==
  ASSUME GiftConstants, TypeOK, TypeOK', LedgerInv, MovesSound, HeldSound,
         NEW p \in Reqs, Simulate(p)
  PROVE  HeldSound'
<1>1. /\ UNCHANGED <<card, owner, txs, latest, deposit, told, lease>>
      /\ req[p].pc = "simulate" /\ req[p] \in Requests /\ req[p].gift \in Cards
      /\ Transferable(req[p].gift)
  BY Running DEF Simulate, ledgerOnly
<1>2. PICK c \in Cards : c = req[p].gift  BY <1>1
<1>3. PICK n : req' = [req EXCEPT ![p] = [@ EXCEPT !.pc = "record", !.nonce = n]]
  BY DEF Simulate
<1>4. OnlyReq(p) /\ req'[p].pc = "record" /\ req'[p].gift = c /\ req'[p].op = req[p].op
  <2>1. req'[p] = [req[p] EXCEPT !.pc = "record", !.nonce = n] /\ OnlyReq(p)
    BY <1>3 DEF TypeOK, OnlyReq
  <2>. QED  BY <1>1, <1>2, <2>1 DEF Requests
<1>5. lease' = p  BY <1>1 DEF HeldSound, LeaseHeld, Holding
<1>6. ASSUME Escrowed(c)  PROVE RunHeld(p)' /\ SendHeld(p)'
  <2>1. Backed(c) /\ CustodySound(c)
    BY <1>1, <1>2, <1>6 DEF Transferable, CustodyOf, Backed, HeldSound
  <2>2. Mine(p)' => card[c].status \in Pend
    BY <1>1, <1>4 DEF Mine, PendingStatus, Pend
  <2>3. Mine(p)' => ~Sent(c)'  BY <1>1, <2>1, <2>2 DEF CustodySound, Sent
  <2>4. RunHeld(p)'  BY <1>4 DEF RunHeld, Settling, Looked
  <2>5. SendHeld(p)'  BY <1>4, <2>3 DEF SendHeld, Sending
  <2>. QED  BY <2>4, <2>5
<1>7. OwnHeld(p) /\ req'[p].pc \notin Sending /\ \A d \in Cards : ToldOnly(d)
  BY <1>1, <1>4, <1>5, <1>6 DEF OwnHeld, Sending, ToldOnly, Works, Escrowed
<1>8. \A q \in Reqs \ {p} : lease = q => lease' = q  BY <1>1
<1>. QED  BY <1>1, <1>4, <1>7, <1>8, HeldUpdate

\* An attempt that broadcast nothing is undone, one that is confirmed closes its card.
LEMMA HeldEnd ==
  ASSUME GiftConstants, TypeOK, TypeOK', LedgerInv, MovesSound, HeldSound,
         NEW p \in Reqs, UndoAttempt(p) \/ Finalize(p)
  PROVE  HeldSound'
<1>1. /\ UNCHANGED <<owner, txs, latest, deposit, told, lease>>
      /\ req[p].pc \in {"undo", "final"} /\ req[p] \in Requests /\ req[p].gift \in Cards
  BY Running DEF UndoAttempt, Finalize, ledgerOnly
<1>2. PICK c \in Cards : c = req[p].gift  BY <1>1
<1>3. PICK op, h : op = req[p].op /\ h = req[p].hash  OBVIOUS
<1>4. card[c] \in Rows  BY DEF TypeOK
<1>5. CASE UndoAttempt(p)
  <2>1. PICK status : status = req[p].seen.status  OBVIOUS
  <2>2. PICK row : row = IF op = "claim" THEN ReopenedClaim(card[c])
                         ELSE ReopenedReturn(card[c], status)
    OBVIOUS
  <2>3. PICK mine \in BOOLEAN :
          mine <=> card[c].status = PendingStatus(op) /\ card[c].started = req[p].start
    OBVIOUS
  <2>4. Update(c, mine, row) /\ Goto(p, "release")
    BY <1>2, <1>3, <1>5, <2>1, <2>2, <2>3 DEF UndoAttempt, Update
  <2>5. ASSUME mine  PROVE RowStep(c)
    <3>1. Mine(p)  BY <1>2, <1>3, <1>5, <2>3, <2>5 DEF UndoAttempt, Mine, Early
    <3>2. AttemptSound(p) /\ req[p].initial
      BY <1>5, <3>1 DEF UndoAttempt, MovesSound, LedgerInv, CarriesOwn
    <3>3. card[c].nonce = NoNonce /\ card[c].status \in Pend
      BY <1>2, <2>3, <2>5, <3>2 DEF AttemptSound, PendingStatus, Pend
    <3>4. op # "claim" => status \in {"pending_escrow", "active"}
      BY <1>3, <1>5, <2>1, <3>2 DEF UndoAttempt, LedgerInv, CarriesOwn, Early
    <3>5. card'[c] = row  BY <2>4, <2>5, UpdateFields
    <3>6. row.status \in {"pending_escrow", "active"}  BY <1>4, <2>2, <3>4, RowStatus
    <3>. QED  BY <3>3, <3>5, <3>6, Reopens
  <2>6. OnlyReq(p) /\ req'[p].pc \in Aside /\ \A d \in Cards : ToldOnly(d)
    BY <1>1, <2>4, GotoFields DEF OnlyReq, Aside, ToldOnly
  <2>7. \A d \in Cards : card'[d] = card[d] \/ RowStep(d)
    BY <2>4, <2>5, UpdateFields
  <2>. QED  BY <1>1, <2>6, <2>7, HeldAside
<1>6. CASE Finalize(p)
  <2>1. PICK row : row = IF op = "claim" THEN [Cleared(card[c]) EXCEPT !.status = "claimed"]
                         ELSE [Cleared(card[c]) EXCEPT !.status = "cancelled",
                                 !.returnHash = h, !.from = None]
    OBVIOUS
  <2>2. Update(c, card[c].status = PendingStatus(op), row) /\ Return(p)
    BY <1>2, <1>3, <1>6, <2>1 DEF Finalize
  <2>3. /\ row.wallet = card[c].wallet
        /\ row.status = IF op = "claim" THEN "claimed" ELSE "cancelled"
    <3>1. Cleared(card[c]) \in Rows  BY <1>4, RowMarks
    <3>. QED  BY <1>4, <2>1, <3>1, RowMarks DEF Rows
  <2>4. ASSUME card[c].status = PendingStatus(op)  PROVE RowStep(c)
    <3>1. Escrowed(c) => Sent(c)
      BY <1>1, <1>2, <1>6 DEF Finalize, HeldSound, Works, RunHeld
    <3>2. card'[c] = row  BY <2>2, <2>4, UpdateFields
    <3>. QED
      BY <2>3, <2>4, <3>1, <3>2
      DEF RowStep, Closed, PendingStatus, OpenStatus, Terminal, Pend
  <2>. QED  BY <1>1, <2>2, <2>4, HeldAnswer
<1>. QED  BY <1>5, <1>6

\* The steps of submitClaimTransfer and submitReturn.
LEMMA HeldSubmit ==
  ASSUME GiftConstants, TypeOK, TypeOK', LedgerInv, MovesSound, HeldSound,
         NEW p \in Reqs, submitTransfer(p)
  PROVE  HeldSound'
<1>1. ASSUME UNCHANGED <<card, owner, txs, latest, deposit, told>>, OnlyReq(p),
             req'[p].pc \in Aside, \A q \in Reqs \ {p} : lease = q => lease' = q
      PROVE  HeldSound'
  BY <1>1, HeldAside DEF ToldOnly
<1>2. CASE TakeLease(p)
  <2>1. UNCHANGED <<card, owner, txs, latest, deposit, told>>
    BY <1>2 DEF TakeLease, ledgerOnly
  <2>2. CASE lease = None /\ lease' = p /\ Goto(p, "simulate")
    <3>1. OnlyReq(p) /\ req'[p].pc = "simulate"  BY <2>2, GotoFields DEF OnlyReq
    <3>2. OwnHeld(p) /\ req'[p].pc \notin Sending /\ \A d \in Cards : ToldOnly(d)
      BY <2>1, <2>2, <3>1
      DEF OwnHeld, RunHeld, SendHeld, Settling, Looked, Sending, ToldOnly
    <3>3. \A q \in Reqs \ {p} : lease = q => lease' = q  BY <2>2 DEF GiftConstants
    <3>. QED  BY <2>1, <3>1, <3>2, <3>3, HeldUpdate
  <2>3. CASE UNCHANGED lease /\ (Goto(p, "undo") \/ Return(p))
    <3>1. OnlyReq(p) /\ req'[p].pc \in {"undo", "idle"}
      BY <2>3, GotoFields, ReturnFields DEF OnlyReq
    <3>. QED  BY <1>1, <2>1, <2>3, <3>1 DEF Aside
  <2>. QED  BY <1>2, <2>2, <2>3 DEF TakeLease
<1>3. CASE SimulateFails(p)
  <2>1. UNCHANGED <<card, owner, txs, latest, deposit, told, lease>>
        /\ (Goto(p, "undo") \/ Goto(p, "release"))
    BY <1>3 DEF SimulateFails, ledgerOnly
  <2>2. OnlyReq(p) /\ req'[p].pc \in {"undo", "release"}
    BY <2>1, GotoFields DEF OnlyReq
  <2>. QED  BY <1>1, <2>1, <2>2 DEF Aside
<1>4. CASE BroadcastFails(p) \/ Unconfirmed(p)
  <2>1. UNCHANGED <<card, owner, txs, latest, deposit, told>>
        /\ Return(p) /\ lease' = IF lease = p THEN Orphan ELSE lease
    BY <1>4 DEF BroadcastFails, Unconfirmed, ledgerOnly, ReturnKeepingLease
  <2>2. OnlyReq(p) /\ req'[p].pc = "idle"  BY <2>1, ReturnFields DEF OnlyReq
  <2>. QED  BY <1>1, <2>1, <2>2 DEF Aside
<1>5. CASE Confirmed(p)
  <2>1. /\ UNCHANGED <<card, owner, txs, latest, deposit, told, lease>>
        /\ req[p].pc = "receipt" /\ Goto(p, "release-final")
    BY <1>5 DEF Confirmed, ledgerOnly
  <2>2. PICK i \in DOMAIN txs : txs[i].nonce = req[p].nonce /\ txs[i].state = "success"
    BY <1>5 DEF Confirmed
  <2>3. OnlyReq(p) /\ req'[p].pc = "release-final" /\ req'[p].gift = req[p].gift
    BY <2>1, GotoFields DEF OnlyReq
  <2>4. ASSUME Works(p)'  PROVE RunHeld(p)'
    <3>1. SendHeld(p)  BY <2>1, <2>3, <2>4 DEF HeldSound, Works, Escrowed
    <3>2. i = req[p].hash  BY <2>1, <2>2, <3>1 DEF SendHeld
    <3>3. PICK c : c = req[p].gift  OBVIOUS
    <3>4. txs[i].gift = c
      BY <2>1, <3>2, <3>3 DEF LedgerInv, CarriesOwn, Hashed, HashIs
    <3>5. Sent(c)' /\ req'[p].gift = c  BY <2>1, <2>2, <2>3, <3>3, <3>4 DEF Sent
    <3>. QED  BY <2>3, <3>5 DEF RunHeld, Settling, Looked
  <2>5. req'[p].pc \notin Holding  BY <2>3 DEF Holding
  <2>. QED  BY <2>1, <2>3, <2>4, <2>5, HeldMove
<1>6. CASE ReleaseLease(p)
  <2>1. UNCHANGED <<card, owner, txs, latest, deposit, told>>
        /\ lease' = IF lease = p THEN None ELSE lease
    BY <1>6 DEF ReleaseLease, ledgerOnly
  <2>2. \A q \in Reqs \ {p} : lease = q => lease' = q  BY <2>1
  <2>3. CASE Return(p)
    <3>1. OnlyReq(p) /\ req'[p].pc = "idle"  BY <2>3, ReturnFields DEF OnlyReq
    <3>. QED  BY <1>1, <2>1, <2>2, <3>1 DEF Aside
  <2>4. CASE Goto(p, "final") /\ req[p].pc = "release-final"
    <3>1. OnlyReq(p) /\ req'[p].pc = "final" /\ req'[p].gift = req[p].gift
      BY <2>4, GotoFields DEF OnlyReq
    <3>2. ASSUME Works(p)'  PROVE RunHeld(p)' /\ SendHeld(p)'
      <4>1. PICK c : c = req[p].gift  OBVIOUS
      <4>2. Sent(c)
        BY <2>4, <3>1, <3>2, <4>1 DEF HeldSound, Works, Escrowed, RunHeld
      <4>3. Sent(c)' /\ req'[p].gift = c  BY <2>1, <3>1, <4>1, <4>2 DEF Sent
      <4>. QED  BY <3>1, <4>3 DEF RunHeld, SendHeld, Settling, Looked, Sending
    <3>3. OwnHeld(p) /\ req'[p].pc \notin Sending /\ \A d \in Cards : ToldOnly(d)
      BY <2>1, <3>1, <3>2 DEF OwnHeld, Holding, Sending, ToldOnly
    <3>. QED  BY <2>1, <2>2, <3>1, <3>3, HeldUpdate
  <2>. QED  BY <1>6, <2>3, <2>4 DEF ReleaseLease
<1>. QED
  BY <1>2, <1>3, <1>4, <1>5, <1>6, HeldSimulate, HeldRecord, HeldBroadcast, HeldHash, HeldEnd
  DEF submitTransfer

-----------------------------------------------------------------------------
\* Custody, as long as reports arrive in time, leases are kept and tokens under way
\* are not given on.

LEMMA HeldInit == GiftConstants /\ Init => HeldSound
<1>. SUFFICES ASSUME GiftConstants, Init  PROVE HeldSound  OBVIOUS
<1>1. /\ txs = <<>> /\ DOMAIN txs = {}
      /\ \A p \in Reqs : req[p].pc = "idle"
  BY DEF Init, Idle
<1>2. \A c \in Cards : ~Sent(c) /\ \A n \in Nat : ~Out(c, n)
  BY <1>1 DEF Sent, Out, Sending
<1>3. ASSUME NEW c \in Cards, c \in LiveCards
      PROVE  card[c].status = "active" /\ (Escrowed(c) => Backed(c))
  BY <1>3 DEF Init, LiveRow, NoRow, Backed, CustodyOf
<1>4. ASSUME NEW c \in Cards, c \notin LiveCards
      PROVE  /\ card[c].status = "absent" /\ card[c].code = 0
             /\ deposit[c] = "none" /\ c \notin told
  BY <1>4 DEF Init, NoRow
<1>5. ASSUME NEW c \in Cards, Escrowed(c)  PROVE CustodySound(c)
  BY <1>2, <1>3, <1>4, <1>5 DEF CustodySound, Secured, Terminal, Pend
<1>6. \A c \in Cards : Open(c) => c \in LiveCards
  BY <1>4 DEF Open, OpenStatus
<1>7. ChainSound  BY <1>1, <1>6 DEF ChainSound, GiftConstants
<1>. QED  BY <1>1, <1>5, <1>7 DEF HeldSound, LeaseHeld, Holding, Works

\* Every step keeps it.
LEMMA HeldStep ==
  GiftConstants /\ HeldInv /\ [Next /\ ReportsInTime /\ LeaseIsKept /\ NotGivenOn]_vars =>
    HeldInv'
<1>. SUFFICES ASSUME GiftConstants, HeldInv,
                     [Next /\ ReportsInTime /\ LeaseIsKept /\ NotGivenOn]_vars
              PROVE  HeldInv'
  OBVIOUS
<1>1. MovesInv' /\ MovesInv  BY MovesStep DEF HeldInv
<1>2. TypeOK /\ TypeOK' /\ RetireInv /\ LedgerInv /\ MovesSound /\ HeldSound
  BY <1>1 DEF HeldInv, MovesInv, AttemptInv
<1>3. HeldSound'
  <2>1. CASE UNCHANGED vars
    <3>1. UNCHANGED <<card, req, txs, latest, owner, deposit, told, lease>>
      BY <2>1 DEF vars
    <3>2. \A c \in Cards : ToldOnly(c) /\ (Backed(c)' <=> Backed(c))
      BY <3>1 DEF ToldOnly, Backed
    <3>. QED  BY <1>2, <3>1, <3>2, HeldQuietly
  <2>2. CASE CreateNext  BY <1>2, <2>2, HeldCreate
  <2>3. CASE Environment /\ LeaseIsKept /\ NotGivenOn  BY <1>2, <2>3, HeldEnvironment
  <2>4. ASSUME NEW p \in Reqs, ClaimBegins(p) \/ CancelBegins(p) \/ TransferStep(p),
               ReportsInTime
        PROVE  HeldSound'
    BY <1>2, <2>4, HeldRead, HeldApply, HeldReset, HeldTake, HeldSubmit
    DEF TransferStep
  <2>. QED  BY <2>1, <2>2, <2>3, <2>4 DEF Next, TransferNext
<1>. QED  BY <1>1, <1>3 DEF HeldInv

LEMMA HeldHolds == HeldSpec => []HeldInv
<1>1. GiftConstants /\ Init => HeldInv
  BY AttemptInit, TypeInit, LedgerInit, MovesInit, HeldInit
  DEF HeldInv, MovesInv, RetireInv, RetiresClosed, Init, Idle
<1>. QED  BY GiftConstants, <1>1, HeldStep, PTL DEF HeldSpec

\* A card that can be claimed has its token in escrow, whatever claims, cancellations
\* and setups of it were attempted, killed and retried before.
THEOREM EscrowBacksActive == HeldSpec => []ActiveIsBacked
<1>1. HeldInv => ActiveIsBacked
  BY DEF HeldInv, HeldSound, CustodySound, Backed, ActiveIsBacked
<1>. QED  BY <1>1, HeldHolds, PTL

\* A card is claimed only once a transfer of its own was mined that brought the token
\* to the wallet its row names.
THEOREM ClaimsAreDelivered == HeldSpec => []ClaimedIsDelivered
<1>1. HeldInv => ClaimedIsDelivered
  BY DEF HeldInv, HeldSound, CustodySound, Arrived, ClaimedIsDelivered
<1>. QED  BY <1>1, HeldHolds, PTL
=============================================================================
