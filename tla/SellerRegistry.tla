--------------------------- MODULE SellerRegistry ---------------------------
(***************************************************************************)
(* GemRegistry and PrimarySaleAuction as the seller's functions use them:  *)
(* gems in order of registration, one auction per gem, and the             *)
(* transactions of the operator and of wallets, which are mined in any     *)
(* order and revert when the contract refuses them.                        *)
(*                                                                         *)
(* The contracts are not in this repository; what they accept is read off  *)
(* the guards and comments of their callers.                               *)
(***************************************************************************)
EXTENDS Naturals, Sequences, FiniteSets, SequencesExt

CONSTANTS None, MaxSent, MaxOpened

VARIABLES
  gems,       \* registered gems, in order: package, status, token, sale mode, auction
  approved,   \* sellerApproved
  pending,    \* transactions in the mempool
  receipts,   \* mined registrations, with the gem each registered
  sent,       \* registrations sent so far
  opened      \* rounds opened for each gem

chainVars == <<gems, approved, pending, receipts, sent, opened>>

GemStatus == [Registered |-> 1, CustodyConfirmed |-> 2, Verified |-> 3, Listed |-> 4,
              Minted |-> 5]

NoAuction == [exists |-> FALSE, settled |-> FALSE, ended |-> FALSE, bidder |-> None]
OpenAuction == [NoAuction EXCEPT !.exists = TRUE]
LiveAuction(g) == gems[g].auction.exists /\ ~gems[g].auction.settled

NewGem == [pkg |-> None, status |-> GemStatus.Registered, mode |-> None, auction |-> NoAuction]

\* The number tells a transaction from the others whose hash is in use.
Tx(fn, arg, by) ==
  LET numbered(n) == [fn |-> fn, arg |-> arg, by |-> by, nr |-> n]
  IN IF fn = "registerGem" THEN numbered(sent + 1)
     ELSE numbered(CHOOSE n \in 1..(Cardinality(pending) + 1) :
                     /\ numbered(n) \notin pending
                     /\ \A k \in 1..(n - 1) : numbered(k) \in pending)

Accepts(tx) ==
  CASE tx.fn = "setSellerApproval" -> TRUE
    [] tx.fn = "registerGem" -> approved
    [] tx.fn = "confirmCustody" -> gems[tx.arg].status = GemStatus.Registered
    [] tx.fn = "verifyGem" -> gems[tx.arg].status = GemStatus.CustodyConfirmed
    [] tx.fn = "listGem" -> gems[tx.arg[1]].status = GemStatus.Verified
    [] tx.fn = "createDailyAuction" ->
         gems[tx.arg].status = GemStatus.Listed /\ gems[tx.arg].mode = "auction"
           /\ ~LiveAuction(tx.arg) /\ opened[tx.arg] < MaxOpened
    [] tx.fn = "cancelAuction" ->
         LiveAuction(tx.arg) /\ (gems[tx.arg].auction.bidder # None => gems[tx.arg].auction.ended)
    [] tx.fn = "settleAuction" -> LiveAuction(tx.arg) /\ gems[tx.arg].auction.ended
    [] tx.fn = "setPrimarySaleMode" ->
         gems[tx.arg].status = GemStatus.Listed /\ ~LiveAuction(tx.arg)
    [] tx.fn = "mintToSeller" ->
         gems[tx.arg].status = GemStatus.Listed /\ gems[tx.arg].mode = "seller_mint"

\* Settling mints to the winner, or refunds when the quote no longer covers the reserve.
Executed(tx, g) ==
  CASE tx.fn = "confirmCustody" -> {[g EXCEPT !.status = GemStatus.CustodyConfirmed]}
    [] tx.fn = "verifyGem" -> {[g EXCEPT !.status = GemStatus.Verified]}
    [] tx.fn = "listGem" -> {[g EXCEPT !.status = GemStatus.Listed, !.mode = tx.arg[2]]}
    [] tx.fn = "createDailyAuction" -> {[g EXCEPT !.auction = OpenAuction]}
    [] tx.fn = "cancelAuction" -> {[g EXCEPT !.auction = NoAuction]}
    [] tx.fn = "settleAuction" ->
         {[g EXCEPT !.auction.settled = TRUE]} \cup
           IF g.auction.bidder = None THEN {}
             ELSE {[g EXCEPT !.auction.settled = TRUE, !.status = GemStatus.Minted]}
    [] tx.fn = "setPrimarySaleMode" -> {[g EXCEPT !.mode = "seller_mint"]}
    [] tx.fn = "mintToSeller" -> {[g EXCEPT !.status = GemStatus.Minted]}

GemOf(tx) == IF tx.fn = "listGem" THEN tx.arg[1] ELSE tx.arg

\* A write is simulated first and sent only if it would succeed.
Send(tx) ==
  /\ Accepts(tx)
  /\ IF tx.fn = "registerGem" THEN sent < MaxSent /\ sent' = sent + 1 ELSE UNCHANGED sent
  /\ pending' = pending \cup {tx}
  /\ UNCHANGED <<gems, approved, receipts, opened>>

Receipt(tx, gem) == [tx |-> tx, gem |-> gem]
ReceiptOf(tx) == {r \in receipts : r.tx = tx}

\* A mined transaction that reverts changes nothing.
Mine(tx) ==
  /\ tx \in pending /\ pending' = pending \ {tx}
  /\ IF ~Accepts(tx) THEN UNCHANGED <<gems, approved, receipts, opened>>
     ELSE CASE tx.fn = "setSellerApproval" -> approved' = TRUE /\ UNCHANGED <<gems, receipts, opened>>
            [] tx.fn = "registerGem" ->
                 /\ gems' = Append(gems, [NewGem EXCEPT !.pkg = tx.arg])
                 /\ opened' = Append(opened, 0)
                 /\ receipts' = receipts \cup {Receipt(tx, Len(gems'))}
                 /\ UNCHANGED approved
            [] OTHER ->
                 /\ \E g \in Executed(tx, gems[GemOf(tx)]) : gems' = [gems EXCEPT ![GemOf(tx)] = g]
                 /\ opened' = IF tx.fn = "createDailyAuction"
                                THEN [opened EXCEPT ![tx.arg] = @ + 1] ELSE opened
                 /\ UNCHANGED <<approved, receipts>>
  /\ UNCHANGED sent

\* Evicted, or never propagated.
Drop(tx) ==
  /\ tx \in pending /\ pending' = pending \ {tx}
  /\ UNCHANGED <<gems, approved, receipts, sent, opened>>

\* Bidders, and the block clock that closes a round.
Bid(g, b) ==
  /\ LiveAuction(g) /\ ~gems[g].auction.ended
  /\ gems' = [gems EXCEPT ![g].auction.bidder = b]
  /\ UNCHANGED <<approved, pending, receipts, sent, opened>>
RoundEnds(g) ==
  /\ LiveAuction(g) /\ ~gems[g].auction.ended
  /\ gems' = [gems EXCEPT ![g].auction.ended = TRUE]
  /\ UNCHANGED <<approved, pending, receipts, sent, opened>>

\* A seller who owes a reserve shortfall pays and mints from their own wallet.
SellerMints(g) ==
  /\ gems[g].status = GemStatus.Listed /\ gems[g].mode = "seller_mint"
  /\ gems' = [gems EXCEPT ![g].status = GemStatus.Minted]
  /\ UNCHANGED <<approved, pending, receipts, sent, opened>>

\* Logs: the newest registration of this package, when one is mined.
findRegisteredGem(pkg) ==
  LET found == {g \in DOMAIN gems : gems[g].pkg = pkg}
  IN IF found = {} THEN None ELSE CHOOSE g \in found : \A h \in found : h <= g
=============================================================================
