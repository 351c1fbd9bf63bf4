----------------------------- MODULE MarketPages -----------------------------
(***************************************************************************)
(* What the pages show a viewer of the market and which buttons they give: *)
(* computed from the contracts' state, read now, and from the first k log  *)
(* entries, which is what the projection has replayed (chainService.ts,    *)
(* lib/gemActions.ts, lib/auctionBid.ts, marketPresentation.ts,            *)
(* bidSummary.ts).  A button is [fn, on], after the plan it calls.         *)
(***************************************************************************)
EXTENDS MarketChain

Button(fn, on) == [fn |-> fn, on |-> on]
When(condition, fn, on) == IF condition THEN {Button(fn, on)} ELSE {}
Replayed(k, name, id) == \E i \in 1..k : events[i].name = name /\ events[i].id = id

-----------------------------------------------------------------------------
(* Offers: getOffers, listingBidReleased, offerColumns. *)

OffersShown(k) == {id \in DOMAIN offers : Replayed(k, "OfferCreated", id)}
Automatic(id) == listing[offers[id].token].leader = id
OfferStatus(id, k) ==
  IF Replayed(k, "OfferAccepted", id) THEN "Accepted"
  ELSE IF Replayed(k, "OfferCancelled", id) \/ ~Live(id) THEN "Refunded"
  ELSE IF offers[id].expiry > now THEN "Pending"
  ELSE IF Automatic(id) THEN "Awaiting settlement" ELSE "Expired"

\* Mutant: the portfolio keeps pending offers only.
PendingOffersOf(u, k) ==
  {id \in OffersShown(k) : /\ OfferStatus(id, k) = "Pending"
                           /\ u \in {offers[id].bidder, holder[offers[id].token], listing[offers[id].token].seller}}
\* The portfolio's unfinished offers.
OffersOf(u, k) ==
  {id \in OffersShown(k) : /\ OfferStatus(id, k) \in {"Pending", "Expired", "Awaiting settlement"}
                           /\ u \in {offers[id].bidder, holder[offers[id].token], listing[offers[id].token].seller}}

listingBidReleased(id) ==
  Automatic(id) /\ (Marketplace \in paused \/ now >= offers[id].expiry + SETTLEMENT_GRACE)

\* Mutant: any leading bid may be taken back.
UnboundOfferButtons(u, id, k) ==
  LET status == OfferStatus(id, k) mine == offers[id].bidder = u IN
  CASE status = "Awaiting settlement" -> When(mine, "cancelOffer", id)
    [] status = "Expired" /\ mine -> {Button("refundExpiredOffer", id)}
    [] status = "Pending" /\ mine -> {Button("cancelOffer", id)}
    [] status = "Pending" /\ ~mine /\ holder[offers[id].token] = u /\ ~Automatic(id) ->
         {Button("acceptOffer", id)}
    [] OTHER -> {}
offerColumns(u, id, k) ==
  LET status == OfferStatus(id, k)
      mine == offers[id].bidder = u
      free == ~Automatic(id) \/ Marketplace \in paused
  IN
  CASE status = "Awaiting settlement" ->
         When(mine /\ listingBidReleased(id), "cancelOffer", id)
           \cup When(Marketplace \notin paused, "settleListingAuction", offers[id].token)
    [] status = "Expired" /\ mine -> {Button("refundExpiredOffer", id)}
    [] status = "Pending" /\ mine /\ free -> {Button("cancelOffer", id)}
    [] status = "Pending" /\ ~(mine /\ free) /\ holder[offers[id].token] = u /\ ~Automatic(id) ->
         {Button("acceptOffer", id)}
    [] OTHER -> {}

\* The leader of a listing's auction the pages show (bidSummaries).
ShownLeader(t, k) ==
  {id \in OffersShown(k) : /\ offers[id].token = t /\ Automatic(id)
                           /\ OfferStatus(id, k) \in {"Pending", "Awaiting settlement"}}
\* What the modal takes for the lowest bid of a token (OfferModal).
OfferMinimum(t, k) ==
  IF ShownLeader(t, k) # {} THEN offers[CHOOSE id \in ShownLeader(t, k) : TRUE].usd + MIN_BID_INCREMENT_USD
  ELSE IF Listed(t) THEN listing[t].ask ELSE 1

-----------------------------------------------------------------------------
(* Swaps: getSwaps, SwapCard, groupActionableSwaps. *)

SwapsShown(k) == {id \in DOMAIN swaps : Replayed(k, "SwapCreated", id)}
SwapStatus(id, k) ==
  IF Replayed(k, "SwapAccepted", id) THEN "Accepted"
  ELSE IF Replayed(k, "SwapCancelled", id) THEN "Cancelled"
  ELSE IF swaps[id].expiry <= now THEN "Expired" ELSE "Active"

SwapCard(u, id, k) ==
  When(SwapStatus(id, k) \in {"Active", "Expired"} /\ swaps[id].proposer = u, "cancelSwap", id)
    \cup When(/\ SwapStatus(id, k) = "Active" /\ swaps[id].wants \notin locked
              /\ holder[swaps[id].wants] = u, "acceptSwap", id)
\* The swap page lists these, and no card of the rest.
groupActionableSwaps(u, k) ==
  {id \in SwapsShown(k) :
     \/ SwapStatus(id, k) = "Active" /\ swaps[id].wants \notin locked
     \/ SwapStatus(id, k) \in {"Active", "Expired"} /\ swaps[id].proposer = u}

-----------------------------------------------------------------------------
(* A stone's page: gemPageMode, and the actions GemDetailPage gives it.    *)

OwnSwaps(u, t, k) ==
  {id \in SwapsShown(k) : /\ holder[t] = SwapEscrow /\ swaps[id].gives = t /\ swaps[id].proposer = u
                          /\ SwapStatus(id, k) \in {"Active", "Expired"}}
listingAuctionState(t) ==
  IF listing[t].leader = 0 THEN "none" ELSE IF now >= listing[t].end THEN "ended" ELSE "live"

\* Mutant: the portfolio of a proposer does not know the token in escrow.
WalletPageMode(u, t, k) ==
  IF t \in locked THEN "locked" ELSE IF listing[t].seller = u THEN "owner-listing"
  ELSE IF holder[t] = u THEN "owner-wallet" ELSE IF Listed(t) THEN "listing" ELSE "held"
gemPageMode(u, t, k) ==
  IF holder[t] = "unminted"
  THEN IF ~round[t].open \/ round[t].settled THEN "primary-unavailable"
       ELSE IF now < round[t].end THEN "primary-bid"
       ELSE IF round[t].leader # Nobody THEN "primary-settle" ELSE "primary-unsold"
  ELSE IF holder[t] = "burned" THEN "gone"
  ELSE IF t \in locked THEN "locked"
  ELSE IF listing[t].seller = u THEN "owner-listing"
  ELSE IF OwnSwaps(u, t, k) # {} THEN "owner-swap-escrow"
  ELSE IF holder[t] = u THEN "owner-wallet"
  ELSE IF Listed(t) THEN "listing"
  ELSE IF holder[t] \in {SwapEscrow, Marketplace} THEN "escrowed"
  ELSE "held"

GemDetailPage(u, t, k) ==
  LET mode == gemPageMode(u, t, k)
      auction == listingAuctionState(t)
      settle == When(auction = "ended" /\ Marketplace \notin paused, "settleListingAuction", t)
      offer == When(Marketplace \notin paused, "createOffer", t)
  IN
  CASE mode = "owner-listing" -> settle \cup When(auction = "none", "cancelListing", t)
    [] mode = "owner-swap-escrow" -> {Button("cancelSwap", id) : id \in OwnSwaps(u, t, k)}
    [] mode = "owner-wallet" -> {Button("list", t), Button("transferToken", t)}
    [] mode = "primary-bid" -> When(PrimarySaleAuction \notin paused, "bid", t)
    [] mode = "primary-settle" -> When(PrimarySaleAuction \notin paused, "settleAuction", t)
    [] mode = "listing" ->
         settle \cup When(auction = "none", "buy", t) \cup (IF auction = "ended" THEN {} ELSE offer)
    [] mode = "held" -> offer
    [] OTHER -> {}

\* What the two pickers of a swap allow (SwapModal, directSwapOwner).
directSwapOwner(u, t) ==
  IF ~Exists(t) \/ Listed(t) \/ t \in locked \/ holder[t] \in {Marketplace, SwapEscrow} THEN Nobody
  ELSE IF holder[t] = u THEN "viewer" ELSE "other"
SwapModal(u) ==
  {Button("createSwap", <<gives, wants>>) :
     gives \in {t \in Stones : directSwapOwner(u, t) = "viewer"},
     wants \in {t \in Stones : directSwapOwner(u, t) = "other"}}

-----------------------------------------------------------------------------
(* The primary auction: primaryBidWithdrawable.  Credits to withdraw.      *)

primaryBidWithdrawable(u, t) ==
  /\ ~round[t].settled /\ round[t].leader = u
  /\ PrimarySaleAuction \in paused \/ now >= round[t].end + SETTLEMENT_GRACE
AuctionRow(u, t) ==
  When(round[t].open /\ primaryBidWithdrawable(u, t), "cancelAuctionBid", t)

getPendingRefunds(u) == {Button("claimRefund", c[1]) : c \in {c \in credits : c[2] = u}}

\* Every button a viewer has, on every page.
Buttons(u, k) ==
  UNION ({offerColumns(u, id, k) : id \in OffersOf(u, k)}
         \cup {SwapCard(u, id, k) : id \in groupActionableSwaps(u, k)}
         \cup {GemDetailPage(u, t, k) : t \in Stones}
         \cup {AuctionRow(u, t) : t \in Stones}
         \cup {getPendingRefunds(u), SwapModal(u)})
=============================================================================
