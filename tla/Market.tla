------------------------------- MODULE Market -------------------------------
(***************************************************************************)
(* Users who press the buttons of the pages: a press runs the plan of      *)
(* chainService, which reads the chain again and refuses or hands a call   *)
(* to the wallet; the call is mined later, after the others' calls.        *)
(***************************************************************************)
EXTENDS MarketPages

VARIABLE wallet   \* the call a user confirmed and the chain has not mined

allMarket == <<marketVars, wallet>>
NoCall == [fn |-> "none"]
Call(fn, on) == [fn |-> fn, on |-> on]
\* What a page shows when the projection has replayed every event.
Whole == Len(events)

-----------------------------------------------------------------------------
(* The plans: the calls a press may hand to the wallet, none if it throws. *)

\* The price is read again; the headroom is below a dollar.
BuyPlan(u, t) == {[fn |-> "buy", on |-> t, amount |-> listing[t].ask]}

OfferPlan(u, t) == {[fn |-> "createOffer", on |-> t, amount |-> usd] : usd \in {p \in Prices : p >= OfferMinimum(t, Whole)}}
MinimumBidUsd(t) == IF round[t].leader = Nobody THEN 1 ELSE round[t].usd + MIN_BID_INCREMENT_USD
BidPlan(u, t) == {[fn |-> "bid", on |-> t, amount |-> usd] : usd \in {p \in Prices : p >= MinimumBidUsd(t)}}
ListPlan(u, t) == {[fn |-> "list", on |-> t, amount |-> usd] : usd \in Prices}

\* One's own offer is cancelled, which credits what cannot be pushed.
RefundPlan(u, id) ==
  {Call(IF Live(id) /\ offers[id].bidder = u THEN "cancelOffer" ELSE "cancelExpiredOffer", id)}

CreateSwapPlan(u, gives, wants) ==
  IF /\ holder[gives] = u /\ holder[wants] # u /\ {gives, wants} \cap locked = {}
     /\ holder[wants] \notin {Marketplace, SwapEscrow}
  THEN {Call("createSwap", <<gives, wants>>)} ELSE {}
AcceptSwapPlan(u, id) ==
  IF /\ swaps[id].active /\ swaps[id].expiry > now
     /\ holder[swaps[id].wants] = u /\ swaps[id].wants \notin locked
  THEN {Call("acceptSwap", id)} ELSE {}
TransferPlan(u, t) ==
  IF t \in locked \/ holder[t] = Marketplace THEN {}
  ELSE {[fn |-> "safeTransferFrom", on |-> t, from |-> holder[t], to |-> v] : v \in Users \ {u}}

AcceptOfferPlan(u, id) == {Call("acceptOffer", id)}
\* The plans that read nothing first.
DirectPlan(u, fn, on) == {Call(fn, on)}

Plans(u, b) ==
  CASE b.fn = "buy" -> BuyPlan(u, b.on)
    [] b.fn = "createOffer" -> OfferPlan(u, b.on)
    [] b.fn = "bid" -> BidPlan(u, b.on)
    [] b.fn = "list" -> ListPlan(u, b.on)
    [] b.fn = "refundExpiredOffer" -> RefundPlan(u, b.on)
    [] b.fn = "createSwap" -> CreateSwapPlan(u, b.on[1], b.on[2])
    [] b.fn = "acceptSwap" -> AcceptSwapPlan(u, b.on)
    [] b.fn = "transferToken" -> TransferPlan(u, b.on)
    [] b.fn = "acceptOffer" -> AcceptOfferPlan(u, b.on)
    [] OTHER -> DirectPlan(u, b.fn, b.on)

-----------------------------------------------------------------------------
\* Whether the contracts take a call now.
Taken(u, c) ==
  CASE c.fn = "buy" -> MayBuy(u, c.on, c.amount)
    [] c.fn = "list" -> MayList(u, c.on)
    [] c.fn = "cancelListing" -> MayUnlist(u, c.on)
    [] c.fn = "createOffer" -> MayOffer(u, c.on, c.amount)
    [] c.fn = "acceptOffer" -> MayAccept(u, c.on)
    [] c.fn = "cancelOffer" -> MayWithdraw(u, c.on)
    [] c.fn = "cancelExpiredOffer" -> MayClear(c.on)
    [] c.fn = "settleListingAuction" -> MaySettleListing(c.on)
    [] c.fn = "createSwap" -> MaySwap(u, c.on[1], c.on[2])
    [] c.fn = "acceptSwap" -> MayTakeSwap(u, c.on)
    [] c.fn = "cancelSwap" -> MayCancelSwap(u, c.on)
    [] c.fn = "bid" -> MayBid(u, c.on, c.amount)
    [] c.fn = "cancelAuctionBid" -> MayLeave(u, c.on)
    [] c.fn = "settleAuction" -> MaySettle(c.on)
    [] c.fn = "claimRefund" -> MayClaim(c.on, u)
    [] c.fn = "safeTransferFrom" -> c.from = u /\ MaySend(u, c.on)

Performed(u, c) ==
  \/ c.fn = "buy" /\ Buy(u, c.on, c.amount)
  \/ c.fn = "list" /\ List(u, c.on, c.amount)
  \/ c.fn = "cancelListing" /\ Unlist(u, c.on)
  \/ c.fn = "createOffer" /\ Offer(u, c.on, c.amount)
  \/ c.fn = "acceptOffer" /\ Accept(u, c.on)
  \/ c.fn = "cancelOffer" /\ WithdrawOffer(u, c.on)
  \/ c.fn = "settleListingAuction" /\ SettleListing(c.on)
  \/ c.fn = "createSwap" /\ Swap(u, c.on[1], c.on[2])
  \/ c.fn = "acceptSwap" /\ TakeSwap(u, c.on)
  \/ c.fn = "cancelSwap" /\ CancelSwap(u, c.on)
  \/ c.fn = "bid" /\ PlaceBid(u, c.on, c.amount)
  \/ c.fn = "cancelAuctionBid" /\ Leave(u, c.on)
  \/ c.fn = "settleAuction" /\ Settle(c.on)
  \/ c.fn = "claimRefund" /\ ClaimCredit(c.on, u)
  \/ c.fn = "safeTransferFrom" /\ c.from = u /\ SendToken(u, c.on, c.to)

Press(u) ==
  /\ wallet[u] = NoCall
  /\ \E b \in Buttons(u, Whole) : \E c \in Plans(u, b) : wallet' = [wallet EXCEPT ![u] = c]
  /\ UNCHANGED marketVars
Mined(u) ==
  /\ wallet[u] # NoCall /\ Performed(u, wallet[u]) /\ wallet' = [wallet EXCEPT ![u] = NoCall]
\* The call reverts, or the person declines it.
Reverted(u) ==
  /\ wallet[u] # NoCall /\ wallet' = [wallet EXCEPT ![u] = NoCall] /\ UNCHANGED marketVars

MarketInit ==
  /\ locked = {} /\ listing = [t \in Stones |-> NotListed] /\ offers = <<>> /\ swaps = <<>>
  /\ round = [t \in Stones |-> NoRound] /\ credits = {} /\ paused = {} /\ now = 0 /\ events = <<>>
  /\ wallet = [u \in Users |-> NoCall]
MarketNext ==
  \/ \E u \in Users : Press(u) \/ Mined(u) \/ Reverted(u)
  \/ /\ \/ \E t \in Stones : OpenRound(t)
        \/ Redeeming
        \/ \E source \in {Marketplace, PrimarySaleAuction} : Pausing(source)
        \/ Later
     /\ UNCHANGED wallet

MarketSpec ==
  MarketInit /\ holder \in [Stones -> Users \cup {"unminted", "burned"}] /\ [][MarketNext]_allMarket

-----------------------------------------------------------------------------
\* The buttons of a viewer, and the calls they lead to from where they stand.
Offered(u, c) == \E b \in Buttons(u, Whole) : c \in Plans(u, b)

\* A token or a payment a contract holds and would give back is on a button of
\* the person it belongs to (getOffers, getSwaps, gemPageMode, bidColumns).
HeldIsReachable ==
  /\ \A id \in DOMAIN offers :
       MayWithdraw(offers[id].bidder, id) => Offered(offers[id].bidder, Call("cancelOffer", id))
  /\ \A id \in DOMAIN swaps :
       MayCancelSwap(swaps[id].proposer, id) => Offered(swaps[id].proposer, Call("cancelSwap", id))
  /\ \A u \in Users :
       /\ \A t \in Stones :
            /\ MayUnlist(u, t) => Offered(u, Call("cancelListing", t))
            /\ MayLeave(u, t) => Offered(u, Call("cancelAuctionBid", t))
            /\ MaySettleListing(t) => Offered(u, Call("settleListingAuction", t))
            /\ MaySettle(t) => Offered(u, Call("settleAuction", t))
       /\ \A source \in {Marketplace, PrimarySaleAuction} :
            MayClaim(source, u) => Offered(u, Call("claimRefund", source))

\* An offer of a stone in redemption keeps its "Accept", which reverts.
AcceptsLocked(b) == b.fn = "acceptOffer" /\ offers[b.on].token \in locked

\* Every other button of pages that read the whole log leads to a call that the
\* contracts take ("a button that reverts is worse than none", auctionBid.ts).
OfferedIsTaken ==
  \A u \in Users : \A b \in Buttons(u, Whole) :
    ~AcceptsLocked(b) => /\ \A c \in Plans(u, b) : Taken(u, c)
                         /\ Plans(u, b) = {} => b.fn \in {"bid", "createOffer"}

\* Every token that can move has exactly one owner's page: in a wallet, on a
\* listing or in a swap's escrow, it never vanishes from a portfolio, and nobody
\* else may manage it (gemPageMode, getProfile).
OwnerModes == {"owner-listing", "owner-wallet", "owner-swap-escrow"}
OneOwnersPage ==
  \A t \in Stones \ locked :
    Exists(t) => \E u \in Users : {u} = {v \in Users : gemPageMode(v, t, Whole) \in OwnerModes}

=============================================================================
