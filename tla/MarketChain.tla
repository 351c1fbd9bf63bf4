----------------------------- MODULE MarketChain -----------------------------
(***************************************************************************)
(* The market contracts as the code in src relies on them: the Marketplace *)
(* (listings, offers, listing auctions), the SwapEscrow and the primary    *)
(* auction.  They are not in the repository: every rule is one a comment,  *)
(* a guard or a message of src states.  What may be called is a predicate, *)
(* so that the pages can be compared with it.                              *)
(***************************************************************************)
EXTENDS Integers, Sequences, FiniteSets

CONSTANTS
  Users, Stones,
  Refusers,     \* users whose wallet rejects ETH
  Prices,       \* asks and bids, in USD
  MaxOffers, MaxSwaps, MaxTime

Marketplace == "Marketplace"
SwapEscrow == "SwapEscrow"
PrimarySaleAuction == "PrimarySaleAuction"
Nobody == "nobody"
DAY == 1                \* an offer, and a listing's auction
SETTLEMENT_GRACE == 1
MIN_BID_INCREMENT_USD == 1

\* A user is no contract; there is somebody to send a stone to, and a price.
ASSUME UsersAreNotContracts ==
  /\ Users \cap {Marketplace, SwapEscrow, Nobody, "unminted", "burned"} = {}
  /\ \A u \in Users : Users # {u}
ASSUME PricesAreDollars == Prices # {} /\ Prices \subseteq Nat

VARIABLES
  holder,    \* DGENFT.ownerOf: a user, an escrow, "unminted" or "burned"
  locked,    \* DGENFT.transferLocked
  listing,   \* Marketplace.listings, listingWinningOffer, listingAuctionEnd
  offers,    \* Marketplace.offers, by id
  swaps,     \* SwapEscrow.offers, by id
  round,     \* PrimarySaleAuction.auctions
  credits,   \* pendingRefunds: contract and user
  paused,    \* the contracts that are paused
  now,
  events     \* the log the projection reads

marketVars == <<holder, locked, listing, offers, swaps, round, credits, paused, now, events>>

NotListed == [seller |-> Nobody, ask |-> 0, leader |-> 0, end |-> 0]
NoRound == [open |-> FALSE, end |-> 0, leader |-> Nobody, usd |-> 0, settled |-> FALSE]
Listed(t) == listing[t].seller # Nobody
Exists(t) == holder[t] \notin {"unminted", "burned"}
Live(id) == offers[id].active
Leads(id) == listing[offers[id].token].leader = id
LogEntry(name, id) == [name |-> name, id |-> id]
\* A payment that cannot be pushed becomes a credit of the contract.
Credited(source, u) == IF u \in Refusers THEN {<<source, u>>} ELSE {}

-----------------------------------------------------------------------------
(* Marketplace: listings. *)

MayList(u, t) == holder[t] = u /\ t \notin locked
List(u, t, ask) ==
  /\ MayList(u, t)
  /\ holder' = [holder EXCEPT ![t] = Marketplace]
  /\ listing' = [listing EXCEPT ![t] = [NotListed EXCEPT !.seller = u, !.ask = ask]]
  /\ UNCHANGED <<locked, offers, swaps, round, credits, paused, now, events>>

MayUnlist(u, t) == listing[t].seller = u /\ listing[t].leader = 0
Unlist(u, t) ==
  /\ MayUnlist(u, t)
  /\ holder' = [holder EXCEPT ![t] = u] /\ listing' = [listing EXCEPT ![t] = NotListed]
  /\ UNCHANGED <<locked, offers, swaps, round, credits, paused, now, events>>

\* The ask is charged, up to the amount the buyer sent.
MayBuy(u, t, amount) == Listed(t) /\ listing[t].leader = 0 /\ listing[t].ask <= amount
Buy(u, t, amount) ==
  /\ MayBuy(u, t, amount)
  /\ holder' = [holder EXCEPT ![t] = u] /\ listing' = [listing EXCEPT ![t] = NotListed]
  /\ credits' = credits \cup Credited(Marketplace, listing[t].seller)
  /\ UNCHANGED <<locked, offers, swaps, round, paused, now, events>>

(* Marketplace: offers, and the auction of a listed token. *)

MinimumBid(t) ==
  IF listing[t].leader = 0 THEN listing[t].ask
  ELSE offers[listing[t].leader].usd + MIN_BID_INCREMENT_USD
MayOffer(u, t, usd) ==
  /\ Exists(t) /\ Marketplace \notin paused
  /\ Listed(t) => /\ usd >= MinimumBid(t)
                  /\ listing[t].leader # 0 => now < listing[t].end
Offer(u, t, usd) ==
  LET id == Len(offers) + 1
      old == listing[t].leader
      end == IF old = 0 THEN now + DAY ELSE listing[t].end
      new == [bidder |-> u, token |-> t, usd |-> usd, expiry |-> end, active |-> TRUE]
  IN
  /\ MayOffer(u, t, usd) /\ id <= MaxOffers
  /\ offers' = Append(IF old = 0 THEN offers ELSE [offers EXCEPT ![old].active = FALSE], new)
  /\ listing' = IF Listed(t) THEN [listing EXCEPT ![t].leader = id, ![t].end = end] ELSE listing
  /\ credits' = IF old = 0 THEN credits ELSE credits \cup Credited(Marketplace, offers[old].bidder)
  /\ events' = events \o (IF old = 0 THEN <<>> ELSE <<LogEntry("ListingBidOutbid", old), LogEntry("OfferCancelled", old)>>)
                      \o <<LogEntry("OfferCreated", id)>>
  /\ UNCHANGED <<holder, locked, swaps, round, paused, now>>

MayAccept(u, id) ==
  /\ Live(id) /\ ~Leads(id) /\ now < offers[id].expiry
  /\ holder[offers[id].token] = u /\ offers[id].token \notin locked
Accept(u, id) ==
  /\ MayAccept(u, id)
  /\ offers' = [offers EXCEPT ![id].active = FALSE]
  /\ holder' = [holder EXCEPT ![offers[id].token] = offers[id].bidder]
  /\ credits' = credits \cup Credited(Marketplace, u)
  /\ events' = Append(events, LogEntry("OfferAccepted", id))
  /\ UNCHANGED <<locked, listing, swaps, round, paused, now>>

\* The leader of a listing is bound until the grace runs out, or a pause.
Released(id) == Marketplace \in paused \/ now >= offers[id].expiry + SETTLEMENT_GRACE
MayWithdraw(u, id) == Live(id) /\ offers[id].bidder = u /\ (Leads(id) => Released(id))
\* By anyone; nothing on the pages needs it.
MayClear(id) == Live(id) /\ ~Leads(id) /\ now >= offers[id].expiry /\ offers[id].bidder \notin Refusers
WithdrawOffer(u, id) ==
  /\ MayWithdraw(u, id)
  /\ offers' = [offers EXCEPT ![id].active = FALSE]
  /\ listing' = IF Leads(id) THEN [listing EXCEPT ![offers[id].token].leader = 0, ![offers[id].token].end = 0]
                ELSE listing
  /\ credits' = credits \cup Credited(Marketplace, offers[id].bidder)
  /\ events' = Append(events, LogEntry("OfferCancelled", id))
  /\ UNCHANGED <<holder, locked, swaps, round, paused, now>>

MaySettleListing(t) == listing[t].leader # 0 /\ now >= listing[t].end /\ Marketplace \notin paused
SettleListing(t) ==
  LET id == listing[t].leader IN
  /\ MaySettleListing(t)
  /\ holder' = [holder EXCEPT ![t] = offers[id].bidder]
  /\ listing' = [listing EXCEPT ![t] = NotListed]
  /\ offers' = [offers EXCEPT ![id].active = FALSE]
  /\ credits' = credits \cup Credited(Marketplace, listing[t].seller)
  /\ events' = Append(events, LogEntry("OfferAccepted", id))
  /\ UNCHANGED <<locked, swaps, round, paused, now>>

-----------------------------------------------------------------------------
(* SwapEscrow: the offered token is held until it is accepted or cancelled. *)

MaySwap(u, gives, wants) == holder[gives] = u /\ gives \notin locked /\ Exists(wants) /\ holder[wants] # u
Swap(u, gives, wants) ==
  LET id == Len(swaps) + 1 IN
  /\ MaySwap(u, gives, wants) /\ id <= MaxSwaps
  /\ swaps' = Append(swaps, [proposer |-> u, gives |-> gives, wants |-> wants, expiry |-> now + DAY, active |-> TRUE])
  /\ holder' = [holder EXCEPT ![gives] = SwapEscrow]
  /\ events' = Append(events, LogEntry("SwapCreated", id))
  /\ UNCHANGED <<locked, listing, offers, round, credits, paused, now>>

MayTakeSwap(u, id) ==
  /\ swaps[id].active /\ now < swaps[id].expiry
  /\ holder[swaps[id].wants] = u /\ swaps[id].wants \notin locked
TakeSwap(u, id) ==
  /\ MayTakeSwap(u, id)
  /\ swaps' = [swaps EXCEPT ![id].active = FALSE]
  /\ holder' = [holder EXCEPT ![swaps[id].gives] = u, ![swaps[id].wants] = swaps[id].proposer]
  /\ events' = Append(events, LogEntry("SwapAccepted", id))
  /\ UNCHANGED <<locked, listing, offers, round, credits, paused, now>>

MayCancelSwap(u, id) == swaps[id].active /\ swaps[id].proposer = u
CancelSwap(u, id) ==
  /\ MayCancelSwap(u, id)
  /\ swaps' = [swaps EXCEPT ![id].active = FALSE]
  /\ holder' = [holder EXCEPT ![swaps[id].gives] = u]
  /\ events' = Append(events, LogEntry("SwapCancelled", id))
  /\ UNCHANGED <<locked, listing, offers, round, credits, paused, now>>

-----------------------------------------------------------------------------
(* PrimarySaleAuction: the sale that mints a stone. *)

OpenRound(t) ==
  /\ holder[t] = "unminted" /\ round[t].leader = Nobody /\ now >= round[t].end
  /\ round' = [round EXCEPT ![t] = [NoRound EXCEPT !.open = TRUE, !.end = now + DAY]]
  /\ UNCHANGED <<holder, locked, listing, offers, swaps, credits, paused, now, events>>

MayBid(u, t, usd) ==
  /\ round[t].open /\ ~round[t].settled /\ now < round[t].end /\ PrimarySaleAuction \notin paused
  /\ usd >= IF round[t].leader = Nobody THEN 1 ELSE round[t].usd + MIN_BID_INCREMENT_USD
PlaceBid(u, t, usd) ==
  /\ MayBid(u, t, usd)
  /\ round' = [round EXCEPT ![t].leader = u, ![t].usd = usd]
  /\ credits' = credits \cup (IF round[t].leader = Nobody THEN {} ELSE Credited(PrimarySaleAuction, round[t].leader))
  /\ UNCHANGED <<holder, locked, listing, offers, swaps, paused, now, events>>

MayLeave(u, t) ==
  /\ round[t].leader = u /\ ~round[t].settled
  /\ PrimarySaleAuction \in paused \/ now >= round[t].end + SETTLEMENT_GRACE
Leave(u, t) ==
  /\ MayLeave(u, t)
  /\ round' = [round EXCEPT ![t].leader = Nobody, ![t].usd = 0]
  /\ credits' = credits \cup Credited(PrimarySaleAuction, u)
  /\ UNCHANGED <<holder, locked, listing, offers, swaps, paused, now, events>>

MaySettle(t) ==
  /\ round[t].leader # Nobody /\ ~round[t].settled /\ now >= round[t].end
  /\ PrimarySaleAuction \notin paused
Settle(t) ==
  /\ MaySettle(t)
  /\ round' = [round EXCEPT ![t].settled = TRUE]
  /\ holder' = [holder EXCEPT ![t] = round[t].leader]
  /\ UNCHANGED <<locked, listing, offers, swaps, credits, paused, now, events>>

-----------------------------------------------------------------------------
(* Both: pulled credits.  DGENFT: transfers, redemption locks and burns.   *)

MayClaim(source, u) == <<source, u>> \in credits
ClaimCredit(source, u) ==
  /\ MayClaim(source, u) /\ credits' = credits \ {<<source, u>>}
  /\ UNCHANGED <<holder, locked, listing, offers, swaps, round, paused, now, events>>

MaySend(u, t) == holder[t] = u /\ t \notin locked
SendToken(u, t, to) ==
  /\ MaySend(u, t) /\ holder' = [holder EXCEPT ![t] = to]
  /\ UNCHANGED <<locked, listing, offers, swaps, round, credits, paused, now, events>>

Redeeming ==
  /\ \E t \in Stones :
       \/ holder[t] \in Users /\ locked' = (locked \ {t}) \cup ({t} \ locked) /\ UNCHANGED holder
       \/ t \in locked /\ locked' = locked \ {t} /\ holder' = [holder EXCEPT ![t] = "burned"]
  /\ UNCHANGED <<listing, offers, swaps, round, credits, paused, now, events>>

Pausing(source) ==
  /\ paused' = (paused \ {source}) \cup ({source} \ paused)
  /\ UNCHANGED <<holder, locked, listing, offers, swaps, round, credits, now, events>>

Later ==
  /\ now < MaxTime /\ now' = now + 1
  /\ UNCHANGED <<holder, locked, listing, offers, swaps, round, credits, paused, events>>
=============================================================================
