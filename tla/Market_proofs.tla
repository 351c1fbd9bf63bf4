---------------------------- MODULE Market_proofs ----------------------------
(***************************************************************************)
(* What the pages of the market promise, for any users, stones and prices: *)
(* a stone has one owner's page, what a contract holds can be taken back,  *)
(* and a button leads to a call that the contracts take.  The inductive    *)
(* invariant MarketInv they rest on: who holds a stone, what is listed,    *)
(* bid for and in escrow, and what the log says of it, agree.              *)
(***************************************************************************)
EXTENDS Market, SequenceTheorems, TLAPS

Holders == Users \cup {Marketplace, SwapEscrow, "unminted", "burned"}
Ask == [seller : Users \cup {Nobody}, ask : Nat, leader : Nat, end : Nat]
Bid == [bidder : Users, token : Stones, usd : Nat, expiry : Nat, active : BOOLEAN]
Trade == [proposer : Users, gives : Stones, wants : Stones, expiry : Nat, active : BOOLEAN]
Round == [open : BOOLEAN, end : Nat, leader : Users \cup {Nobody}, usd : Nat, settled : BOOLEAN]
LogNames ==
  {"OfferCreated", "OfferAccepted", "OfferCancelled", "ListingBidOutbid", "SwapCreated", "SwapAccepted", "SwapCancelled"}
Entry == [name : LogNames, id : Nat]

ChainTyped ==
  /\ holder \in [Stones -> Holders] /\ locked \subseteq Stones
  /\ listing \in [Stones -> Ask] /\ round \in [Stones -> Round]
  /\ credits \subseteq {Marketplace, PrimarySaleAuction} \X Users /\ now \in Nat
BooksTyped == offers \in Seq(Bid) /\ swaps \in Seq(Trade) /\ events \in Seq(Entry)

\* What is on the log, whatever the order.
Log(s) == {s[i] : i \in DOMAIN s}
Logged(name, id) == LogEntry(name, id) \in Log(events)

\* A contract holds what is listed or offered, a user what is locked, and
\* nobody what its auction may still mint.
Custody ==
  /\ \A t \in Stones : Listed(t) <=> holder[t] = Marketplace
  /\ \A t \in locked : holder[t] \in Users
  /\ \A t \in Stones : round[t].leader # Nobody => round[t].open
  /\ \A t \in Stones : round[t].open /\ ~round[t].settled => holder[t] = "unminted"

\* Each stone in the escrow is in one open swap.
Escrow ==
  /\ \A id \in DOMAIN swaps : swaps[id].active => holder[swaps[id].gives] = SwapEscrow
  /\ \A id, other \in DOMAIN swaps :
       swaps[id].active /\ swaps[other].active /\ swaps[id].gives = swaps[other].gives => id = other
  /\ \A t \in Stones : holder[t] = SwapEscrow => \E id \in DOMAIN swaps : swaps[id].active /\ swaps[id].gives = t

\* The log closes an offer or a swap when the contract does.
OfferBook ==
  /\ \A id \in DOMAIN offers : Logged("OfferCreated", id)
  /\ \A id \in DOMAIN offers : offers[id].active => ~Logged("OfferAccepted", id) /\ ~Logged("OfferCancelled", id)
  /\ \A id \in Nat : Logged("OfferAccepted", id) \/ Logged("OfferCancelled", id) => id \in DOMAIN offers
SwapBook ==
  /\ \A id \in DOMAIN swaps : Logged("SwapCreated", id)
  /\ \A id \in DOMAIN swaps : swaps[id].active <=> ~Logged("SwapAccepted", id) /\ ~Logged("SwapCancelled", id)
  /\ \A id \in Nat : Logged("SwapAccepted", id) \/ Logged("SwapCancelled", id) => id \in DOMAIN swaps

\* The leader of a listing is a live offer for its stone, until its end.
Led(t) ==
  LET id == listing[t].leader IN
  /\ Listed(t) /\ id \in DOMAIN offers
  /\ offers[id].active /\ offers[id].token = t /\ offers[id].expiry = listing[t].end
Leaders == \A t \in Stones : listing[t].leader # 0 => Led(t)

\* A call in a wallet is about stones, offers and swaps that exist.
StoneCalls ==
  {"buy", "list", "cancelListing", "createOffer", "settleListingAuction", "bid", "cancelAuctionBid",
   "settleAuction", "safeTransferFrom"}
WellFormed(c) ==
  /\ c.fn \in StoneCalls => c.on \in Stones
  /\ c.fn \in {"list", "createOffer", "bid"} => c.amount \in Prices
  /\ c.fn \in {"acceptOffer", "cancelOffer"} => c.on \in DOMAIN offers
  /\ c.fn \in {"acceptSwap", "cancelSwap"} => c.on \in DOMAIN swaps
  /\ c.fn = "createSwap" => c.on[1] \in Stones /\ c.on[2] \in Stones
  /\ c.fn = "safeTransferFrom" => c.to \in Users
Wallets == wallet = [u \in Users |-> wallet[u]] /\ \A u \in Users : WellFormed(wallet[u])

MarketState == ChainTyped /\ BooksTyped /\ Custody /\ Escrow /\ OfferBook /\ SwapBook /\ Leaders
MarketInv == MarketState /\ Wallets

-----------------------------------------------------------------------------
(* The log. *)

LEMMA LogAppended ==
  ASSUME NEW s \in Seq(Entry), NEW e \in Entry  PROVE Append(s, e) \in Seq(Entry) /\ Log(Append(s, e)) = Log(s) \cup {e}
<1>. DEFINE t == Append(s, e)
<1>1. /\ t \in Seq(Entry) /\ DOMAIN s = 1..Len(s) /\ DOMAIN t = 1..(Len(s) + 1) /\ Len(s) \in Nat
      /\ t[Len(s) + 1] = e /\ \A i \in DOMAIN s : t[i] = s[i]
  OBVIOUS
<1>2. DOMAIN t = DOMAIN s \cup {Len(s) + 1}  BY <1>1
<1>3. \A i \in DOMAIN t : t[i] \in Log(s) \cup {e}  BY <1>1, <1>2 DEF Log
<1>4. \A i \in DOMAIN s : s[i] \in Log(t)
  <2>. SUFFICES ASSUME NEW i \in DOMAIN s  PROVE t[i] \in Log(t)  BY <1>1
  <2>. QED  BY <1>2 DEF Log
<1>5. e \in Log(t)  BY <1>1, <1>2 DEF Log
<1>6. Log(t) \subseteq Log(s) \cup {e}
  <2>. HIDE DEF t
  <2>. QED  BY <1>3 DEF Log
<1>7. Log(s) \subseteq Log(t)
  <2>. HIDE DEF t
  <2>. QED  BY <1>4 DEF Log
<1>. QED  BY <1>1, <1>5, <1>6, <1>7

LEMMA EntryTyped == ASSUME NEW name \in LogNames, NEW id \in Nat  PROVE LogEntry(name, id) \in Entry
BY DEF LogEntry, Entry

\* A step that logs one thing.
LEMMA OneLogged ==
  ASSUME BooksTyped, NEW name \in LogNames, NEW id \in Nat, events' = Append(events, LogEntry(name, id))
  PROVE  /\ events' \in Seq(Entry)
         /\ \A n, i : Logged(n, i)' <=> Logged(n, i) \/ (n = name /\ i = id)
<1>1. Log(events') = Log(events) \cup {LogEntry(name, id)} /\ events' \in Seq(Entry)
  BY EntryTyped, LogAppended DEF BooksTyped
<1>2. ASSUME NEW n, NEW i  PROVE Logged(n, i)' <=> Logged(n, i) \/ (n = name /\ i = id)
  <2>1. LogEntry(n, i) \in Log(events') <=> LogEntry(n, i) \in Log(events) \/ LogEntry(n, i) = LogEntry(name, id)
    BY <1>1
  <2>2. Logged(n, i)' <=> LogEntry(n, i) \in Log(events')  BY Zenon DEF Logged, Log, LogEntry
  <2>3. Logged(n, i) <=> LogEntry(n, i) \in Log(events)  BY DEF Logged
  <2>4. LogEntry(n, i) = LogEntry(name, id) <=> n = name /\ i = id  BY DEF LogEntry
  <2>. QED  BY <2>1, <2>2, <2>3, <2>4, Zenon
<1>. QED  BY <1>1, <1>2
LEMMA SameLog == ASSUME events' = events  PROVE \A n, i : Logged(n, i)' <=> Logged(n, i)
BY DEF Logged, Log, LogEntry

LEMMA ConcatIsAppend ==
  ASSUME NEW s \in Seq(Entry), NEW a \in Entry, NEW b \in Entry
  PROVE  s \o <<>> = s /\ s \o <<a>> = Append(s, a) /\ s \o <<a, b>> = Append(Append(s, a), b)
OBVIOUS

-----------------------------------------------------------------------------
(* What a step leaves alone. *)

LEMMA CustodyStays == Custody /\ UNCHANGED <<holder, locked, listing, round>> => Custody'
BY DEF Custody, Listed

LEMMA EscrowStays == Escrow /\ UNCHANGED <<holder, swaps>> => Escrow'
BY DEF Escrow

LEMMA LeadersStay == Leaders /\ UNCHANGED <<listing, offers>> => Leaders'
BY DEF Leaders, Led, Listed

LEMMA OffersStay ==
  ASSUME OfferBook, UNCHANGED offers, \A id : Logged("OfferCreated", id) => Logged("OfferCreated", id)',
         \A id : Logged("OfferAccepted", id)' <=> Logged("OfferAccepted", id),
         \A id : Logged("OfferCancelled", id)' <=> Logged("OfferCancelled", id)
  PROVE  OfferBook'
BY DEF OfferBook

LEMMA SwapsStay ==
  ASSUME SwapBook, UNCHANGED swaps, \A id : Logged("SwapCreated", id) => Logged("SwapCreated", id)',
         \A id : Logged("SwapAccepted", id)' <=> Logged("SwapAccepted", id),
         \A id : Logged("SwapCancelled", id)' <=> Logged("SwapCancelled", id)
  PROVE  SwapBook'
BY DEF SwapBook

LEMMA BooksStay == MarketState /\ UNCHANGED <<offers, swaps, events>> => BooksTyped' /\ OfferBook' /\ SwapBook'
<1>. SUFFICES ASSUME MarketState, UNCHANGED <<offers, swaps, events>>  PROVE BooksTyped' /\ OfferBook' /\ SwapBook'
  OBVIOUS
<1>. QED  BY SameLog, OffersStay, SwapsStay DEF MarketState, BooksTyped

LEMMA CreditsTyped ==
  ASSUME NEW source \in {Marketplace, PrimarySaleAuction}, NEW u \in Users
  PROVE  Credited(source, u) \subseteq {Marketplace, PrimarySaleAuction} \X Users
BY DEF Credited

LEMMA UsersApart ==
  ASSUME NEW u \in Users
  PROVE  u \in Holders /\ u # Marketplace /\ u # SwapEscrow /\ u # Nobody /\ u # "unminted" /\ u # "burned"
BY UsersAreNotContracts DEF Holders

LEMMA ContractsApart ==
  /\ Marketplace \in Holders \ Users /\ SwapEscrow \in Holders \ Users /\ Marketplace # SwapEscrow
  /\ Marketplace \notin {"unminted", "burned", Nobody} /\ SwapEscrow \notin {"unminted", "burned", Nobody}
  /\ "burned" \in Holders \ Users /\ "unminted" \in Holders \ Users
BY UsersAreNotContracts DEF Holders, Marketplace, SwapEscrow, Nobody

LEMMA BooksAre ==
  ASSUME MarketState
  PROVE  /\ DOMAIN offers = 1..Len(offers) /\ Len(offers) \in Nat
         /\ DOMAIN swaps = 1..Len(swaps) /\ Len(swaps) \in Nat
         /\ \A id \in DOMAIN offers : /\ offers[id] \in Bid /\ offers[id].bidder \in Users
                                      /\ offers[id].token \in Stones /\ offers[id].expiry \in Nat
         /\ \A id \in DOMAIN swaps : /\ swaps[id] \in Trade /\ swaps[id].proposer \in Users
                                     /\ swaps[id].gives \in Stones /\ swaps[id].wants \in Stones
                                     /\ swaps[id].expiry \in Nat
<1>1. /\ DOMAIN offers = 1..Len(offers) /\ Len(offers) \in Nat
      /\ DOMAIN swaps = 1..Len(swaps) /\ Len(swaps) \in Nat
      /\ \A id \in DOMAIN offers : offers[id] \in Bid
      /\ \A id \in DOMAIN swaps : swaps[id] \in Trade
  BY DEF MarketState, BooksTyped
<1>. QED  BY <1>1 DEF Bid, Trade

-----------------------------------------------------------------------------
(* A stone moves between wallets and the Marketplace; its listing follows. *)

LEMMA StoneMoves ==
  ASSUME MarketState, NEW t \in Stones, NEW h \in Users \cup {Marketplace}, NEW new \in Ask,
         holder[t] \in Users \cup {Marketplace}, t \notin locked, listing[t].leader = 0,
         h = Marketplace <=> new.seller # Nobody, new.leader = 0,
         holder' = [holder EXCEPT ![t] = h], listing' = [listing EXCEPT ![t] = new],
         UNCHANGED <<locked, offers, swaps, round, now, events>>,
         credits' \subseteq {Marketplace, PrimarySaleAuction} \X Users
  PROVE  MarketState'
<1>. USE DEF MarketState
<1>1. h \in Holders /\ h # SwapEscrow /\ h # "unminted" /\ holder[t] # SwapEscrow /\ holder[t] # "unminted"
  BY UsersApart, ContractsApart
<1>2. ChainTyped'  BY <1>1 DEF ChainTyped
<1>3. \A s \in Stones : s # t => holder'[s] = holder[s] /\ listing'[s] = listing[s]  BY DEF ChainTyped
<1>4. holder'[t] = h /\ listing'[t] = new  BY DEF ChainTyped
<1>5. Custody'
  <2>1. \A s \in Stones : Listed(s)' <=> holder'[s] = Marketplace
    BY <1>3, <1>4 DEF Custody, Listed
  <2>2. \A s \in locked : holder'[s] \in Users  BY <1>3 DEF Custody, ChainTyped
  <2>3. \A s \in Stones : round[s].open /\ ~round[s].settled => holder'[s] = "unminted"
    BY <1>1, <1>3 DEF Custody
  <2>. QED  BY <2>1, <2>2, <2>3 DEF Custody
<1>6. Escrow'
  <2>1. \A s \in Stones : holder'[s] = SwapEscrow <=> holder[s] = SwapEscrow  BY <1>1, <1>3, <1>4
  <2>2. \A id \in DOMAIN swaps : swaps[id].gives \in Stones  BY BooksAre
  <2>. QED  BY <2>1, <2>2 DEF Escrow
<1>7. Leaders'
  <2>. SUFFICES ASSUME NEW s \in Stones, listing'[s].leader # 0  PROVE Led(s)'  BY DEF Leaders
  <2>1. s # t  BY <1>4
  <2>. QED  BY <1>3, <2>1 DEF Leaders, Led, Listed
<1>. QED  BY <1>2, <1>5, <1>6, <1>7, BooksStay

LEMMA NotListedIsAsk == NotListed \in Ask /\ NotListed.seller = Nobody /\ NotListed.leader = 0
BY DEF NotListed, Ask

LEMMA ListStep ==
  ASSUME MarketState, NEW u \in Users, NEW t \in Stones, NEW ask \in Prices, List(u, t, ask)
  PROVE  MarketState'
<1>1. PICK new : new = [NotListed EXCEPT !.seller = u, !.ask = ask]  OBVIOUS
<1>2. new \in Ask /\ new.seller = u /\ new.leader = 0
  BY <1>1, PricesAreDollars DEF NotListed, Ask
<1>3. /\ holder[t] = u /\ t \notin locked /\ holder' = [holder EXCEPT ![t] = Marketplace]
      /\ listing' = [listing EXCEPT ![t] = new] /\ UNCHANGED <<locked, offers, swaps, round, credits, now, events>>
  BY <1>1 DEF List, MayList
<1>4. listing[t].leader = 0
  BY <1>3, UsersApart DEF MarketState, Custody, Leaders, Led
<1>. QED  BY <1>2, <1>3, <1>4, UsersApart, StoneMoves DEF MarketState, ChainTyped

LEMMA UnlistStep ==
  ASSUME MarketState, NEW u \in Users, NEW t \in Stones, Unlist(u, t)
  PROVE  MarketState'
<1>1. /\ listing[t].seller = u /\ listing[t].leader = 0 /\ holder' = [holder EXCEPT ![t] = u]
      /\ listing' = [listing EXCEPT ![t] = NotListed]
      /\ UNCHANGED <<locked, offers, swaps, round, credits, now, events>>
  BY DEF Unlist, MayUnlist
<1>2. holder[t] = Marketplace  BY <1>1, UsersApart DEF MarketState, Custody, Listed
<1>3. t \notin locked  BY <1>2, ContractsApart DEF MarketState, Custody
<1>. QED  BY <1>1, <1>2, <1>3, NotListedIsAsk, UsersApart, StoneMoves DEF MarketState, ChainTyped

LEMMA BuyStep ==
  ASSUME MarketState, NEW u \in Users, NEW t \in Stones, NEW amount, Buy(u, t, amount)
  PROVE  MarketState'
<1>1. /\ Listed(t) /\ listing[t].leader = 0 /\ holder' = [holder EXCEPT ![t] = u]
      /\ listing' = [listing EXCEPT ![t] = NotListed]
      /\ credits' = credits \cup Credited(Marketplace, listing[t].seller)
      /\ UNCHANGED <<locked, offers, swaps, round, now, events>>
  BY DEF Buy, MayBuy
<1>2. holder[t] = Marketplace  BY <1>1 DEF MarketState, Custody
<1>3. t \notin locked  BY <1>2, ContractsApart DEF MarketState, Custody
<1>4. listing[t].seller \in Users  BY <1>1 DEF MarketState, ChainTyped, Ask, Listed
<1>5. credits' \subseteq {Marketplace, PrimarySaleAuction} \X Users
  BY <1>1, <1>4, CreditsTyped DEF MarketState, ChainTyped
<1>. QED  BY <1>1, <1>2, <1>3, <1>5, NotListedIsAsk, UsersApart, StoneMoves

LEMMA SendStep ==
  ASSUME MarketState, NEW u \in Users, NEW t \in Stones, NEW to \in Users, SendToken(u, t, to)
  PROVE  MarketState'
<1>1. /\ holder[t] = u /\ t \notin locked /\ holder' = [holder EXCEPT ![t] = to]
      /\ UNCHANGED <<locked, listing, offers, swaps, round, credits, now, events>>
  BY DEF SendToken, MaySend
<1>2. ~Listed(t) /\ listing[t].leader = 0
  BY <1>1, UsersApart DEF MarketState, Custody, Leaders, Led
<1>3. listing[t] \in Ask /\ listing' = [listing EXCEPT ![t] = listing[t]]
  BY <1>1 DEF MarketState, ChainTyped
<1>. QED  BY <1>1, <1>2, <1>3, UsersApart, StoneMoves DEF Listed, MarketState, ChainTyped
-----------------------------------------------------------------------------
(* An offer ends, and the log says so. *)

LEMMA OfferCloses ==
  ASSUME MarketState, NEW id \in DOMAIN offers, NEW name \in {"OfferAccepted", "OfferCancelled"},
         offers' = [offers EXCEPT ![id].active = FALSE], events' = Append(events, LogEntry(name, id)),
         UNCHANGED swaps
  PROVE  /\ BooksTyped' /\ OfferBook' /\ SwapBook' /\ DOMAIN offers' = DOMAIN offers
         /\ \A other \in DOMAIN offers : other # id => offers'[other] = offers[other]
         /\ ~offers'[id].active /\ offers'[id].token = offers[id].token
<1>. USE DEF MarketState
<1>1. id \in Nat /\ offers[id] \in Bid  BY BooksAre
<1>2. PICK gone : gone = [offers[id] EXCEPT !.active = FALSE]  OBVIOUS
<1>3. gone \in Bid /\ ~gone.active /\ gone.token = offers[id].token  BY <1>1, <1>2 DEF Bid
<1>4. offers' = [offers EXCEPT ![id] = gone]  BY <1>2
<1>5. events' \in Seq(Entry) /\ \A n, i : Logged(n, i)' <=> Logged(n, i) \/ (n = name /\ i = id)
  <2>1. name \in LogNames /\ BooksTyped  BY DEF LogNames
  <2>. QED  BY <1>1, <2>1, OneLogged
<1>6. BooksTyped'
  <2>1. offers \in Seq(Bid) /\ swaps \in Seq(Trade)  BY DEF BooksTyped
  <2>2. id \in 1..Len(offers)  BY BooksAre
  <2>3. [offers EXCEPT ![id] = gone] \in Seq(Bid)  BY <1>3, <2>1, <2>2, ExceptSeq
  <2>. QED  BY <1>4, <1>5, <2>1, <2>3 DEF BooksTyped
<1>7. /\ DOMAIN offers' = DOMAIN offers /\ offers'[id] = gone
      /\ \A other \in DOMAIN offers : other # id => offers'[other] = offers[other]
  BY <1>4 DEF BooksTyped
<1>8. OfferBook'  BY <1>3, <1>5, <1>7 DEF OfferBook
<1>9. SwapBook'  BY <1>5, SwapsStay
<1>. QED  BY <1>3, <1>6, <1>7, <1>8, <1>9

LEMMA AcceptStep ==
  ASSUME MarketState, NEW u \in Users, NEW id \in DOMAIN offers, Accept(u, id)
  PROVE  MarketState'
<1>. USE DEF MarketState
<1>. PICK t, v : t = offers[id].token /\ v = offers[id].bidder  OBVIOUS
<1>1. t \in Stones /\ v \in Users  BY BooksAre
<1>2. /\ holder[t] = u /\ t \notin locked /\ holder' = [holder EXCEPT ![t] = v]
      /\ offers' = [offers EXCEPT ![id].active = FALSE]
      /\ events' = Append(events, LogEntry("OfferAccepted", id))
      /\ credits' = credits \cup Credited(Marketplace, u)
      /\ UNCHANGED <<locked, listing, swaps, round, now>>
  BY DEF Accept, MayAccept
<1>3. BooksTyped' /\ OfferBook' /\ SwapBook' /\ DOMAIN offers' = DOMAIN offers
      /\ \A other \in DOMAIN offers : other # id => offers'[other] = offers[other]
  BY <1>2, OfferCloses
<1>4. ChainTyped'  BY <1>1, <1>2, UsersApart, CreditsTyped DEF ChainTyped
<1>5. holder'[t] = v /\ \A s \in Stones : s # t => holder'[s] = holder[s]  BY <1>1, <1>2 DEF ChainTyped
<1>6. ~Listed(t) /\ listing[t].leader = 0
  BY <1>1, <1>2, UsersApart DEF Custody, Leaders, Led
<1>7. Custody'
  BY <1>1, <1>2, <1>5, UsersApart DEF Custody, Listed
<1>8. Escrow'
  <2>1. \A s \in Stones : holder'[s] = SwapEscrow <=> holder[s] = SwapEscrow  BY <1>1, <1>2, <1>5, UsersApart
  <2>2. \A o \in DOMAIN swaps : swaps[o].gives \in Stones  BY BooksAre
  <2>. QED  BY <1>2, <2>1, <2>2 DEF Escrow
<1>9. Leaders'
  <2>. SUFFICES ASSUME NEW s \in Stones, listing[s].leader # 0  PROVE Led(s)'  BY <1>2 DEF Leaders
  <2>1. Led(s) /\ s # t  BY <1>6 DEF Leaders
  <2>2. listing[s].leader # id  BY <2>1 DEF Led
  <2>. QED  BY <1>2, <1>3, <2>1, <2>2 DEF Led, Listed
<1>. QED  BY <1>3, <1>4, <1>7, <1>8, <1>9

LEMMA WithdrawStep ==
  ASSUME MarketState, NEW u \in Users, NEW id \in DOMAIN offers, WithdrawOffer(u, id)
  PROVE  MarketState'
<1>. USE DEF MarketState
<1>. PICK t : t = offers[id].token  OBVIOUS
<1>1. t \in Stones /\ offers[id].bidder \in Users  BY BooksAre
<1>2. /\ offers' = [offers EXCEPT ![id].active = FALSE]
      /\ events' = Append(events, LogEntry("OfferCancelled", id))
      /\ credits' = credits \cup Credited(Marketplace, offers[id].bidder)
      /\ UNCHANGED <<holder, locked, swaps, round, now>>
      /\ listing' = IF listing[t].leader = id THEN [listing EXCEPT ![t].leader = 0, ![t].end = 0] ELSE listing
  BY DEF WithdrawOffer, Leads
<1>3. BooksTyped' /\ OfferBook' /\ SwapBook' /\ DOMAIN offers' = DOMAIN offers
      /\ \A other \in DOMAIN offers : other # id => offers'[other] = offers[other]
  BY <1>2, OfferCloses
<1>4. /\ listing' \in [Stones -> Ask] /\ \A s \in Stones : listing'[s].seller = listing[s].seller
      /\ \A s \in Stones : listing'[s] = listing[s] \/ listing'[s].leader = 0
      /\ listing[t].leader = id => listing'[t].leader = 0
  <2>1. PICK new : new = [listing[t] EXCEPT !.leader = 0, !.end = 0]  OBVIOUS
  <2>2. listing[t] \in Ask  BY <1>1 DEF ChainTyped
  <2>3. new \in Ask /\ new.seller = listing[t].seller /\ new.leader = 0  BY <2>1, <2>2 DEF Ask
  <2>4. listing' = IF listing[t].leader = id THEN [listing EXCEPT ![t] = new] ELSE listing
    BY <1>1, <1>2, <2>1 DEF ChainTyped
  <2>. QED  BY <1>1, <2>3, <2>4 DEF ChainTyped
<1>5. ChainTyped'  BY <1>1, <1>2, <1>4, CreditsTyped DEF ChainTyped
<1>6. Custody' /\ Escrow'
  BY <1>2, <1>4, EscrowStays DEF Custody, Listed
<1>7. Leaders'
  <2>. SUFFICES ASSUME NEW s \in Stones, listing'[s].leader # 0  PROVE Led(s)'  BY DEF Leaders
  <2>1. listing'[s] = listing[s] /\ Led(s)  BY <1>4 DEF Leaders
  <2>2. listing[s].leader # id
    <3>1. SUFFICES ASSUME listing[s].leader = id  PROVE FALSE  OBVIOUS
    <3>2. s = t  BY <2>1, <3>1 DEF Led
    <3>. QED  BY <1>4, <3>1, <3>2
  <2>. QED  BY <1>3, <2>1, <2>2 DEF Led, Listed
<1>. QED  BY <1>3, <1>5, <1>6, <1>7

LEMMA SettleListingStep ==
  ASSUME MarketState, NEW t \in Stones, SettleListing(t)
  PROVE  MarketState'
<1>. USE DEF MarketState
<1>. PICK id : id = listing[t].leader  OBVIOUS
<1>1. listing[t].leader # 0 /\ Led(t)  BY DEF SettleListing, MaySettleListing, Leaders
<1>2. id \in DOMAIN offers /\ offers[id].token = t /\ Listed(t)  BY <1>1 DEF Led
<1>3. offers[id].bidder \in Users /\ listing[t].seller \in Users
  BY <1>2, BooksAre DEF ChainTyped, Ask, Listed
<1>4. /\ holder' = [holder EXCEPT ![t] = offers[id].bidder] /\ listing' = [listing EXCEPT ![t] = NotListed]
      /\ offers' = [offers EXCEPT ![id].active = FALSE]
      /\ events' = Append(events, LogEntry("OfferAccepted", id))
      /\ credits' = credits \cup Credited(Marketplace, listing[t].seller)
      /\ UNCHANGED <<locked, swaps, round, now>>
  BY DEF SettleListing
<1>5. BooksTyped' /\ OfferBook' /\ SwapBook' /\ DOMAIN offers' = DOMAIN offers
      /\ \A other \in DOMAIN offers : other # id => offers'[other] = offers[other]
  BY <1>2, <1>4, OfferCloses
<1>6. ChainTyped'  BY <1>3, <1>4, UsersApart, CreditsTyped, NotListedIsAsk DEF ChainTyped
<1>7. /\ holder'[t] = offers[id].bidder /\ listing'[t] = NotListed
      /\ \A s \in Stones : s # t => holder'[s] = holder[s] /\ listing'[s] = listing[s]
  BY <1>4 DEF ChainTyped
<1>8. holder[t] = Marketplace /\ t \notin locked
  BY <1>2, ContractsApart DEF Custody
<1>9. Custody'
  BY <1>3, <1>4, <1>7, <1>8, NotListedIsAsk, UsersApart, ContractsApart DEF Custody, Listed
<1>10. Escrow'
  <2>1. \A s \in Stones : holder'[s] = SwapEscrow <=> holder[s] = SwapEscrow
    BY <1>3, <1>7, <1>8, UsersApart, ContractsApart
  <2>2. \A o \in DOMAIN swaps : swaps[o].gives \in Stones  BY BooksAre
  <2>. QED  BY <1>4, <2>1, <2>2 DEF Escrow
<1>11. Leaders'
  <2>. SUFFICES ASSUME NEW s \in Stones, listing'[s].leader # 0  PROVE Led(s)'  BY DEF Leaders
  <2>1. s # t  BY <1>7, NotListedIsAsk
  <2>2. listing'[s] = listing[s] /\ Led(s)  BY <1>7, <2>1 DEF Leaders
  <2>3. listing[s].leader # id  BY <1>2, <2>1, <2>2 DEF Led
  <2>. QED  BY <1>5, <2>2, <2>3 DEF Led, Listed
<1>. QED  BY <1>5, <1>6, <1>9, <1>10, <1>11
-----------------------------------------------------------------------------
(* An offer is made: the bid it outbids ends first. *)

OfferLogs(old, id) ==
  events' = events \o (IF old = 0 THEN <<>> ELSE <<LogEntry("ListingBidOutbid", old), LogEntry("OfferCancelled", old)>>)
                   \o <<LogEntry("OfferCreated", id)>>
OfferLogged(old, id) ==
  /\ events' \in Seq(Entry)
  /\ \A n, i : n # "ListingBidOutbid" =>
       (Logged(n, i)' <=> \/ Logged(n, i) \/ (n = "OfferCreated" /\ i = id)
                          \/ (old # 0 /\ n = "OfferCancelled" /\ i = old))
LEMMA OfferIsLogged ==
  ASSUME BooksTyped, NEW old \in Nat, NEW id \in Nat, OfferLogs(old, id)
  PROVE  OfferLogged(old, id)
<1>. DEFINE outbid == LogEntry("ListingBidOutbid", old)
            ended == LogEntry("OfferCancelled", old)
            made == LogEntry("OfferCreated", id)
            middle == IF old = 0 THEN events ELSE Append(Append(events, outbid), ended)
<1>1. outbid \in Entry /\ ended \in Entry /\ made \in Entry  BY EntryTyped DEF LogNames
<1>. HIDE DEF outbid, ended, made
<1>2. events \in Seq(Entry)  BY DEF BooksTyped
<1>3. events' = Append(middle, made) /\ middle \in Seq(Entry)
  <2>1. CASE old = 0
    <3>1. events \o <<>> = events /\ events \o <<made>> = Append(events, made)  BY <1>1, <1>2, ConcatIsAppend
    <3>. QED  BY <1>2, <2>1, <3>1 DEF OfferLogs, outbid, ended, made
  <2>2. CASE old # 0
    <3>1. events \o <<outbid, ended>> = Append(Append(events, outbid), ended)  BY <1>1, <1>2, ConcatIsAppend
    <3>2. Append(Append(events, outbid), ended) \in Seq(Entry)  BY <1>1, <1>2
    <3>3. Append(Append(events, outbid), ended) \o <<made>> = Append(Append(Append(events, outbid), ended), made)
      BY <1>1, <3>2, ConcatIsAppend
    <3>. QED  BY <2>2, <3>1, <3>2, <3>3 DEF OfferLogs, outbid, ended, made
  <2>. QED  BY <2>1, <2>2
<1>4. Log(middle) = Log(events) \cup (IF old = 0 THEN {} ELSE {outbid, ended})
  <2>1. Append(events, outbid) \in Seq(Entry) /\ Log(Append(events, outbid)) = Log(events) \cup {outbid}
    BY <1>1, <1>2, LogAppended
  <2>2. Log(Append(Append(events, outbid), ended)) = Log(Append(events, outbid)) \cup {ended}
    BY <1>1, <2>1, LogAppended
  <2>. QED  BY <2>1, <2>2
<1>. HIDE DEF middle
<1>5. events' \in Seq(Entry) /\ Log(events') = Log(middle) \cup {made}  BY <1>1, <1>3, LogAppended
<1>6. ASSUME NEW n, NEW i, n # "ListingBidOutbid"
      PROVE  Logged(n, i)' <=> \/ Logged(n, i) \/ (n = "OfferCreated" /\ i = id)
                               \/ (old # 0 /\ n = "OfferCancelled" /\ i = old)
  <2>. PICK e : e = LogEntry(n, i)  OBVIOUS
  <2>1. e # outbid  BY <1>6 DEF LogEntry, outbid
  <2>2. e = ended <=> n = "OfferCancelled" /\ i = old  BY DEF LogEntry, ended
  <2>3. e = made <=> n = "OfferCreated" /\ i = id  BY DEF LogEntry, made
  <2>4. e \in Log(events') <=> e \in Log(events) \/ (old # 0 /\ e = ended) \/ e = made
    BY <1>4, <1>5, <2>1
  <2>5. Logged(n, i)' <=> LogEntry(n, i) \in Log(events')  BY Zenon DEF Logged, Log, LogEntry
  <2>6. Logged(n, i) <=> LogEntry(n, i) \in Log(events)  BY DEF Logged
  <2>. QED  BY <2>2, <2>3, <2>4, <2>5, <2>6, Zenon
<1>. QED  BY <1>5, <1>6 DEF OfferLogged

LEMMA OfferStep ==
  ASSUME MarketState, NEW u \in Users, NEW t \in Stones, NEW usd \in Prices, Offer(u, t, usd)
  PROVE  MarketState' /\ DOMAIN offers \subseteq DOMAIN offers'
<1>. USE DEF MarketState
<1>. PICK id, old, end, new :
       /\ id = Len(offers) + 1 /\ old = listing[t].leader
       /\ end = IF old = 0 THEN now + DAY ELSE listing[t].end
       /\ new = [bidder |-> u, token |-> t, usd |-> usd, expiry |-> end, active |-> TRUE]
  OBVIOUS
<1>1. listing[t] \in Ask /\ now \in Nat  BY DEF ChainTyped
<1>2. /\ old \in Nat /\ end \in Nat /\ id \in Nat /\ new \in Bid
      /\ new.active /\ new.token = t /\ new.expiry = end
  BY <1>1, BooksAre, PricesAreDollars DEF Ask, Bid, DAY
<1>3. old # 0 => Led(t)  BY DEF Leaders
<1>4. old # 0 => old \in DOMAIN offers /\ offers[old].token = t /\ Listed(t) /\ offers[old].active
  BY <1>3 DEF Led
<1>. PICK book : book = IF old = 0 THEN offers ELSE [offers EXCEPT ![old].active = FALSE]  OBVIOUS
<1>5. /\ offers' = Append(book, new)
      /\ listing' = IF Listed(t) THEN [listing EXCEPT ![t].leader = id, ![t].end = end] ELSE listing
      /\ credits' = IF old = 0 THEN credits ELSE credits \cup Credited(Marketplace, offers[old].bidder)
      /\ UNCHANGED <<holder, locked, swaps, round, now>>
  BY DEF Offer
<1>6. /\ events' \in Seq(Entry)
      /\ \A n, i : n # "ListingBidOutbid" =>
           (Logged(n, i)' <=> \/ Logged(n, i) \/ (n = "OfferCreated" /\ i = id)
                              \/ (old # 0 /\ n = "OfferCancelled" /\ i = old))
  <2>1. OfferLogs(old, id)  BY DEF Offer, OfferLogs
  <2>. QED  BY <1>2, <2>1, OfferIsLogged DEF OfferLogged
<1>7. /\ book \in Seq(Bid) /\ Len(book) = Len(offers) /\ DOMAIN book = DOMAIN offers
      /\ \A o \in DOMAIN offers : o # old => book[o] = offers[o]
      /\ old # 0 => ~book[old].active
  <2>1. CASE old = 0  BY <2>1, BooksAre DEF BooksTyped
  <2>2. CASE old # 0
    <3>1. PICK gone : gone = [offers[old] EXCEPT !.active = FALSE]  OBVIOUS
    <3>2. offers[old] \in Bid /\ old \in 1..Len(offers) /\ offers \in Seq(Bid)
      BY <1>4, <2>2, BooksAre DEF BooksTyped
    <3>3. gone \in Bid /\ ~gone.active  BY <3>1, <3>2 DEF Bid
    <3>4. book = [offers EXCEPT ![old] = gone]  BY <2>2, <3>1
    <3>5. book \in Seq(Bid) /\ Len(book) = Len(offers)  BY <3>2, <3>3, <3>4, ExceptSeq
    <3>. QED  BY <2>2, <3>2, <3>3, <3>4, <3>5
  <2>. QED  BY <2>1, <2>2
<1>8. /\ offers' \in Seq(Bid) /\ DOMAIN offers' = DOMAIN offers \cup {id} /\ id \notin DOMAIN offers
      /\ offers'[id] = new /\ \A o \in DOMAIN offers : offers'[o] = book[o]
  BY <1>2, <1>5, <1>7, BooksAre
<1>9. BooksTyped'  BY <1>5, <1>6, <1>8 DEF BooksTyped
<1>10. OfferBook'
  <2>1. \A o \in DOMAIN offers' : Logged("OfferCreated", o)'  BY <1>6, <1>8 DEF OfferBook
  <2>2. ~Logged("OfferAccepted", id) /\ ~Logged("OfferCancelled", id) /\ (old # 0 => old # id)
    BY <1>2, <1>4, <1>8 DEF OfferBook
  <2>3. \A o \in DOMAIN offers' : offers'[o].active => ~Logged("OfferAccepted", o)' /\ ~Logged("OfferCancelled", o)'
    <3>. SUFFICES ASSUME NEW o \in DOMAIN offers', offers'[o].active
                  PROVE  ~Logged("OfferAccepted", o)' /\ ~Logged("OfferCancelled", o)'
      OBVIOUS
    <3>1. CASE o = id  BY <1>6, <2>2, <3>1
    <3>2. CASE o # id
      <4>1. o \in DOMAIN offers /\ (old # 0 => o # old)  BY <1>4, <1>7, <1>8, <3>2
      <4>2. o # old => offers[o].active  BY <1>7, <1>8, <4>1
      <4>3. o # 0  BY <4>1, BooksAre
      <4>. QED  BY <1>6, <4>1, <4>2, <4>3 DEF OfferBook
    <3>. QED  BY <3>1, <3>2
  <2>4. \A o \in Nat : Logged("OfferAccepted", o)' \/ Logged("OfferCancelled", o)' => o \in DOMAIN offers'
    BY <1>4, <1>6, <1>8 DEF OfferBook
  <2>. QED  BY <2>1, <2>3, <2>4 DEF OfferBook
<1>11. SwapBook'
  <2>1. \A n \in {"SwapCreated", "SwapAccepted", "SwapCancelled"} : \A i : Logged(n, i)' <=> Logged(n, i)
    BY <1>6
  <2>. QED  BY <1>5, <2>1, SwapsStay
<1>12. /\ listing' \in [Stones -> Ask] /\ \A s \in Stones : listing'[s].seller = listing[s].seller
       /\ \A s \in Stones : s # t => listing'[s] = listing[s]
       /\ Listed(t) => listing'[t].leader = id /\ listing'[t].end = end
       /\ ~Listed(t) => listing'[t] = listing[t]
  <2>1. PICK ask : ask = [listing[t] EXCEPT !.leader = id, !.end = end]  OBVIOUS
  <2>2. ask \in Ask /\ ask.seller = listing[t].seller /\ ask.leader = id /\ ask.end = end
    BY <1>1, <1>2, <2>1 DEF Ask
  <2>3. listing' = IF Listed(t) THEN [listing EXCEPT ![t] = ask] ELSE listing
    BY <1>5, <2>1 DEF ChainTyped
  <2>. QED  BY <2>2, <2>3 DEF ChainTyped
<1>13. credits' \subseteq {Marketplace, PrimarySaleAuction} \X Users
  BY <1>4, <1>5, BooksAre, CreditsTyped DEF ChainTyped
<1>14. ChainTyped'  BY <1>5, <1>12, <1>13 DEF ChainTyped
<1>15. Custody' /\ Escrow'  BY <1>5, <1>12, EscrowStays DEF Custody, Listed
<1>16. Leaders'
  <2>. SUFFICES ASSUME NEW s \in Stones, listing'[s].leader # 0  PROVE Led(s)'  BY DEF Leaders
  <2>1. CASE s = t
    <3>1. Listed(t)
      BY <1>12, <2>1 DEF Leaders, Led
    <3>. QED  BY <1>2, <1>8, <1>12, <2>1, <3>1 DEF Led, Listed
  <2>2. CASE s # t
    <3>1. listing'[s] = listing[s] /\ Led(s)  BY <1>12, <2>2 DEF Leaders
    <3>2. listing[s].leader # old  BY <1>4, <2>2, <3>1 DEF Led
    <3>. QED  BY <1>7, <1>8, <3>1, <3>2 DEF Led, Listed
  <2>. QED  BY <2>1, <2>2
<1>. QED  BY <1>8, <1>9, <1>10, <1>11, <1>14, <1>15, <1>16
-----------------------------------------------------------------------------
(* Swaps. *)

LEMMA SwapStep ==
  ASSUME MarketState, NEW u \in Users, NEW gives \in Stones, NEW wants \in Stones, Swap(u, gives, wants)
  PROVE  MarketState' /\ DOMAIN swaps \subseteq DOMAIN swaps'
<1>. USE DEF MarketState
<1>. PICK id, new :
       /\ id = Len(swaps) + 1
       /\ new = [proposer |-> u, gives |-> gives, wants |-> wants, expiry |-> now + DAY, active |-> TRUE]
  OBVIOUS
<1>1. now \in Nat  BY DEF ChainTyped
<1>2. id \in Nat /\ new \in Trade /\ new.active /\ new.gives = gives
  BY <1>1, BooksAre DEF Trade, DAY
<1>3. /\ holder[gives] = u /\ gives \notin locked
      /\ swaps' = Append(swaps, new) /\ holder' = [holder EXCEPT ![gives] = SwapEscrow]
      /\ events' = Append(events, LogEntry("SwapCreated", id))
      /\ UNCHANGED <<locked, listing, offers, round, credits, now>>
  BY DEF Swap, MaySwap
<1>4. /\ events' \in Seq(Entry)
      /\ \A n, i : Logged(n, i)' <=> Logged(n, i) \/ (n = "SwapCreated" /\ i = id)
  <2>1. "SwapCreated" \in LogNames /\ BooksTyped  BY DEF LogNames
  <2>. QED  BY <1>2, <1>3, <2>1, OneLogged
<1>5. /\ swaps' \in Seq(Trade) /\ DOMAIN swaps' = DOMAIN swaps \cup {id} /\ id \notin DOMAIN swaps
      /\ swaps'[id] = new /\ \A o \in DOMAIN swaps : swaps'[o] = swaps[o]
  BY <1>2, <1>3, BooksAre DEF BooksTyped
<1>6. BooksTyped'  BY <1>3, <1>4, <1>5 DEF BooksTyped
<1>7. OfferBook'
  <2>1. \A n \in {"OfferCreated", "OfferAccepted", "OfferCancelled"} : \A i : Logged(n, i)' <=> Logged(n, i)
    BY <1>4
  <2>. QED  BY <1>3, <2>1, OffersStay
<1>8. SwapBook'
  <2>1. ~Logged("SwapAccepted", id) /\ ~Logged("SwapCancelled", id)  BY <1>2, <1>5 DEF SwapBook
  <2>2. \A n \in {"SwapAccepted", "SwapCancelled"} : \A i : Logged(n, i)' <=> Logged(n, i)  BY <1>4
  <2>3. \A o \in DOMAIN swaps' : Logged("SwapCreated", o)'  BY <1>4, <1>5 DEF SwapBook
  <2>4. \A o \in DOMAIN swaps' : swaps'[o].active <=> ~Logged("SwapAccepted", o)' /\ ~Logged("SwapCancelled", o)'
    BY <1>2, <1>5, <2>1, <2>2 DEF SwapBook
  <2>5. \A o \in Nat : Logged("SwapAccepted", o)' \/ Logged("SwapCancelled", o)' => o \in DOMAIN swaps'
    BY <1>5, <2>2 DEF SwapBook
  <2>. QED  BY <2>3, <2>4, <2>5 DEF SwapBook
<1>9. ChainTyped'  BY <1>3, ContractsApart DEF ChainTyped
<1>10. holder'[gives] = SwapEscrow /\ \A s \in Stones : s # gives => holder'[s] = holder[s]
  BY <1>3 DEF ChainTyped
<1>11. Custody'
  <2>1. \A s \in Stones : holder'[s] = Marketplace <=> holder[s] = Marketplace
    BY <1>3, <1>10, UsersApart, ContractsApart
  <2>2. \A s \in locked : holder'[s] \in Users  BY <1>3, <1>10 DEF Custody, ChainTyped
  <2>3. \A s \in Stones : holder[s] = "unminted" => holder'[s] = "unminted"
    BY <1>3, <1>10, UsersApart
  <2>. QED  BY <1>3, <2>1, <2>2, <2>3 DEF Custody, Listed
<1>12. Escrow'
  <2>1. \A o \in DOMAIN swaps : swaps[o].active => swaps[o].gives # gives
    BY <1>3, UsersApart DEF Escrow
  <2>2. \A o \in DOMAIN swaps : swaps[o].gives \in Stones  BY BooksAre
  <2>3. \A o \in DOMAIN swaps' : swaps'[o].active => holder'[swaps'[o].gives] = SwapEscrow
    BY <1>2, <1>5, <1>10, <2>1, <2>2 DEF Escrow
  <2>4. \A o, other \in DOMAIN swaps' :
          swaps'[o].active /\ swaps'[other].active /\ swaps'[o].gives = swaps'[other].gives => o = other
    BY <1>2, <1>5, <2>1 DEF Escrow
  <2>5. \A s \in Stones : holder'[s] = SwapEscrow => \E o \in DOMAIN swaps' : swaps'[o].active /\ swaps'[o].gives = s
    <3>. SUFFICES ASSUME NEW s \in Stones, holder'[s] = SwapEscrow
                  PROVE  \E o \in DOMAIN swaps' : swaps'[o].active /\ swaps'[o].gives = s
      OBVIOUS
    <3>1. CASE s = gives  BY <1>2, <1>5, <3>1
    <3>2. CASE s # gives
      <4>1. PICK o \in DOMAIN swaps : swaps[o].active /\ swaps[o].gives = s
        BY <1>10, <3>2 DEF Escrow
      <4>. QED  BY <1>5, <4>1
    <3>. QED  BY <3>1, <3>2
  <2>. QED  BY <2>3, <2>4, <2>5 DEF Escrow
<1>13. Leaders'  BY <1>3, LeadersStay
<1>. QED  BY <1>5, <1>6, <1>7, <1>8, <1>9, <1>11, <1>12, <1>13

\* A swap ends, and the log says so.
LEMMA SwapCloses ==
  ASSUME MarketState, NEW id \in DOMAIN swaps, NEW name \in {"SwapAccepted", "SwapCancelled"},
         swaps' = [swaps EXCEPT ![id].active = FALSE], events' = Append(events, LogEntry(name, id)),
         UNCHANGED offers
  PROVE  /\ BooksTyped' /\ OfferBook' /\ SwapBook' /\ DOMAIN swaps' = DOMAIN swaps
         /\ \A other \in DOMAIN swaps : other # id => swaps'[other] = swaps[other]
         /\ ~swaps'[id].active
<1>. USE DEF MarketState
<1>1. id \in Nat /\ swaps[id] \in Trade  BY BooksAre
<1>2. PICK gone : gone = [swaps[id] EXCEPT !.active = FALSE]  OBVIOUS
<1>3. gone \in Trade /\ ~gone.active  BY <1>1, <1>2 DEF Trade
<1>4. swaps' = [swaps EXCEPT ![id] = gone]  BY <1>2
<1>5. events' \in Seq(Entry) /\ \A n, i : Logged(n, i)' <=> Logged(n, i) \/ (n = name /\ i = id)
  <2>1. name \in LogNames /\ BooksTyped  BY DEF LogNames
  <2>. QED  BY <1>1, <2>1, OneLogged
<1>6. BooksTyped'
  <2>1. offers \in Seq(Bid) /\ swaps \in Seq(Trade)  BY DEF BooksTyped
  <2>2. id \in 1..Len(swaps)  BY BooksAre
  <2>3. [swaps EXCEPT ![id] = gone] \in Seq(Trade)  BY <1>3, <2>1, <2>2, ExceptSeq
  <2>. QED  BY <1>4, <1>5, <2>1, <2>3 DEF BooksTyped
<1>7. /\ DOMAIN swaps' = DOMAIN swaps /\ swaps'[id] = gone
      /\ \A other \in DOMAIN swaps : other # id => swaps'[other] = swaps[other]
  BY <1>4 DEF BooksTyped
<1>8. SwapBook'  BY <1>3, <1>5, <1>7 DEF SwapBook
<1>9. OfferBook'  BY <1>5, OffersStay
<1>. QED  BY <1>3, <1>6, <1>7, <1>8, <1>9

\* Taken or cancelled, the stone leaves the escrow; taken, another one moves too.
LEMMA SwapEnds ==
  ASSUME MarketState, NEW id \in DOMAIN swaps, swaps[id].active,
         NEW name \in {"SwapAccepted", "SwapCancelled"},
         NEW wanted \in SUBSET Stones, \A t \in wanted : holder[t] \in Users /\ t \notin locked,
         holder' \in [Stones -> Holders],
         \A t \in Stones : IF t = swaps[id].gives \/ t \in wanted THEN holder'[t] \in Users ELSE holder'[t] = holder[t],
         swaps' = [swaps EXCEPT ![id].active = FALSE], events' = Append(events, LogEntry(name, id)),
         UNCHANGED <<locked, listing, offers, round, credits, now>>
  PROVE  MarketState' /\ DOMAIN swaps' = DOMAIN swaps
<1>. USE DEF MarketState
<1>. PICK gives : gives = swaps[id].gives  OBVIOUS
<1>1. gives \in Stones /\ holder[gives] = SwapEscrow /\ gives \notin wanted
  BY BooksAre, ContractsApart DEF Escrow
<1>2. /\ BooksTyped' /\ OfferBook' /\ SwapBook' /\ DOMAIN swaps' = DOMAIN swaps
      /\ \A other \in DOMAIN swaps : other # id => swaps'[other] = swaps[other]
      /\ ~swaps'[id].active
  BY SwapCloses
<1>3. /\ \A t \in Stones : t \notin wanted /\ t # gives => holder'[t] = holder[t]
      /\ \A t \in wanted \cup {gives} : holder'[t] \in Users
  BY <1>1
<1>4. ChainTyped'  BY DEF ChainTyped
<1>5. \A t \in wanted : holder[t] \notin {Marketplace, SwapEscrow, "unminted"}  BY UsersApart
<1>6. Custody'
  <2>1. \A t \in Stones : holder'[t] = Marketplace <=> holder[t] = Marketplace
    BY <1>1, <1>3, <1>5, UsersApart, ContractsApart
  <2>2. \A t \in locked : holder'[t] \in Users  BY <1>3 DEF Custody, ChainTyped
  <2>3. \A t \in Stones : holder[t] = "unminted" => holder'[t] = "unminted"
    BY <1>1, <1>3, <1>5, ContractsApart
  <2>. QED  BY <2>1, <2>2, <2>3 DEF Custody, Listed
<1>7. Escrow'
  <2>1. \A t \in Stones : holder'[t] = SwapEscrow <=> holder[t] = SwapEscrow /\ t # gives
    BY <1>1, <1>3, <1>5, UsersApart
  <2>2. \A o \in DOMAIN swaps : swaps[o].active /\ o # id => swaps[o].gives # gives  BY DEF Escrow
  <2>3. \A o \in DOMAIN swaps : swaps[o].gives \in Stones  BY BooksAre
  <2>4. \A o \in DOMAIN swaps' : swaps'[o].active => holder'[swaps'[o].gives] = SwapEscrow
    BY <1>2, <2>1, <2>2, <2>3 DEF Escrow
  <2>5. \A o, other \in DOMAIN swaps' :
          swaps'[o].active /\ swaps'[other].active /\ swaps'[o].gives = swaps'[other].gives => o = other
    BY <1>2 DEF Escrow
  <2>6. \A t \in Stones : holder'[t] = SwapEscrow => \E o \in DOMAIN swaps' : swaps'[o].active /\ swaps'[o].gives = t
    <3>. SUFFICES ASSUME NEW t \in Stones, holder'[t] = SwapEscrow
                  PROVE  \E o \in DOMAIN swaps' : swaps'[o].active /\ swaps'[o].gives = t
      OBVIOUS
    <3>1. PICK o \in DOMAIN swaps : swaps[o].active /\ swaps[o].gives = t  BY <2>1 DEF Escrow
    <3>2. o # id  BY <2>1, <3>1
    <3>. QED  BY <1>2, <3>1, <3>2
  <2>. QED  BY <2>4, <2>5, <2>6 DEF Escrow
<1>8. Leaders'  BY LeadersStay
<1>. QED  BY <1>2, <1>4, <1>6, <1>7, <1>8

LEMMA TakeSwapStep ==
  ASSUME MarketState, NEW u \in Users, NEW id \in DOMAIN swaps, TakeSwap(u, id)
  PROVE  MarketState' /\ DOMAIN swaps' = DOMAIN swaps
<1>. PICK gives, wants, v : gives = swaps[id].gives /\ wants = swaps[id].wants /\ v = swaps[id].proposer  OBVIOUS
<1>1. /\ swaps[id].active /\ holder[wants] = u /\ wants \notin locked
      /\ holder' = [holder EXCEPT ![gives] = u, ![wants] = v]
      /\ swaps' = [swaps EXCEPT ![id].active = FALSE] /\ events' = Append(events, LogEntry("SwapAccepted", id))
      /\ UNCHANGED <<locked, listing, offers, round, credits, now>>
  BY DEF TakeSwap, MayTakeSwap
<1>2. gives \in Stones /\ wants \in Stones /\ v \in Users  BY BooksAre
<1>3. gives # wants  BY <1>1, UsersApart DEF MarketState, Escrow
<1>4. holder' \in [Stones -> Holders]  BY <1>1, <1>2, UsersApart DEF MarketState, ChainTyped
<1>5. \A t \in Stones : IF t = swaps[id].gives \/ t \in {wants} THEN holder'[t] \in Users ELSE holder'[t] = holder[t]
  BY <1>1, <1>2, <1>3 DEF MarketState, ChainTyped
<1>6. {wants} \in SUBSET Stones /\ \A t \in {wants} : holder[t] \in Users /\ t \notin locked  BY <1>1, <1>2
<1>. QED  BY <1>1, <1>4, <1>5, <1>6, SwapEnds

LEMMA CancelSwapStep ==
  ASSUME MarketState, NEW u \in Users, NEW id \in DOMAIN swaps, CancelSwap(u, id)
  PROVE  MarketState' /\ DOMAIN swaps' = DOMAIN swaps
<1>1. /\ swaps[id].active /\ holder' = [holder EXCEPT ![swaps[id].gives] = u]
      /\ swaps' = [swaps EXCEPT ![id].active = FALSE] /\ events' = Append(events, LogEntry("SwapCancelled", id))
      /\ UNCHANGED <<locked, listing, offers, round, credits, now>>
  BY DEF CancelSwap, MayCancelSwap
<1>2. swaps[id].gives \in Stones  BY BooksAre
<1>3. holder' \in [Stones -> Holders]  BY <1>1, <1>2, UsersApart DEF MarketState, ChainTyped
<1>4. \A t \in Stones : IF t = swaps[id].gives \/ t \in {} THEN holder'[t] \in Users ELSE holder'[t] = holder[t]
  BY <1>1, <1>2 DEF MarketState, ChainTyped
<1>5. {} \in SUBSET Stones /\ \A t \in {} : holder[t] \in Users /\ t \notin locked  OBVIOUS
<1>. QED  BY <1>1, <1>3, <1>4, <1>5, SwapEnds
-----------------------------------------------------------------------------
(* The auction that mints a stone, credits, redemptions, pauses, time. *)

LEMMA RoundStays ==
  ASSUME MarketState, NEW t \in Stones, NEW new \in Round, round' = [round EXCEPT ![t] = new],
         new.leader # Nobody => new.open, new.open /\ ~new.settled => holder[t] = "unminted",
         credits' \subseteq {Marketplace, PrimarySaleAuction} \X Users,
         UNCHANGED <<holder, locked, listing, offers, swaps, now, events>>
  PROVE  MarketState'
<1>. USE DEF MarketState
<1>1. ChainTyped'  BY DEF ChainTyped
<1>2. round'[t] = new /\ \A s \in Stones : s # t => round'[s] = round[s]  BY DEF ChainTyped
<1>3. Custody'  BY <1>2 DEF Custody, Listed
<1>. QED  BY <1>1, <1>3, BooksStay, EscrowStays, LeadersStay

LEMMA OpenRoundStep ==
  ASSUME MarketState, NEW t \in Stones, OpenRound(t)  PROVE MarketState'
<1>. DEFINE new == [open |-> TRUE, end |-> now + DAY, leader |-> Nobody, usd |-> 0, settled |-> FALSE]
<1>1. /\ holder[t] = "unminted"
      /\ UNCHANGED <<holder, locked, listing, offers, swaps, credits, now, events>>
  BY DEF OpenRound
<1>4. round' = [round EXCEPT ![t] = new]
  <2>1. [NoRound EXCEPT !.open = TRUE, !.end = now + DAY] = new
    <3>1. PICK r : r = [NoRound EXCEPT !.open = TRUE, !.end = now + DAY]  OBVIOUS
    <3>2. r = new  BY <3>1 DEF NoRound, DAY
    <3>. HIDE DEF new
    <3>. QED  BY <3>1, <3>2, Zenon
  <2>2. round' = [round EXCEPT ![t] = [NoRound EXCEPT !.open = TRUE, !.end = now + DAY]]  BY Zenon DEF OpenRound
  <2>. HIDE DEF new
  <2>. QED  BY <2>1, <2>2, Zenon
<1>2. now + DAY \in Nat  BY DEF MarketState, ChainTyped, DAY
<1>3. new \in Round /\ new.leader = Nobody  BY <1>2 DEF Round
<1>. HIDE DEF new
<1>. QED  BY <1>1, <1>3, <1>4, RoundStays DEF MarketState, ChainTyped

LEMMA PlaceBidStep ==
  ASSUME MarketState, NEW u \in Users, NEW t \in Stones, NEW usd \in Prices, PlaceBid(u, t, usd)
  PROVE  MarketState'
<1>. PICK new : new = [round[t] EXCEPT !.leader = u, !.usd = usd]  OBVIOUS
<1>1. /\ round[t].open /\ ~round[t].settled
      /\ credits' = credits \cup (IF round[t].leader = Nobody THEN {} ELSE Credited(PrimarySaleAuction, round[t].leader))
      /\ UNCHANGED <<holder, locked, listing, offers, swaps, now, events>>
  BY DEF PlaceBid, MayBid
<1>2. round[t] \in Round /\ holder[t] = "unminted"  BY <1>1 DEF MarketState, ChainTyped, Custody
<1>3. new \in Round  BY <1>2, PricesAreDollars DEF Round
<1>4. round' = [round EXCEPT ![t] = new]  BY DEF PlaceBid, MarketState, ChainTyped
<1>5. new.open  BY <1>1, <1>2 DEF Round
<1>6. round[t].leader # Nobody => round[t].leader \in Users  BY <1>2 DEF Round
<1>7. credits' \subseteq {Marketplace, PrimarySaleAuction} \X Users
  BY <1>1, <1>6, CreditsTyped DEF MarketState, ChainTyped
<1>. QED  BY <1>1, <1>2, <1>3, <1>4, <1>5, <1>7, RoundStays

LEMMA LeaveStep ==
  ASSUME MarketState, NEW u \in Users, NEW t \in Stones, Leave(u, t)
  PROVE  MarketState'
<1>. PICK new : new = [round[t] EXCEPT !.leader = Nobody, !.usd = 0]  OBVIOUS
<1>1. round[t] \in Round  BY DEF MarketState, ChainTyped
<1>2. /\ new \in Round /\ new.leader = Nobody /\ new.open = round[t].open /\ new.settled = round[t].settled
  BY <1>1 DEF Round
<1>3. /\ credits' = credits \cup Credited(PrimarySaleAuction, u)
      /\ UNCHANGED <<holder, locked, listing, offers, swaps, now, events>>
  BY DEF Leave
<1>4. round' = [round EXCEPT ![t] = new]  BY DEF Leave, MarketState, ChainTyped
<1>5. credits' \subseteq {Marketplace, PrimarySaleAuction} \X Users
  BY <1>3, CreditsTyped DEF MarketState, ChainTyped
<1>6. round[t].open /\ ~round[t].settled => holder[t] = "unminted"  BY DEF MarketState, Custody
<1>. QED  BY <1>2, <1>3, <1>4, <1>5, <1>6, RoundStays

LEMMA SettleStep ==
  ASSUME MarketState, NEW t \in Stones, Settle(t)  PROVE MarketState'
<1>. USE DEF MarketState
<1>. PICK new, u : new = [round[t] EXCEPT !.settled = TRUE] /\ u = round[t].leader  OBVIOUS
<1>1. round[t] \in Round  BY DEF ChainTyped
<1>2. u # Nobody /\ ~round[t].settled /\ holder' = [holder EXCEPT ![t] = u]
      /\ UNCHANGED <<locked, listing, offers, swaps, credits, now, events>>
  BY DEF Settle, MaySettle
<1>3. u \in Users /\ new \in Round /\ new.settled /\ new.open = round[t].open /\ new.leader = round[t].leader
  BY <1>1, <1>2 DEF Round
<1>4. round[t].open /\ holder[t] = "unminted"  BY <1>2 DEF Custody
<1>5. round' = [round EXCEPT ![t] = new]  BY DEF Settle, ChainTyped
<1>6. ChainTyped'  BY <1>2, <1>3, <1>5, UsersApart DEF ChainTyped
<1>7. /\ holder'[t] = u /\ round'[t] = new
      /\ \A s \in Stones : s # t => round'[s] = round[s] /\ holder'[s] = holder[s]
  BY <1>2, <1>5 DEF ChainTyped
<1>8. Custody'
  <2>1. \A s \in Stones : holder'[s] = Marketplace <=> holder[s] = Marketplace
    BY <1>3, <1>4, <1>7, UsersApart, ContractsApart
  <2>2. \A s \in locked : holder'[s] \in Users  BY <1>3, <1>7 DEF Custody, ChainTyped
  <2>3. /\ (\A s \in Stones : round[s].leader # Nobody => round[s].open)'
        /\ (\A s \in Stones : round[s].open /\ ~round[s].settled => holder[s] = "unminted")'
    BY <1>3, <1>4, <1>7 DEF Custody
  <2>4. locked' = locked /\ listing' = listing  BY <1>2
  <2>5. (\A s \in Stones : Listed(s) <=> holder[s] = Marketplace)'  BY <2>1, <2>4 DEF Custody, Listed
  <2>6. (\A s \in locked : holder[s] \in Users)'  BY <2>2, <2>4
  <2>. QED  BY <2>3, <2>5, <2>6, Zenon DEF Custody
<1>9. Escrow'
  <2>1. \A s \in Stones : holder'[s] = SwapEscrow <=> holder[s] = SwapEscrow
    BY <1>3, <1>4, <1>7, UsersApart, ContractsApart
  <2>2. \A o \in DOMAIN swaps : swaps[o].gives \in Stones  BY BooksAre
  <2>. QED  BY <1>2, <2>1, <2>2 DEF Escrow
<1>. QED  BY <1>2, <1>6, <1>8, <1>9, BooksStay, LeadersStay

LEMMA RedeemingStep ==
  ASSUME MarketState, Redeeming  PROVE MarketState'
<1>. USE DEF MarketState
<1>1. UNCHANGED <<listing, offers, swaps, round, credits, now, events>>  BY DEF Redeeming
<1>2. PICK t \in Stones :
        \/ holder[t] \in Users /\ locked' = (locked \ {t}) \cup ({t} \ locked) /\ UNCHANGED holder
        \/ t \in locked /\ locked' = locked \ {t} /\ holder' = [holder EXCEPT ![t] = "burned"]
  BY DEF Redeeming
<1>3. holder[t] \in Users  BY <1>2 DEF Custody
<1>4. holder' = holder \/ holder' = [holder EXCEPT ![t] = "burned"]  BY <1>2
<1>5. ChainTyped'  BY <1>1, <1>2, <1>4, ContractsApart DEF ChainTyped
<1>6. /\ \A s \in Stones : s # t => holder'[s] = holder[s]
      /\ holder'[t] \in {holder[t], "burned"}
      /\ t \in locked' => holder'[t] \in Users
  BY <1>2, <1>3 DEF ChainTyped
<1>7. \A s \in locked' : s # t => s \in locked  BY <1>2
<1>8. \A s \in Stones, c \in {Marketplace, SwapEscrow, "unminted"} : holder'[s] = c <=> holder[s] = c
  BY <1>3, <1>6, UsersApart, ContractsApart
<1>9. Custody'
  <2>1. \A s \in locked' : holder'[s] \in Users  BY <1>5, <1>6, <1>7 DEF Custody, ChainTyped
  <2>. QED  BY <1>1, <1>8, <2>1 DEF Custody, Listed
<1>10. Escrow'
  <2>1. \A o \in DOMAIN swaps : swaps[o].gives \in Stones  BY BooksAre
  <2>. QED  BY <1>1, <1>8, <2>1 DEF Escrow
<1>. QED  BY <1>1, <1>5, <1>9, <1>10, BooksStay, LeadersStay

\* Credits, pauses and time.
LEMMA RestStays ==
  ASSUME MarketState, UNCHANGED <<holder, locked, listing, offers, swaps, round, events>>, now' \in Nat,
         credits' \subseteq {Marketplace, PrimarySaleAuction} \X Users
  PROVE  MarketState'
BY BooksStay, EscrowStays, LeadersStay, CustodyStays DEF MarketState, ChainTyped

LEMMA ElsewhereStep ==
  ASSUME MarketState,
         \/ \E t \in Stones : OpenRound(t)
         \/ Redeeming
         \/ \E source \in {Marketplace, PrimarySaleAuction} : Pausing(source)
         \/ Later
  PROVE  MarketState' /\ UNCHANGED <<offers, swaps>>
<1>1. CASE \E t \in Stones : OpenRound(t)  BY <1>1, OpenRoundStep DEF OpenRound
<1>2. CASE Redeeming  BY <1>2, RedeemingStep DEF Redeeming
<1>3. CASE \E source \in {Marketplace, PrimarySaleAuction} : Pausing(source)
  BY <1>3, RestStays DEF Pausing, MarketState, ChainTyped
<1>4. CASE Later  BY <1>4, RestStays DEF Later, MarketState, ChainTyped
<1>. QED  BY <1>1, <1>2, <1>3, <1>4

-----------------------------------------------------------------------------
(* Which button stands where. *)

LEMMA OfferButtons ==
  ASSUME NEW u, NEW id, NEW k, NEW b \in offerColumns(u, id, k)
  PROVE  LET status == OfferStatus(id, k) mine == offers[id].bidder = u IN
         \/ b = Button("cancelOffer", id) /\ status = "Awaiting settlement" /\ mine /\ listingBidReleased(id)
         \/ b = Button("settleListingAuction", offers[id].token) /\ status = "Awaiting settlement" /\ Marketplace \notin paused
         \/ b = Button("refundExpiredOffer", id) /\ status = "Expired" /\ mine
         \/ b = Button("cancelOffer", id) /\ status = "Pending" /\ mine /\ (~Automatic(id) \/ Marketplace \in paused)
         \/ b = Button("acceptOffer", id) /\ status = "Pending" /\ holder[offers[id].token] = u /\ ~Automatic(id)
<1>. DEFINE status == OfferStatus(id, k) mine == offers[id].bidder = u
            free == ~Automatic(id) \/ Marketplace \in paused
<1>. HIDE DEF status
<1>1. offerColumns(u, id, k) =
        CASE status = "Awaiting settlement" ->
               When(mine /\ listingBidReleased(id), "cancelOffer", id)
                 \cup When(Marketplace \notin paused, "settleListingAuction", offers[id].token)
          [] status = "Expired" /\ mine -> {Button("refundExpiredOffer", id)}
          [] status = "Pending" /\ mine /\ free -> {Button("cancelOffer", id)}
          [] status = "Pending" /\ ~(mine /\ free) /\ holder[offers[id].token] = u /\ ~Automatic(id) ->
               {Button("acceptOffer", id)}
          [] OTHER -> {}
  BY DEF offerColumns, status
<1>2. CASE status = "Awaiting settlement"
  <2>1. offerColumns(u, id, k) = When(mine /\ listingBidReleased(id), "cancelOffer", id)
                 \cup When(Marketplace \notin paused, "settleListingAuction", offers[id].token)
    BY <1>1, <1>2
  <2>. QED  BY <1>2, <2>1 DEF When, status
<1>3. CASE status = "Expired" /\ mine
  <2>1. offerColumns(u, id, k) = {Button("refundExpiredOffer", id)}  BY <1>1, <1>3
  <2>. QED  BY <1>3, <2>1 DEF status
<1>4. CASE status = "Pending" /\ mine /\ free
  <2>1. offerColumns(u, id, k) = {Button("cancelOffer", id)}  BY <1>1, <1>4
  <2>. QED  BY <1>4, <2>1 DEF status
<1>5. CASE status = "Pending" /\ ~(mine /\ free) /\ holder[offers[id].token] = u /\ ~Automatic(id)
  <2>1. offerColumns(u, id, k) = {Button("acceptOffer", id)}  BY <1>1, <1>5
  <2>. QED  BY <1>5, <2>1 DEF status
<1>6. CASE /\ ~(status = "Awaiting settlement") /\ ~(status = "Expired" /\ mine)
           /\ ~(status = "Pending" /\ mine /\ free)
           /\ ~(status = "Pending" /\ ~(mine /\ free) /\ holder[offers[id].token] = u /\ ~Automatic(id))
  <2>1. offerColumns(u, id, k) = {}  BY <1>1, <1>6
  <2>. QED  BY <2>1
<1>. QED  BY <1>2, <1>3, <1>4, <1>5, <1>6

LEMMA SwapButtons ==
  ASSUME NEW u, NEW id, NEW k, NEW b \in SwapCard(u, id, k)
  PROVE  \/ b = Button("cancelSwap", id) /\ SwapStatus(id, k) \in {"Active", "Expired"} /\ swaps[id].proposer = u
         \/ /\ b = Button("acceptSwap", id) /\ SwapStatus(id, k) = "Active" /\ swaps[id].wants \notin locked
            /\ holder[swaps[id].wants] = u
BY DEF SwapCard, When

LEMMA GemButtons ==
  ASSUME NEW u, NEW t, NEW k, NEW b \in GemDetailPage(u, t, k)
  PROVE  LET mode == gemPageMode(u, t, k) auction == listingAuctionState(t) IN
         \/ b = Button("settleListingAuction", t) /\ mode \in {"owner-listing", "listing"}
            /\ auction = "ended" /\ Marketplace \notin paused
         \/ b = Button("cancelListing", t) /\ mode = "owner-listing" /\ auction = "none"
         \/ mode = "owner-swap-escrow" /\ \E id \in OwnSwaps(u, t, k) : b = Button("cancelSwap", id)
         \/ b \in {Button("list", t), Button("transferToken", t)} /\ mode = "owner-wallet"
         \/ b = Button("bid", t) /\ mode = "primary-bid" /\ PrimarySaleAuction \notin paused
         \/ b = Button("settleAuction", t) /\ mode = "primary-settle" /\ PrimarySaleAuction \notin paused
         \/ b = Button("buy", t) /\ mode = "listing" /\ auction = "none"
         \/ b = Button("createOffer", t) /\ Marketplace \notin paused
            /\ (mode = "held" \/ (mode = "listing" /\ auction # "ended"))
<1>. DEFINE mode == gemPageMode(u, t, k) auction == listingAuctionState(t)
            settle == When(auction = "ended" /\ Marketplace \notin paused, "settleListingAuction", t)
            offer == When(Marketplace \notin paused, "createOffer", t)
<1>. HIDE DEF mode, auction
<1>1. GemDetailPage(u, t, k) =
        CASE mode = "owner-listing" -> settle \cup When(auction = "none", "cancelListing", t)
          [] mode = "owner-swap-escrow" -> {Button("cancelSwap", id) : id \in OwnSwaps(u, t, k)}
          [] mode = "owner-wallet" -> {Button("list", t), Button("transferToken", t)}
          [] mode = "primary-bid" -> When(PrimarySaleAuction \notin paused, "bid", t)
          [] mode = "primary-settle" -> When(PrimarySaleAuction \notin paused, "settleAuction", t)
          [] mode = "listing" ->
               settle \cup When(auction = "none", "buy", t) \cup (IF auction = "ended" THEN {} ELSE offer)
          [] mode = "held" -> offer
          [] OTHER -> {}
  BY DEF GemDetailPage, mode, auction
<1>. HIDE DEF settle, offer
<1>2. CASE mode = "owner-listing"
  <2>1. GemDetailPage(u, t, k) = settle \cup When(auction = "none", "cancelListing", t)  BY <1>1, <1>2
  <2>. QED  BY <1>2, <2>1 DEF settle, When, mode, auction
<1>3. CASE mode = "owner-swap-escrow"
  <2>1. GemDetailPage(u, t, k) = {Button("cancelSwap", id) : id \in OwnSwaps(u, t, k)}  BY <1>1, <1>3
  <2>. QED  BY <1>3, <2>1 DEF mode
<1>4. CASE mode = "owner-wallet"
  <2>1. GemDetailPage(u, t, k) = {Button("list", t), Button("transferToken", t)}  BY <1>1, <1>4
  <2>. QED  BY <1>4, <2>1 DEF mode
<1>5. CASE mode = "primary-bid"
  <2>1. GemDetailPage(u, t, k) = When(PrimarySaleAuction \notin paused, "bid", t)  BY <1>1, <1>5
  <2>. QED  BY <1>5, <2>1 DEF When, mode
<1>6. CASE mode = "primary-settle"
  <2>1. GemDetailPage(u, t, k) = When(PrimarySaleAuction \notin paused, "settleAuction", t)  BY <1>1, <1>6
  <2>. QED  BY <1>6, <2>1 DEF When, mode
<1>7. CASE mode = "listing"
  <2>1. GemDetailPage(u, t, k) =
          settle \cup When(auction = "none", "buy", t) \cup (IF auction = "ended" THEN {} ELSE offer)
    BY <1>1, <1>7
  <2>. QED  BY <1>7, <2>1 DEF settle, offer, When, mode, auction
<1>8. CASE mode = "held"
  <2>1. GemDetailPage(u, t, k) = offer  BY <1>1, <1>8
  <2>. QED  BY <1>8, <2>1 DEF offer, When, mode
<1>9. CASE mode \notin {"owner-listing", "owner-swap-escrow", "owner-wallet", "primary-bid", "primary-settle",
                        "listing", "held"}
  <2>1. GemDetailPage(u, t, k) = {}  BY <1>1, <1>9
  <2>. QED  BY <2>1
<1>. QED  BY <1>2, <1>3, <1>4, <1>5, <1>6, <1>7, <1>8, <1>9

LEMMA ModalButtons ==
  ASSUME NEW u, NEW b \in SwapModal(u)
  PROVE  \E gives, wants \in Stones :
           /\ b = Button("createSwap", <<gives, wants>>)
           /\ directSwapOwner(u, gives) = "viewer" /\ directSwapOwner(u, wants) = "other"
BY DEF SwapModal

LEMMA RowButtons ==
  ASSUME NEW u, NEW t, NEW b \in AuctionRow(u, t)
  PROVE  b = Button("cancelAuctionBid", t) /\ round[t].open /\ primaryBidWithdrawable(u, t)
BY DEF AuctionRow, When

LEMMA RefundButtons ==
  ASSUME ChainTyped, NEW u, NEW b \in getPendingRefunds(u)
  PROVE  \E source \in {Marketplace, PrimarySaleAuction} :
           b = Button("claimRefund", source) /\ <<source, u>> \in credits
<1>1. PICK c \in credits : c[2] = u /\ b = Button("claimRefund", c[1])  BY DEF getPendingRefunds
<1>2. c \in {Marketplace, PrimarySaleAuction} \X Users  BY DEF ChainTyped
<1>3. c = <<c[1], c[2]>> /\ c[1] \in {Marketplace, PrimarySaleAuction}  BY <1>2
<1>. QED  BY <1>1, <1>3

LEMMA ButtonsAre ==
  ASSUME NEW u, NEW k, NEW b \in Buttons(u, k)
  PROVE  \/ \E id \in OffersOf(u, k) : b \in offerColumns(u, id, k)
         \/ \E id \in groupActionableSwaps(u, k) : b \in SwapCard(u, id, k)
         \/ \E t \in Stones : b \in GemDetailPage(u, t, k) \/ b \in AuctionRow(u, t)
         \/ b \in getPendingRefunds(u)
         \/ b \in SwapModal(u)
BY DEF Buttons

-----------------------------------------------------------------------------
(* The calls a button hands to the wallet, and what the contracts ask of them. *)

DirectCalls ==
  {"cancelOffer", "cancelListing", "settleListingAuction", "cancelSwap", "cancelAuctionBid", "settleAuction",
   "claimRefund"}
LEMMA DirectPlans ==
  ASSUME NEW u, NEW on, NEW fn \in DirectCalls
  PROVE  Plans(u, Button(fn, on)) = {Call(fn, on)}
<1>1. \A b : b.fn \in DirectCalls => Plans(u, b) = DirectPlan(u, b.fn, b.on)  BY DEF Plans, DirectCalls
<1>2. Button(fn, on).fn = fn /\ Button(fn, on).on = on  BY DEF Button
<1>. QED  BY <1>1, <1>2 DEF DirectPlan

LEMMA PlansAre ==
  ASSUME NEW u, NEW on
  PROVE  /\ Plans(u, Button("buy", on)) = BuyPlan(u, on)
         /\ Plans(u, Button("createOffer", on)) = OfferPlan(u, on)
         /\ Plans(u, Button("bid", on)) = BidPlan(u, on)
         /\ Plans(u, Button("list", on)) = ListPlan(u, on)
         /\ Plans(u, Button("refundExpiredOffer", on)) = RefundPlan(u, on)
         /\ Plans(u, Button("createSwap", on)) = CreateSwapPlan(u, on[1], on[2])
         /\ Plans(u, Button("acceptSwap", on)) = AcceptSwapPlan(u, on)
         /\ Plans(u, Button("transferToken", on)) = TransferPlan(u, on)
         /\ Plans(u, Button("acceptOffer", on)) = AcceptOfferPlan(u, on)
<1>3. Plans(u, Button("buy", on)) = BuyPlan(u, on)  BY DEF Plans, Button
<1>4. Plans(u, Button("createOffer", on)) = OfferPlan(u, on)  BY DEF Plans, Button
<1>5. Plans(u, Button("bid", on)) = BidPlan(u, on)  BY DEF Plans, Button
<1>6. Plans(u, Button("list", on)) = ListPlan(u, on)  BY DEF Plans, Button
<1>7. Plans(u, Button("refundExpiredOffer", on)) = RefundPlan(u, on)  BY DEF Plans, Button
<1>8. Plans(u, Button("createSwap", on)) = CreateSwapPlan(u, on[1], on[2])  BY DEF Plans, Button
<1>9. Plans(u, Button("acceptSwap", on)) = AcceptSwapPlan(u, on)  BY DEF Plans, Button
<1>10. Plans(u, Button("transferToken", on)) = TransferPlan(u, on)  BY DEF Plans, Button
<1>11. Plans(u, Button("acceptOffer", on)) = AcceptOfferPlan(u, on)  BY DEF Plans, Button
<1>. QED  BY <1>3, <1>4, <1>5, <1>6, <1>7, <1>8, <1>9, <1>10, <1>11

LEMMA TakenIs ==
  ASSUME NEW u, NEW c
  PROVE  /\ c.fn = "buy" => Taken(u, c) = MayBuy(u, c.on, c.amount)
         /\ c.fn = "list" => Taken(u, c) = MayList(u, c.on)
         /\ c.fn = "cancelListing" => Taken(u, c) = MayUnlist(u, c.on)
         /\ c.fn = "createOffer" => Taken(u, c) = MayOffer(u, c.on, c.amount)
         /\ c.fn = "acceptOffer" => Taken(u, c) = MayAccept(u, c.on)
         /\ c.fn = "cancelOffer" => Taken(u, c) = MayWithdraw(u, c.on)
         /\ c.fn = "settleListingAuction" => Taken(u, c) = MaySettleListing(c.on)
         /\ c.fn = "createSwap" => Taken(u, c) = MaySwap(u, c.on[1], c.on[2])
         /\ c.fn = "acceptSwap" => Taken(u, c) = MayTakeSwap(u, c.on)
         /\ c.fn = "cancelSwap" => Taken(u, c) = MayCancelSwap(u, c.on)
         /\ c.fn = "bid" => Taken(u, c) = MayBid(u, c.on, c.amount)
         /\ c.fn = "cancelAuctionBid" => Taken(u, c) = MayLeave(u, c.on)
         /\ c.fn = "settleAuction" => Taken(u, c) = MaySettle(c.on)
         /\ c.fn = "claimRefund" => Taken(u, c) = MayClaim(c.on, u)
         /\ c.fn = "safeTransferFrom" => Taken(u, c) = (c.from = u /\ MaySend(u, c.on))
BY DEF Taken
-----------------------------------------------------------------------------
(* What the pages show is what the contracts have. *)

LEMMA ReplayedIsLogged ==
  ASSUME MarketState, NEW name, NEW id  PROVE Replayed(Whole, name, id) <=> Logged(name, id)
<1>1. DOMAIN events = 1..Len(events) /\ \A i \in DOMAIN events : events[i] \in Entry
  BY DEF MarketState, BooksTyped
<1>2. \A e \in Entry : e = LogEntry(name, id) <=> e.name = name /\ e.id = id  BY DEF Entry, LogEntry
<1>. QED  BY <1>1, <1>2 DEF Replayed, Whole, Logged, Log

LEMMA OffersAreShown ==
  ASSUME MarketState
  PROVE  /\ OffersShown(Whole) = DOMAIN offers
         /\ \A id \in DOMAIN offers :
              /\ OfferStatus(id, Whole) = "Pending" <=> Live(id) /\ now < offers[id].expiry
              /\ OfferStatus(id, Whole) = "Awaiting settlement" <=> Live(id) /\ now >= offers[id].expiry /\ Automatic(id)
              /\ OfferStatus(id, Whole) = "Expired" <=> Live(id) /\ now >= offers[id].expiry /\ ~Automatic(id)
<1>1. OffersShown(Whole) = DOMAIN offers
  BY ReplayedIsLogged DEF OffersShown, MarketState, OfferBook
<1>2. ASSUME NEW id \in DOMAIN offers
      PROVE  /\ OfferStatus(id, Whole) = "Pending" <=> Live(id) /\ now < offers[id].expiry
             /\ OfferStatus(id, Whole) = "Awaiting settlement" <=> Live(id) /\ now >= offers[id].expiry /\ Automatic(id)
             /\ OfferStatus(id, Whole) = "Expired" <=> Live(id) /\ now >= offers[id].expiry /\ ~Automatic(id)
  <2>1. Live(id) => ~Replayed(Whole, "OfferAccepted", id) /\ ~Replayed(Whole, "OfferCancelled", id)
    BY ReplayedIsLogged DEF Live, MarketState, OfferBook
  <2>2. now \in Nat /\ offers[id].expiry \in Nat  BY BooksAre DEF MarketState, ChainTyped
  <2>. QED  BY <2>1, <2>2 DEF OfferStatus
<1>. QED  BY <1>1, <1>2

LEMMA SwapsAreShown ==
  ASSUME MarketState
  PROVE  /\ SwapsShown(Whole) = DOMAIN swaps
         /\ \A id \in DOMAIN swaps :
              /\ SwapStatus(id, Whole) \in {"Active", "Expired"} <=> swaps[id].active
              /\ SwapStatus(id, Whole) = "Active" <=> swaps[id].active /\ now < swaps[id].expiry
<1>1. SwapsShown(Whole) = DOMAIN swaps
  BY ReplayedIsLogged DEF SwapsShown, MarketState, SwapBook
<1>2. ASSUME NEW id \in DOMAIN swaps
      PROVE  /\ SwapStatus(id, Whole) \in {"Active", "Expired"} <=> swaps[id].active
             /\ SwapStatus(id, Whole) = "Active" <=> swaps[id].active /\ now < swaps[id].expiry
  <2>1. swaps[id].active <=> ~Replayed(Whole, "SwapAccepted", id) /\ ~Replayed(Whole, "SwapCancelled", id)
    BY ReplayedIsLogged DEF MarketState, SwapBook
  <2>2. now \in Nat /\ swaps[id].expiry \in Nat  BY BooksAre DEF MarketState, ChainTyped
  <2>. QED  BY <2>1, <2>2 DEF SwapStatus
<1>. QED  BY <1>1, <1>2

LEMMA OwnSwapsAre ==
  ASSUME MarketState, NEW u, NEW t
  PROVE  OwnSwaps(u, t, Whole) =
           {id \in DOMAIN swaps : swaps[id].active /\ swaps[id].gives = t /\ swaps[id].proposer = u}
<1>1. \A id \in DOMAIN swaps : swaps[id].active => holder[swaps[id].gives] = SwapEscrow
  BY DEF MarketState, Escrow
<1>. QED  BY <1>1, SwapsAreShown DEF OwnSwaps

LEMMA ModesAre ==
  ASSUME MarketState, NEW u \in Users, NEW t \in Stones
  PROVE  LET mode == gemPageMode(u, t, Whole) IN
         /\ mode = "owner-listing" <=> listing[t].seller = u
         /\ mode = "owner-swap-escrow" <=> OwnSwaps(u, t, Whole) # {}
         /\ mode = "owner-wallet" <=> holder[t] = u /\ t \notin locked
         /\ mode = "listing" <=> Listed(t) /\ listing[t].seller # u
         /\ mode = "held" => Exists(t) /\ ~Listed(t)
         /\ mode = "primary-bid" => round[t].open /\ ~round[t].settled /\ now < round[t].end
         /\ mode = "primary-settle" <=> /\ round[t].open /\ ~round[t].settled /\ now >= round[t].end
                                        /\ round[t].leader # Nobody
<1>1. /\ u # Nobody /\ u \notin {Marketplace, SwapEscrow, "unminted", "burned"}
      /\ Marketplace \notin Users \cup {SwapEscrow, "unminted", "burned"}
      /\ SwapEscrow \notin Users \cup {"unminted", "burned"}
      /\ "unminted" \notin Users /\ "burned" \notin Users
  BY UsersApart, ContractsApart
<1>2. Listed(t) <=> holder[t] = Marketplace  BY DEF MarketState, Custody
<1>3. listing[t].seller = u => holder[t] = Marketplace  BY <1>1, <1>2 DEF Listed
<1>4. t \in locked => holder[t] \in Users  BY DEF MarketState, Custody
<1>5. OwnSwaps(u, t, Whole) # {} => holder[t] = SwapEscrow  BY DEF OwnSwaps
<1>6. round[t].open /\ ~round[t].settled => holder[t] = "unminted"  BY DEF MarketState, Custody
<1>7. now \in Nat /\ round[t].end \in Nat  BY DEF MarketState, ChainTyped, Round
<1>8. CASE holder[t] = "unminted"  BY <1>1, <1>2, <1>3, <1>4, <1>5, <1>7, <1>8 DEF gemPageMode
<1>9. CASE holder[t] # "unminted"
  <2>1. CASE holder[t] = "burned"  BY <1>1, <1>2, <1>3, <1>4, <1>5, <1>6, <1>9, <2>1 DEF gemPageMode
  <2>2. CASE t \in locked  BY <1>1, <1>2, <1>3, <1>4, <1>5, <1>6, <1>9, <2>2 DEF gemPageMode
  <2>3. CASE holder[t] # "burned" /\ t \notin locked
    BY <1>1, <1>2, <1>3, <1>4, <1>5, <1>6, <1>9, <2>3 DEF gemPageMode, Exists
  <2>. QED  BY <2>1, <2>2, <2>3
<1>. QED  BY <1>8, <1>9

\* A stone has one owner's page: where it is, and who put it there.
LEMMA OneOwner == MarketState => OneOwnersPage
<1>. SUFFICES ASSUME MarketState, NEW t \in Stones \ locked, Exists(t)
              PROVE  \E u \in Users : {u} = {v \in Users : gemPageMode(v, t, Whole) \in OwnerModes}
  BY DEF OneOwnersPage
<1>. DEFINE own(v) == \/ listing[t].seller = v \/ holder[t] = v
                      \/ \E id \in DOMAIN swaps : swaps[id].active /\ swaps[id].gives = t /\ swaps[id].proposer = v
<1>1. \A v \in Users : gemPageMode(v, t, Whole) \in OwnerModes <=> own(v)
  BY ModesAre, OwnSwapsAre DEF OwnerModes
<1>. SUFFICES \E u \in Users : \A v \in Users : own(v) <=> v = u
  <2>1. PICK u \in Users : \A v \in Users : own(v) <=> v = u  OBVIOUS
  <2>. HIDE DEF own
  <2>. QED  BY <1>1, <2>1
<1>2. /\ Listed(t) <=> holder[t] = Marketplace
      /\ holder[t] \in Users \cup {Marketplace, SwapEscrow}
      /\ listing[t].seller \in Users \cup {Nobody}
      /\ \A id \in DOMAIN swaps : swaps[id].active /\ swaps[id].gives = t => holder[t] = SwapEscrow
  BY DEF MarketState, Custody, ChainTyped, Holders, Ask, Exists, Escrow
<1>3. CASE holder[t] \in Users
  BY <1>2, <1>3, UsersApart DEF Listed
<1>4. CASE holder[t] = Marketplace
  BY <1>2, <1>4, UsersApart, ContractsApart DEF Listed
<1>5. CASE holder[t] = SwapEscrow
  <2>1. PICK id \in DOMAIN swaps : swaps[id].active /\ swaps[id].gives = t  BY <1>5 DEF MarketState, Escrow
  <2>2. \A other \in DOMAIN swaps : swaps[other].active /\ swaps[other].gives = t => other = id
    BY <2>1 DEF MarketState, Escrow
  <2>3. \A v \in Users : listing[t].seller # v /\ holder[t] # v
    BY <1>2, <1>5, UsersApart, ContractsApart DEF Listed
  <2>. QED  BY <2>1, <2>2, <2>3, BooksAre
<1>. QED  BY <1>2, <1>3, <1>4, <1>5
-----------------------------------------------------------------------------
(* Every button is good: its calls are about things that exist, and the     *)
(* contracts take them.                                                     *)

Good(u, b) ==
  /\ \A c \in Plans(u, b) : WellFormed(c) /\ (~AcceptsLocked(b) => Taken(u, c))
  /\ Plans(u, b) = {} => b.fn \in {"bid", "createOffer"}

\* Of the buttons that hand over one call, which reads nothing first.
LEMMA DirectIsGood ==
  ASSUME NEW u, NEW on, NEW fn \in DirectCalls, WellFormed(Call(fn, on)), Taken(u, Call(fn, on))
  PROVE  Good(u, Button(fn, on))
<1>1. Plans(u, Button(fn, on)) = {Call(fn, on)}  BY DirectPlans
<1>. QED  BY <1>1 DEF Good

LEMMA SettleListingIsGood ==
  ASSUME MarketState, NEW u \in Users, NEW t \in Stones, MaySettleListing(t)
  PROVE  Good(u, Button("settleListingAuction", t))
<1>1. WellFormed(Call("settleListingAuction", t))  BY DEF WellFormed, Call, StoneCalls
<1>2. Taken(u, Call("settleListingAuction", t))  BY TakenIs DEF Call
<1>. QED  BY <1>1, <1>2, DirectIsGood DEF DirectCalls

LEMMA CancelOfferIsGood ==
  ASSUME MarketState, NEW u \in Users, NEW id \in DOMAIN offers, MayWithdraw(u, id)
  PROVE  Good(u, Button("cancelOffer", id)) /\ Good(u, Button("refundExpiredOffer", id))
<1>1. WellFormed(Call("cancelOffer", id))  BY DEF WellFormed, Call, StoneCalls
<1>2. Taken(u, Call("cancelOffer", id))  BY TakenIs DEF Call
<1>3. Good(u, Button("cancelOffer", id))  BY <1>1, <1>2, DirectIsGood DEF DirectCalls
<1>4. Plans(u, Button("refundExpiredOffer", id)) = {Call("cancelOffer", id)}
  BY PlansAre DEF RefundPlan, MayWithdraw
<1>. QED  BY <1>1, <1>2, <1>3, <1>4 DEF Good

LEMMA CancelSwapIsGood ==
  ASSUME MarketState, NEW u \in Users, NEW id \in DOMAIN swaps, MayCancelSwap(u, id)
  PROVE  Good(u, Button("cancelSwap", id))
<1>1. WellFormed(Call("cancelSwap", id))  BY DEF WellFormed, Call, StoneCalls
<1>2. Taken(u, Call("cancelSwap", id))  BY TakenIs DEF Call
<1>. QED  BY <1>1, <1>2, DirectIsGood DEF DirectCalls

LEMMA OfferButtonIsGood ==
  ASSUME MarketState, NEW u \in Users, NEW id \in DOMAIN offers, NEW b \in offerColumns(u, id, Whole)
  PROVE  Good(u, b)
<1>. DEFINE status == OfferStatus(id, Whole)
<1>1. /\ now \in Nat /\ offers[id].expiry \in Nat /\ offers[id].token \in Stones /\ id # 0
      /\ status = "Pending" => Live(id) /\ now < offers[id].expiry
      /\ status = "Awaiting settlement" => Live(id) /\ now >= offers[id].expiry /\ Automatic(id)
      /\ status = "Expired" => Live(id) /\ now >= offers[id].expiry /\ ~Automatic(id)
  <2>1. now \in Nat /\ offers[id].expiry \in Nat /\ offers[id].token \in Stones /\ id # 0
    BY BooksAre DEF MarketState, ChainTyped
  <2>. QED  BY <2>1, OffersAreShown
<1>2. CASE /\ b = Button("settleListingAuction", offers[id].token) /\ status = "Awaiting settlement"
           /\ Marketplace \notin paused
  <2>1. listing[offers[id].token].leader = id /\ listing[offers[id].token].end = offers[id].expiry
    BY <1>1, <1>2 DEF Automatic, MarketState, Leaders, Led
  <2>2. MaySettleListing(offers[id].token)  BY <1>1, <1>2, <2>1 DEF MaySettleListing
  <2>. QED  BY <1>1, <1>2, <2>2, SettleListingIsGood
<1>3. CASE /\ b \in {Button("cancelOffer", id), Button("refundExpiredOffer", id)} /\ offers[id].bidder = u
           /\ \/ status = "Awaiting settlement" /\ listingBidReleased(id)
              \/ status = "Expired"
              \/ status = "Pending" /\ (~Automatic(id) \/ Marketplace \in paused)
  <2>1. MayWithdraw(u, id)
    BY <1>1, <1>3 DEF MayWithdraw, Leads, Automatic, Released, listingBidReleased
  <2>. QED  BY <1>3, <2>1, CancelOfferIsGood
<1>4. CASE b = Button("acceptOffer", id) /\ status = "Pending" /\ holder[offers[id].token] = u /\ ~Automatic(id)
  <2>1. Plans(u, b) = {Call("acceptOffer", id)}  BY <1>4, PlansAre DEF AcceptOfferPlan
  <2>2. WellFormed(Call("acceptOffer", id))  BY DEF WellFormed, Call, StoneCalls
  <2>3. ~AcceptsLocked(b) => offers[id].token \notin locked  BY <1>4 DEF AcceptsLocked, Button
  <2>4. ~AcceptsLocked(b) => MayAccept(u, id)
    BY <1>1, <1>4, <2>3 DEF MayAccept, Leads, Automatic
  <2>5. ~AcceptsLocked(b) => Taken(u, Call("acceptOffer", id))  BY <2>4, TakenIs DEF Call
  <2>. QED  BY <2>1, <2>2, <2>5 DEF Good
<1>. HIDE DEF status
<1>5. \/ b = Button("cancelOffer", id) /\ status = "Awaiting settlement" /\ offers[id].bidder = u /\ listingBidReleased(id)
      \/ b = Button("settleListingAuction", offers[id].token) /\ status = "Awaiting settlement" /\ Marketplace \notin paused
      \/ b = Button("refundExpiredOffer", id) /\ status = "Expired" /\ offers[id].bidder = u
      \/ /\ b = Button("cancelOffer", id) /\ status = "Pending" /\ offers[id].bidder = u
         /\ ~Automatic(id) \/ Marketplace \in paused
      \/ b = Button("acceptOffer", id) /\ status = "Pending" /\ holder[offers[id].token] = u /\ ~Automatic(id)
  BY OfferButtons DEF status
<1>. QED  BY <1>2, <1>3, <1>4, <1>5

LEMMA SwapButtonIsGood ==
  ASSUME MarketState, NEW u \in Users, NEW id \in DOMAIN swaps, NEW b \in SwapCard(u, id, Whole)
  PROVE  Good(u, b)
<1>1. CASE b = Button("cancelSwap", id) /\ SwapStatus(id, Whole) \in {"Active", "Expired"} /\ swaps[id].proposer = u
  BY <1>1, SwapsAreShown, CancelSwapIsGood DEF MayCancelSwap
<1>2. CASE /\ b = Button("acceptSwap", id) /\ SwapStatus(id, Whole) = "Active" /\ swaps[id].wants \notin locked
           /\ holder[swaps[id].wants] = u
  <2>1. swaps[id].active /\ now < swaps[id].expiry /\ swaps[id].expiry \in Nat /\ now \in Nat
    BY <1>2, SwapsAreShown, BooksAre DEF MarketState, ChainTyped
  <2>2. Plans(u, b) = {Call("acceptSwap", id)}
    BY <1>2, <2>1, PlansAre DEF AcceptSwapPlan
  <2>3. WellFormed(Call("acceptSwap", id))  BY DEF WellFormed, Call, StoneCalls
  <2>4. Taken(u, Call("acceptSwap", id))
    <3>1. MayTakeSwap(u, id)  BY <1>2, <2>1 DEF MayTakeSwap
    <3>. QED  BY <3>1, TakenIs DEF Call
  <2>. QED  BY <2>2, <2>3, <2>4 DEF Good
<1>. QED  BY <1>1, <1>2, SwapButtons

LEMMA ModalButtonIsGood ==
  ASSUME MarketState, NEW u \in Users, NEW b \in SwapModal(u)
  PROVE  Good(u, b)
<1>1. PICK gives \in Stones, wants \in Stones :
        /\ b = Button("createSwap", <<gives, wants>>)
        /\ directSwapOwner(u, gives) = "viewer" /\ directSwapOwner(u, wants) = "other"
  BY ModalButtons
<1>2. /\ holder[gives] = u /\ gives \notin locked
      /\ Exists(wants) /\ holder[wants] # u /\ wants \notin locked /\ holder[wants] \notin {Marketplace, SwapEscrow}
  BY <1>1 DEF directSwapOwner, Nobody
<1>. PICK pair : pair = <<gives, wants>>  OBVIOUS
<1>3. pair[1] = gives /\ pair[2] = wants  OBVIOUS
<1>4. Plans(u, b) = {Call("createSwap", pair)}
  <2>1. Plans(u, b) = CreateSwapPlan(u, gives, wants)  BY <1>1, <1>3, PlansAre
  <2>. QED  BY <1>2, <2>1 DEF CreateSwapPlan
<1>5. WellFormed(Call("createSwap", pair))  BY <1>3 DEF WellFormed, Call, StoneCalls
<1>6. Taken(u, Call("createSwap", pair))
  <2>1. MaySwap(u, gives, wants)  BY <1>2 DEF MaySwap
  <2>. QED  BY <1>3, <2>1, TakenIs DEF Call
<1>. QED  BY <1>4, <1>5, <1>6 DEF Good
LEMMA MinimumIsShown ==
  ASSUME MarketState, NEW t \in Stones, Listed(t)  PROVE OfferMinimum(t, Whole) = MinimumBid(t)
<1>1. CASE listing[t].leader = 0
  <2>1. ShownLeader(t, Whole) = {}
    <3>1. \A id \in OffersShown(Whole) : id # 0
      <4>1. OffersShown(Whole) = DOMAIN offers  BY OffersAreShown, Zenon
      <4>2. \A id \in DOMAIN offers : id # 0  BY BooksAre
      <4>. QED  BY <4>1, <4>2, Zenon
    <3>. QED  BY <1>1, <3>1 DEF ShownLeader, Automatic
  <2>. QED  BY <1>1, <2>1 DEF OfferMinimum, MinimumBid
<1>2. CASE listing[t].leader # 0
  <2>. PICK id : id = listing[t].leader  OBVIOUS
  <2>1. id \in DOMAIN offers /\ Live(id) /\ offers[id].token = t /\ Automatic(id)
    BY <1>2 DEF MarketState, Leaders, Led, Live, Automatic
  <2>2. OfferStatus(id, Whole) \in {"Pending", "Awaiting settlement"}
    <3>1. now \in Nat /\ offers[id].expiry \in Nat  BY <2>1, BooksAre DEF MarketState, ChainTyped
    <3>2. CASE now < offers[id].expiry  BY <2>1, <3>2, OffersAreShown
    <3>3. CASE now >= offers[id].expiry  BY <2>1, <3>3, OffersAreShown
    <3>4. now < offers[id].expiry \/ now >= offers[id].expiry  BY <3>1
    <3>. QED  BY <3>2, <3>3, <3>4
  <2>3. ShownLeader(t, Whole) = {id}
    BY <2>1, <2>2, OffersAreShown DEF ShownLeader, Automatic
  <2>4. (CHOOSE i \in ShownLeader(t, Whole) : TRUE) = id  BY <2>3
  <2>. QED  BY <1>2, <2>3, <2>4 DEF OfferMinimum, MinimumBid
<1>. QED  BY <1>1, <1>2

LEMMA GemButtonIsGood ==
  ASSUME MarketState, NEW u \in Users, NEW t \in Stones, NEW b \in GemDetailPage(u, t, Whole)
  PROVE  Good(u, b)
<1>. DEFINE mode == gemPageMode(u, t, Whole) auction == listingAuctionState(t)
<1>1. /\ mode = "owner-listing" <=> listing[t].seller = u
      /\ mode = "owner-wallet" <=> holder[t] = u /\ t \notin locked
      /\ mode = "listing" <=> Listed(t) /\ listing[t].seller # u
      /\ mode = "held" => Exists(t) /\ ~Listed(t)
      /\ mode = "primary-bid" => round[t].open /\ ~round[t].settled /\ now < round[t].end
      /\ mode = "primary-settle" <=> /\ round[t].open /\ ~round[t].settled /\ now >= round[t].end
                                     /\ round[t].leader # Nobody
  BY ModesAre
<1>2. /\ auction = "none" <=> listing[t].leader = 0
      /\ auction = "ended" <=> listing[t].leader # 0 /\ now >= listing[t].end
  BY DEF listingAuctionState
<1>3. /\ now \in Nat /\ listing[t].end \in Nat /\ listing[t].ask \in Nat
      /\ Listed(t) => holder[t] = Marketplace /\ Exists(t) /\ t \notin locked
  BY ContractsApart DEF MarketState, ChainTyped, Ask, Custody, Exists
<1>. HIDE DEF mode, auction
<1>4. CASE b = Button("settleListingAuction", t) /\ auction = "ended" /\ Marketplace \notin paused
  BY <1>2, <1>4, SettleListingIsGood DEF MaySettleListing
<1>5. CASE b = Button("cancelListing", t) /\ mode = "owner-listing" /\ auction = "none"
  <2>1. MayUnlist(u, t)  BY <1>1, <1>2, <1>5 DEF MayUnlist
  <2>2. WellFormed(Call("cancelListing", t))  BY DEF WellFormed, Call, StoneCalls
  <2>3. Taken(u, Call("cancelListing", t))  BY <2>1, TakenIs DEF Call
  <2>. QED  BY <1>5, <2>2, <2>3, DirectIsGood DEF DirectCalls
<1>6. CASE mode = "owner-swap-escrow" /\ \E id \in OwnSwaps(u, t, Whole) : b = Button("cancelSwap", id)
  <2>1. PICK id \in DOMAIN swaps : b = Button("cancelSwap", id) /\ swaps[id].active /\ swaps[id].proposer = u
    BY <1>6, OwnSwapsAre
  <2>. QED  BY <2>1, CancelSwapIsGood DEF MayCancelSwap
<1>7. CASE b = Button("list", t) /\ mode = "owner-wallet"
  <2>1. MayList(u, t)  BY <1>1, <1>7 DEF MayList
  <2>2. Plans(u, b) = {[fn |-> "list", on |-> t, amount |-> usd] : usd \in Prices}
    BY <1>7, PlansAre DEF ListPlan
  <2>3. ASSUME NEW usd \in Prices, NEW c, c = [fn |-> "list", on |-> t, amount |-> usd]
        PROVE  WellFormed(c) /\ Taken(u, c)
    <3>1. c.fn = "list" /\ c.on = t /\ c.amount = usd  BY <2>3
    <3>. QED  BY <2>1, <3>1, TakenIs DEF WellFormed, StoneCalls
  <2>4. Plans(u, b) # {}  BY <2>2, PricesAreDollars
  <2>. QED  BY <2>2, <2>3, <2>4 DEF Good
<1>8. CASE b = Button("transferToken", t) /\ mode = "owner-wallet"
  <2>1. MaySend(u, t) /\ holder[t] = u /\ u # Marketplace  BY <1>1, <1>8, UsersApart DEF MaySend
  <2>2. Plans(u, b) = {[fn |-> "safeTransferFrom", on |-> t, from |-> u, to |-> v] : v \in Users \ {u}}
    BY <1>8, <2>1, PlansAre DEF TransferPlan, MaySend
  <2>3. ASSUME NEW v \in Users, NEW c, c = [fn |-> "safeTransferFrom", on |-> t, from |-> u, to |-> v]
        PROVE  WellFormed(c) /\ Taken(u, c)
    <3>1. c.fn = "safeTransferFrom" /\ c.on = t /\ c.from = u /\ c.to = v  BY <2>3
    <3>. QED  BY <2>1, <3>1, TakenIs DEF WellFormed, StoneCalls
  <2>4. Plans(u, b) # {}
    <3>1. PICK v \in Users : v # u  BY UsersAreNotContracts
    <3>. QED  BY <2>2, <3>1
  <2>. QED  BY <2>2, <2>3, <2>4 DEF Good
<1>9. CASE b = Button("bid", t) /\ mode = "primary-bid" /\ PrimarySaleAuction \notin paused
  <2>1. Plans(u, b) = {[fn |-> "bid", on |-> t, amount |-> usd] : usd \in {p \in Prices : p >= MinimumBidUsd(t)}}
    BY <1>9, PlansAre DEF BidPlan
  <2>2. ASSUME NEW usd \in Prices, usd >= MinimumBidUsd(t), NEW c, c = [fn |-> "bid", on |-> t, amount |-> usd]
        PROVE  WellFormed(c) /\ Taken(u, c)
    <3>1. c.fn = "bid" /\ c.on = t /\ c.amount = usd  BY <2>2
    <3>2. MayBid(u, t, usd)  BY <1>1, <1>9, <2>2 DEF MayBid, MinimumBidUsd
    <3>. QED  BY <3>1, <3>2, TakenIs DEF WellFormed, StoneCalls
  <2>. QED  BY <1>9, <2>1, <2>2 DEF Good, Button
<1>10. CASE b = Button("settleAuction", t) /\ mode = "primary-settle" /\ PrimarySaleAuction \notin paused
  <2>1. MaySettle(t)  BY <1>1, <1>10 DEF MaySettle
  <2>2. WellFormed(Call("settleAuction", t))  BY DEF WellFormed, Call, StoneCalls
  <2>3. Taken(u, Call("settleAuction", t))  BY <2>1, TakenIs DEF Call
  <2>. QED  BY <1>10, <2>2, <2>3, DirectIsGood DEF DirectCalls
<1>11. CASE b = Button("buy", t) /\ mode = "listing" /\ auction = "none"
  <2>. PICK c : c = [fn |-> "buy", on |-> t, amount |-> listing[t].ask]  OBVIOUS
  <2>1. Plans(u, b) = {c}  BY <1>11, PlansAre DEF BuyPlan
  <2>2. c.fn = "buy" /\ c.on = t /\ c.amount = listing[t].ask  OBVIOUS
  <2>3. MayBuy(u, t, listing[t].ask)  BY <1>1, <1>2, <1>3, <1>11 DEF MayBuy
  <2>4. WellFormed(c)  BY <2>2 DEF WellFormed, StoneCalls
  <2>5. Taken(u, c)  BY <2>2, <2>3, TakenIs
  <2>. QED  BY <2>1, <2>4, <2>5 DEF Good
<1>12. CASE b = Button("createOffer", t) /\ Marketplace \notin paused
            /\ (mode = "held" \/ (mode = "listing" /\ auction # "ended"))
  <2>1. Plans(u, b) =
          {[fn |-> "createOffer", on |-> t, amount |-> usd] : usd \in {p \in Prices : p >= OfferMinimum(t, Whole)}}
    BY <1>12, PlansAre DEF OfferPlan
  <2>2. ASSUME NEW usd \in Prices, usd >= OfferMinimum(t, Whole), NEW c,
               c = [fn |-> "createOffer", on |-> t, amount |-> usd]
        PROVE  WellFormed(c) /\ Taken(u, c)
    <3>1. c.fn = "createOffer" /\ c.on = t /\ c.amount = usd  BY <2>2
    <3>2. MayOffer(u, t, usd)
      <4>1. Listed(t) => usd >= MinimumBid(t)  BY <2>2, MinimumIsShown
      <4>2. Listed(t) /\ listing[t].leader # 0 => now < listing[t].end  BY <1>1, <1>2, <1>3, <1>12
      <4>. QED  BY <1>1, <1>3, <1>12, <4>1, <4>2 DEF MayOffer
    <3>. QED  BY <3>1, <3>2, TakenIs DEF WellFormed, StoneCalls
  <2>. QED  BY <1>12, <2>1, <2>2 DEF Good, Button
<1>13. \/ b = Button("settleListingAuction", t) /\ auction = "ended" /\ Marketplace \notin paused
       \/ b = Button("cancelListing", t) /\ mode = "owner-listing" /\ auction = "none"
       \/ mode = "owner-swap-escrow" /\ \E id \in OwnSwaps(u, t, Whole) : b = Button("cancelSwap", id)
       \/ b \in {Button("list", t), Button("transferToken", t)} /\ mode = "owner-wallet"
       \/ b = Button("bid", t) /\ mode = "primary-bid" /\ PrimarySaleAuction \notin paused
       \/ b = Button("settleAuction", t) /\ mode = "primary-settle" /\ PrimarySaleAuction \notin paused
       \/ b = Button("buy", t) /\ mode = "listing" /\ auction = "none"
       \/ b = Button("createOffer", t) /\ Marketplace \notin paused
          /\ (mode = "held" \/ (mode = "listing" /\ auction # "ended"))
  BY GemButtons DEF mode, auction
<1>. QED  BY <1>4, <1>5, <1>6, <1>7, <1>8, <1>9, <1>10, <1>11, <1>12, <1>13

LEMMA RowButtonIsGood ==
  ASSUME MarketState, NEW u \in Users, NEW t \in Stones, NEW b \in AuctionRow(u, t)
  PROVE  Good(u, b)
<1>1. b = Button("cancelAuctionBid", t) /\ MayLeave(u, t)
  BY RowButtons DEF primaryBidWithdrawable, MayLeave
<1>2. WellFormed(Call("cancelAuctionBid", t))  BY DEF WellFormed, Call, StoneCalls
<1>3. Taken(u, Call("cancelAuctionBid", t))  BY <1>1, TakenIs DEF Call
<1>. QED  BY <1>1, <1>2, <1>3, DirectIsGood DEF DirectCalls

LEMMA RefundButtonIsGood ==
  ASSUME MarketState, NEW u \in Users, NEW b \in getPendingRefunds(u)
  PROVE  Good(u, b)
<1>1. PICK source \in {Marketplace, PrimarySaleAuction} :
        b = Button("claimRefund", source) /\ MayClaim(source, u)
  BY RefundButtons DEF MarketState, MayClaim
<1>2. WellFormed(Call("claimRefund", source))  BY DEF WellFormed, Call, StoneCalls
<1>3. Taken(u, Call("claimRefund", source))  BY <1>1, TakenIs DEF Call
<1>. QED  BY <1>1, <1>2, <1>3, DirectIsGood DEF DirectCalls

LEMMA ButtonIsGood ==
  ASSUME MarketState, NEW u \in Users, NEW b \in Buttons(u, Whole)
  PROVE  Good(u, b)
<1>1. OffersOf(u, Whole) \subseteq DOMAIN offers /\ groupActionableSwaps(u, Whole) \subseteq DOMAIN swaps
  BY DEF OffersOf, OffersShown, groupActionableSwaps, SwapsShown
<1>2. \/ \E id \in OffersOf(u, Whole) : b \in offerColumns(u, id, Whole)
      \/ \E id \in groupActionableSwaps(u, Whole) : b \in SwapCard(u, id, Whole)
      \/ \E t \in Stones : b \in GemDetailPage(u, t, Whole) \/ b \in AuctionRow(u, t)
      \/ b \in getPendingRefunds(u)
      \/ b \in SwapModal(u)
  BY ButtonsAre
<1>. QED  BY <1>1, <1>2, OfferButtonIsGood, SwapButtonIsGood, GemButtonIsGood, RowButtonIsGood,
             RefundButtonIsGood, ModalButtonIsGood

LEMMA GoodIsTaken == MarketState => OfferedIsTaken
BY ButtonIsGood DEF OfferedIsTaken, Good
-----------------------------------------------------------------------------
(* What a contract holds is on a button of its owner. *)

LEMMA OnADirectButton ==
  ASSUME NEW u, NEW fn \in DirectCalls, NEW on, Button(fn, on) \in Buttons(u, Whole)
  PROVE  Offered(u, Call(fn, on))
<1>1. Call(fn, on) \in Plans(u, Button(fn, on))  BY DirectPlans
<1>. QED  BY <1>1 DEF Offered

LEMMA ButtonsOfPages ==
  ASSUME NEW u, NEW k
  PROVE  /\ \A id \in OffersOf(u, k) : offerColumns(u, id, k) \subseteq Buttons(u, k)
         /\ \A id \in groupActionableSwaps(u, k) : SwapCard(u, id, k) \subseteq Buttons(u, k)
         /\ \A t \in Stones : GemDetailPage(u, t, k) \cup AuctionRow(u, t) \subseteq Buttons(u, k)
         /\ getPendingRefunds(u) \subseteq Buttons(u, k)
BY DEF Buttons

LEMMA OfferIsReachable ==
  ASSUME MarketState, NEW id \in DOMAIN offers, MayWithdraw(offers[id].bidder, id)
  PROVE  Offered(offers[id].bidder, Call("cancelOffer", id))
<1>. PICK u : u = offers[id].bidder  OBVIOUS
<1>. DEFINE status == OfferStatus(id, Whole)
<1>1. Live(id) /\ (Automatic(id) => Marketplace \in paused \/ now >= offers[id].expiry + SETTLEMENT_GRACE)
  BY DEF MayWithdraw, Leads, Automatic, Released
<1>2. now \in Nat /\ offers[id].expiry \in Nat  BY BooksAre DEF MarketState, ChainTyped
<1>3. now < offers[id].expiry \/ now >= offers[id].expiry  BY <1>2
<1>4. /\ now < offers[id].expiry => status = "Pending"
      /\ now >= offers[id].expiry /\ Automatic(id) => status = "Awaiting settlement"
      /\ now >= offers[id].expiry /\ ~Automatic(id) => status = "Expired"
  BY <1>1, OffersAreShown
<1>5. now < offers[id].expiry /\ Automatic(id) => Marketplace \in paused
  BY <1>1, <1>2 DEF SETTLEMENT_GRACE
<1>. HIDE DEF status
<1>6. status \in {"Pending", "Expired", "Awaiting settlement"}  BY <1>3, <1>4
<1>7. id \in OffersShown(Whole)  BY OffersAreShown
<1>8. id \in OffersOf(u, Whole)  BY <1>6, <1>7 DEF OffersOf, status
<1>9. CASE status = "Expired"
  <2>1. offerColumns(u, id, Whole) = {Button("refundExpiredOffer", id)}
    BY <1>9 DEF offerColumns, status
  <2>2. Plans(u, Button("refundExpiredOffer", id)) = {Call("cancelOffer", id)}
    BY <1>1, PlansAre DEF RefundPlan
  <2>. QED  BY <1>8, <2>1, <2>2, ButtonsOfPages DEF Offered
<1>10. CASE status # "Expired"
  <2>1. Button("cancelOffer", id) \in offerColumns(u, id, Whole)
    <3>1. CASE status = "Pending"
      <4>1. ~Automatic(id) \/ Marketplace \in paused
        <5>1. CASE now < offers[id].expiry  BY <1>5, <5>1
        <5>2. CASE now >= offers[id].expiry  BY <1>4, <3>1, <5>2
        <5>. QED  BY <1>3, <5>1, <5>2
      <4>2. offerColumns(u, id, Whole) = {Button("cancelOffer", id)}
        BY <3>1, <4>1 DEF offerColumns, status
      <4>. QED  BY <4>2
    <3>2. CASE status = "Awaiting settlement"
      <4>1. Automatic(id)  BY <3>2, OffersAreShown DEF status
      <4>2. listingBidReleased(id)  BY <1>1, <4>1 DEF listingBidReleased
      <4>3. offerColumns(u, id, Whole) =
              When(offers[id].bidder = u /\ listingBidReleased(id), "cancelOffer", id)
                \cup When(Marketplace \notin paused, "settleListingAuction", offers[id].token)
        BY <3>2 DEF offerColumns, status
      <4>. QED  BY <4>2, <4>3 DEF When
    <3>. QED  BY <1>6, <1>10, <3>1, <3>2
  <2>. QED  BY <1>8, <2>1, ButtonsOfPages, OnADirectButton DEF DirectCalls
<1>. QED  BY <1>9, <1>10

LEMMA SwapIsReachable ==
  ASSUME MarketState, NEW id \in DOMAIN swaps, MayCancelSwap(swaps[id].proposer, id)
  PROVE  Offered(swaps[id].proposer, Call("cancelSwap", id))
<1>. PICK u : u = swaps[id].proposer  OBVIOUS
<1>1. SwapStatus(id, Whole) \in {"Active", "Expired"} /\ id \in SwapsShown(Whole)
  BY SwapsAreShown DEF MayCancelSwap
<1>2. id \in groupActionableSwaps(u, Whole)  BY <1>1 DEF groupActionableSwaps
<1>3. Button("cancelSwap", id) \in SwapCard(u, id, Whole)  BY <1>1 DEF SwapCard, When
<1>. QED  BY <1>2, <1>3, ButtonsOfPages, OnADirectButton DEF DirectCalls

LEMMA StoneIsReachable ==
  ASSUME MarketState, NEW u \in Users, NEW t \in Stones
  PROVE  /\ MayUnlist(u, t) => Offered(u, Call("cancelListing", t))
         /\ MayLeave(u, t) => Offered(u, Call("cancelAuctionBid", t))
         /\ MaySettleListing(t) => Offered(u, Call("settleListingAuction", t))
         /\ MaySettle(t) => Offered(u, Call("settleAuction", t))
<1>. DEFINE mode == gemPageMode(u, t, Whole) auction == listingAuctionState(t)
<1>1. /\ mode = "owner-listing" <=> listing[t].seller = u
      /\ mode = "listing" <=> Listed(t) /\ listing[t].seller # u
      /\ mode = "primary-settle" <=> /\ round[t].open /\ ~round[t].settled /\ now >= round[t].end
                                     /\ round[t].leader # Nobody
  BY ModesAre
<1>2. /\ auction = "none" <=> listing[t].leader = 0
      /\ auction = "ended" <=> listing[t].leader # 0 /\ now >= listing[t].end
  BY DEF listingAuctionState
<1>. HIDE DEF mode, auction
<1>3. ASSUME NEW fn \in DirectCalls, Button(fn, t) \in GemDetailPage(u, t, Whole) \cup AuctionRow(u, t)
      PROVE  Offered(u, Call(fn, t))
  BY <1>3, ButtonsOfPages, OnADirectButton
<1>4. ASSUME MayUnlist(u, t)  PROVE Offered(u, Call("cancelListing", t))
  <2>1. mode = "owner-listing" /\ auction = "none"  BY <1>1, <1>2, <1>4 DEF MayUnlist
  <2>2. GemDetailPage(u, t, Whole) =
          When(auction = "ended" /\ Marketplace \notin paused, "settleListingAuction", t)
            \cup When(auction = "none", "cancelListing", t)
    BY <2>1 DEF GemDetailPage, mode, auction
  <2>. QED  BY <1>3, <2>1, <2>2 DEF When, DirectCalls
<1>5. ASSUME MayLeave(u, t)  PROVE Offered(u, Call("cancelAuctionBid", t))
  <2>1. round[t].open  BY <1>5, UsersApart DEF MayLeave, MarketState, Custody
  <2>2. Button("cancelAuctionBid", t) \in AuctionRow(u, t)
    BY <1>5, <2>1 DEF AuctionRow, When, primaryBidWithdrawable, MayLeave
  <2>. QED  BY <1>3, <2>2 DEF DirectCalls
<1>6. ASSUME MaySettleListing(t)  PROVE Offered(u, Call("settleListingAuction", t))
  <2>1. Listed(t) /\ auction = "ended" /\ Marketplace \notin paused
    BY <1>2, <1>6 DEF MaySettleListing, MarketState, Leaders, Led
  <2>. DEFINE settle == When(auction = "ended" /\ Marketplace \notin paused, "settleListingAuction", t)
  <2>2. Button("settleListingAuction", t) \in settle  BY <2>1 DEF When
  <2>. HIDE DEF settle
  <2>3. CASE mode = "owner-listing"
    <3>1. GemDetailPage(u, t, Whole) = settle \cup When(auction = "none", "cancelListing", t)
      BY <2>3 DEF GemDetailPage, mode, auction, settle
    <3>. QED  BY <1>3, <2>2, <3>1 DEF DirectCalls
  <2>4. CASE mode = "listing"
    <3>. DEFINE offer == When(Marketplace \notin paused, "createOffer", t)
    <3>1. GemDetailPage(u, t, Whole) =
            settle \cup When(auction = "none", "buy", t) \cup (IF auction = "ended" THEN {} ELSE offer)
      BY <2>4 DEF GemDetailPage, mode, auction, settle
    <3>. QED  BY <1>3, <2>2, <3>1 DEF DirectCalls
  <2>. QED  BY <1>1, <2>1, <2>3, <2>4
<1>7. ASSUME MaySettle(t)  PROVE Offered(u, Call("settleAuction", t))
  <2>1. round[t].open  BY <1>7 DEF MaySettle, MarketState, Custody
  <2>2. mode = "primary-settle" /\ PrimarySaleAuction \notin paused  BY <1>1, <1>7, <2>1 DEF MaySettle
  <2>3. GemDetailPage(u, t, Whole) = When(PrimarySaleAuction \notin paused, "settleAuction", t)
    BY <2>2 DEF GemDetailPage, mode
  <2>. QED  BY <1>3, <2>2, <2>3 DEF When, DirectCalls
<1>. QED  BY <1>4, <1>5, <1>6, <1>7

LEMMA CreditIsReachable ==
  ASSUME NEW u \in Users, NEW source, MayClaim(source, u)
  PROVE  Offered(u, Call("claimRefund", source))
<1>1. Button("claimRefund", source) \in getPendingRefunds(u)
  <2>. PICK c : c = <<source, u>>  OBVIOUS
  <2>1. c \in credits /\ c[1] = source /\ c[2] = u  BY DEF MayClaim
  <2>. QED  BY <2>1 DEF getPendingRefunds
<1>. QED  BY <1>1, ButtonsOfPages, OnADirectButton DEF DirectCalls

LEMMA AllIsReachable == MarketState => HeldIsReachable
BY OfferIsReachable, SwapIsReachable, StoneIsReachable, CreditIsReachable DEF HeldIsReachable

-----------------------------------------------------------------------------
(* The invariant. *)

LEMMA MarketFirst == MarketInit /\ holder \in [Stones -> Users \cup {"unminted", "burned"}] => MarketInv
<1>. SUFFICES ASSUME MarketInit, holder \in [Stones -> Users \cup {"unminted", "burned"}]  PROVE MarketInv
  OBVIOUS
<1>1. \A t \in Stones : holder[t] # Marketplace /\ holder[t] # SwapEscrow  BY UsersApart, ContractsApart
<1>2. holder \in [Stones -> Holders]  BY DEF Holders
<1>3. NotListed \in Ask /\ NotListed.seller = Nobody /\ NotListed.leader = 0  BY NotListedIsAsk
<1>4. NoRound \in Round /\ NoRound.leader = Nobody /\ ~NoRound.open  BY DEF NoRound, Round
<1>5. ChainTyped /\ BooksTyped  BY <1>2, <1>3, <1>4 DEF MarketInit, ChainTyped, BooksTyped
<1>6. Custody  BY <1>1, <1>3, <1>4 DEF MarketInit, Custody, Listed
<1>7. Escrow  BY <1>1 DEF MarketInit, Escrow
<1>8. \A n, i : ~Logged(n, i)  BY DEF MarketInit, Logged, Log
<1>9. OfferBook /\ SwapBook  BY <1>8 DEF MarketInit, OfferBook, SwapBook
<1>10. Leaders  BY <1>3 DEF MarketInit, Leaders
<1>11. Wallets  BY DEF MarketInit, Wallets, WellFormed, NoCall, StoneCalls
<1>. QED  BY <1>5, <1>6, <1>7, <1>9, <1>10, <1>11 DEF MarketInv, MarketState

LEMMA StillWellFormed ==
  ASSUME DOMAIN offers \subseteq DOMAIN offers', DOMAIN swaps \subseteq DOMAIN swaps', NEW c, WellFormed(c)
  PROVE  WellFormed(c)'
BY DEF WellFormed

\* A mined call keeps the books, which only grow.
LEMMA MinedStep ==
  ASSUME MarketState, NEW u \in Users, NEW c, WellFormed(c), Performed(u, c)
  PROVE  MarketState' /\ DOMAIN offers \subseteq DOMAIN offers' /\ DOMAIN swaps \subseteq DOMAIN swaps'
<1>. DEFINE Kept == MarketState' /\ DOMAIN offers \subseteq DOMAIN offers' /\ DOMAIN swaps \subseteq DOMAIN swaps'
<1>1. CASE c.fn = "buy" /\ Buy(u, c.on, c.amount)
  BY <1>1, BuyStep DEF WellFormed, StoneCalls, Buy
<1>2. CASE c.fn = "list" /\ List(u, c.on, c.amount)
  BY <1>2, ListStep DEF WellFormed, StoneCalls, List
<1>3. CASE c.fn = "cancelListing" /\ Unlist(u, c.on)
  BY <1>3, UnlistStep DEF WellFormed, StoneCalls, Unlist
<1>4. CASE c.fn = "createOffer" /\ Offer(u, c.on, c.amount)
  <2>1. c.on \in Stones /\ c.amount \in Prices  BY <1>4 DEF WellFormed, StoneCalls
  <2>2. MarketState' /\ DOMAIN offers \subseteq DOMAIN offers'  BY <1>4, <2>1, OfferStep
  <2>3. swaps' = swaps  BY <1>4, Zenon DEF Offer
  <2>. QED  BY <2>2, <2>3
<1>5. CASE c.fn = "acceptOffer" /\ Accept(u, c.on)
  <2>1. c.on \in DOMAIN offers  BY <1>5 DEF WellFormed
  <2>. QED  BY <1>5, <2>1, AcceptStep DEF Accept
<1>6. CASE c.fn = "cancelOffer" /\ WithdrawOffer(u, c.on)
  <2>1. c.on \in DOMAIN offers  BY <1>6 DEF WellFormed
  <2>. QED  BY <1>6, <2>1, WithdrawStep DEF WithdrawOffer
<1>7. CASE c.fn = "settleListingAuction" /\ SettleListing(c.on)
  <2>1. c.on \in Stones  BY <1>7 DEF WellFormed, StoneCalls
  <2>. QED  BY <1>7, <2>1, SettleListingStep DEF SettleListing
<1>8. CASE c.fn = "createSwap" /\ Swap(u, c.on[1], c.on[2])
  <2>1. c.on[1] \in Stones /\ c.on[2] \in Stones  BY <1>8 DEF WellFormed
  <2>2. MarketState' /\ DOMAIN swaps \subseteq DOMAIN swaps'  BY <1>8, <2>1, SwapStep
  <2>3. offers' = offers  BY <1>8, Zenon DEF Swap
  <2>. QED  BY <2>2, <2>3
<1>9. CASE c.fn = "acceptSwap" /\ TakeSwap(u, c.on)
  <2>1. c.on \in DOMAIN swaps  BY <1>9 DEF WellFormed
  <2>. QED  BY <1>9, <2>1, TakeSwapStep DEF TakeSwap
<1>10. CASE c.fn = "cancelSwap" /\ CancelSwap(u, c.on)
  <2>1. c.on \in DOMAIN swaps  BY <1>10 DEF WellFormed
  <2>. QED  BY <1>10, <2>1, CancelSwapStep DEF CancelSwap
<1>11. CASE c.fn = "bid" /\ PlaceBid(u, c.on, c.amount)
  BY <1>11, PlaceBidStep DEF WellFormed, StoneCalls, PlaceBid
<1>12. CASE c.fn = "cancelAuctionBid" /\ Leave(u, c.on)
  BY <1>12, LeaveStep DEF WellFormed, StoneCalls, Leave
<1>13. CASE c.fn = "settleAuction" /\ Settle(c.on)
  BY <1>13, SettleStep DEF WellFormed, StoneCalls, Settle
<1>14. CASE c.fn = "claimRefund" /\ ClaimCredit(c.on, u)
  BY <1>14, RestStays DEF ClaimCredit, MarketState, ChainTyped
<1>15. CASE c.fn = "safeTransferFrom" /\ c.from = u /\ SendToken(u, c.on, c.to)
  BY <1>15, SendStep DEF WellFormed, StoneCalls, SendToken
<1>. QED  BY <1>1, <1>2, <1>3, <1>4, <1>5, <1>6, <1>7, <1>8, <1>9, <1>10, <1>11, <1>12, <1>13, <1>14, <1>15
          DEF Performed

LEMMA MarketStep == MarketInv /\ [MarketNext]_allMarket => MarketInv'
<1>. SUFFICES ASSUME MarketInv, [MarketNext]_allMarket  PROVE MarketInv'  OBVIOUS
<1>1. MarketState /\ wallet = [u \in Users |-> wallet[u]] /\ \A u \in Users : WellFormed(wallet[u])
  BY DEF MarketInv, Wallets
<1>2. WellFormed(NoCall)'  BY DEF WellFormed, NoCall, StoneCalls
<1>3. ASSUME UNCHANGED marketVars  PROVE MarketState' /\ offers' = offers /\ swaps' = swaps
  BY <1>1, <1>3, RestStays DEF marketVars, MarketState, ChainTyped
\* A step of one user's wallet.
<1>4. ASSUME NEW u \in Users, NEW c, WellFormed(c)', wallet' = [wallet EXCEPT ![u] = c], MarketState',
             DOMAIN offers \subseteq DOMAIN offers', DOMAIN swaps \subseteq DOMAIN swaps'
      PROVE  MarketInv'
  <2>1. \A v \in Users : WellFormed(wallet[v])'
    <3>. SUFFICES ASSUME NEW v \in Users  PROVE WellFormed(wallet[v])'  OBVIOUS
    <3>. PICK d : d = wallet[v]  OBVIOUS
    <3>1. WellFormed(d)'  BY <1>1, <1>4, StillWellFormed
    <3>2. wallet'[v] = IF v = u THEN c ELSE d  BY <1>1, <1>4
    <3>. QED  BY <1>4, <3>1, <3>2 DEF WellFormed
  <2>2. wallet' = [v \in Users |-> wallet'[v]]  BY <1>1, <1>4
  <2>. QED  BY <1>4, <2>1, <2>2 DEF MarketInv, Wallets
<1>5. CASE UNCHANGED allMarket
  <2>1. UNCHANGED marketVars /\ wallet' = wallet  BY <1>5 DEF allMarket
  <2>2. MarketState' /\ offers' = offers /\ swaps' = swaps  BY <1>3, <2>1
  <2>. QED  BY <1>1, <2>1, <2>2 DEF MarketInv, Wallets, WellFormed
<1>6. ASSUME NEW u \in Users, Press(u)  PROVE MarketInv'
  <2>1. PICK b \in Buttons(u, Whole) : \E c \in Plans(u, b) : wallet' = [wallet EXCEPT ![u] = c]
    BY <1>6 DEF Press
  <2>2. PICK c \in Plans(u, b) : wallet' = [wallet EXCEPT ![u] = c]  BY <2>1
  <2>3. WellFormed(c)  BY <1>1, <2>1, <2>2, ButtonIsGood DEF Good
  <2>4. MarketState' /\ offers' = offers /\ swaps' = swaps  BY <1>3, <1>6 DEF Press
  <2>5. WellFormed(c)'  BY <2>3, <2>4 DEF WellFormed
  <2>. QED  BY <1>4, <2>2, <2>4, <2>5
<1>7. ASSUME NEW u \in Users, Mined(u)  PROVE MarketInv'
  <2>1. Performed(u, wallet[u]) /\ wallet' = [wallet EXCEPT ![u] = NoCall]  BY <1>7 DEF Mined
  <2>2. MarketState' /\ DOMAIN offers \subseteq DOMAIN offers' /\ DOMAIN swaps \subseteq DOMAIN swaps'
    BY <1>1, <2>1, MinedStep
  <2>. QED  BY <1>2, <1>4, <2>1, <2>2
<1>8. ASSUME NEW u \in Users, Reverted(u)  PROVE MarketInv'
  <2>1. UNCHANGED marketVars /\ wallet' = [wallet EXCEPT ![u] = NoCall]  BY <1>8 DEF Reverted
  <2>. QED  BY <1>2, <1>3, <1>4, <2>1
<1>9. ASSUME \/ \E t \in Stones : OpenRound(t)
             \/ Redeeming
             \/ \E source \in {Marketplace, PrimarySaleAuction} : Pausing(source)
             \/ Later,
             wallet' = wallet
      PROVE  MarketInv'
  <2>1. MarketState' /\ offers' = offers /\ swaps' = swaps  BY <1>1, <1>9, ElsewhereStep
  <2>. QED  BY <1>1, <1>9, <2>1 DEF MarketInv, Wallets, WellFormed
<1>. QED  BY <1>5, <1>6, <1>7, <1>8, <1>9 DEF MarketNext

LEMMA MarketHolds == MarketSpec => []MarketInv
BY MarketFirst, MarketStep, PTL DEF MarketSpec

\* Every token that can move has exactly one owner's page, for any users and
\* stones (gemPageMode, getProfile).
THEOREM StoneHasOneOwnersPage == MarketSpec => []OneOwnersPage
<1>1. MarketInv => OneOwnersPage  BY OneOwner DEF MarketInv
<1>. QED  BY MarketHolds, <1>1, PTL

\* What a contract holds and would give back is on a button of the person it
\* belongs to (getOffers, getSwaps, gemPageMode, bidColumns).
THEOREM NothingIsStuck == MarketSpec => []HeldIsReachable
<1>1. MarketInv => HeldIsReachable  BY AllIsReachable DEF MarketInv
<1>. QED  BY MarketHolds, <1>1, PTL

\* A button leads to a call that the contracts take, but for the offer of a
\* stone in redemption (offerColumns, GemDetailPage, SwapCard, SwapModal).
THEOREM ButtonsAreTaken == MarketSpec => []OfferedIsTaken
<1>1. MarketInv => OfferedIsTaken  BY GoodIsTaken DEF MarketInv
<1>. QED  BY MarketHolds, <1>1, PTL
=============================================================================
