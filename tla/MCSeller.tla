------------------------------ MODULE MCSeller ------------------------------
(***************************************************************************)
(* Model values of the seller's runs.  Every behaviour is of one journey:  *)
(*   "intake"     overlapping staff calls and withdrawals on two stones,   *)
(*                from their submission; nothing is activated              *)
(*   "activation" a stone the bank received: two overlapping activations,  *)
(*                failures, deaths and evictions                           *)
(*   "minting"    the same for a seller who mints, one run at a time       *)
(*   "auction"    a listed stone: sweeps, switches, bids and deaths        *)
(*   "leaving"    a stone the bank received: withdrawal and activation     *)
(* or of one journey of the market, where the stones are on the chain:     *)
(*   "listing"    a stone is listed, bid for, settled; offers and refunds  *)
(*   "relisting"  a stone is listed, taken down and listed while another   *)
(*                user's purchase waits                                    *)
(*   "swaps"      two stones of two owners, swapped, listed and sent       *)
(*   "primary"    a stone's auction: bids, settlement, an exit, a refund   *)
(***************************************************************************)
EXTENDS AuctionRefresh, Market, TLC

CONSTANTS s1, s2, w1, w2, k1, k2, b1, ann, bob, cyd, x, y, Journeys

VARIABLE journey

Interchangeable == Permutations(Workers)

-----------------------------------------------------------------------------
\* Where the journeys start: at submission, received by the bank, listed.
InOrder(s) ==
  LET event(log0, e) == AppendWorkflowEvent(log0, log0.version, e).log
      appraised == event(NewLog("awaiting_grading"),
        WorkflowEvent(k1, "gem_appraised", "awaiting_grading", "appraised", None))
  IN event(appraised,
       WorkflowEvent("receive", "bank_receipt_recorded", "appraised", "bank_received", None))
ReceivedRow(mode) ==
  [NewRow EXCEPT !.status = "approved", !.appraised = TRUE, !.bank = TRUE, !.mode = mode]
ListedRow ==
  [ReceivedRow("auction") EXCEPT !.status = "registered", !.activation = "auction_created",
     !.attempts = 1, !.pkg = <<s1, 1>>, !.floor = TRUE, !.gem = 1]
ListedGem ==
  [NewGem EXCEPT !.pkg = <<s1, 1>>, !.status = GemStatus.Listed, !.mode = "auction",
                 !.auction = OpenAuction]

Started(r) ==
  /\ row = [s \in Submissions |-> IF s = s1 THEN r ELSE NewRow]
  /\ log = [s \in Submissions |-> IF s = s1 THEN InOrder(s1) ELSE NewLog("submitted")]
  /\ appraisals = {<<s1, k1>>}
OnTheMarket == {"listing", "relisting", "swaps", "primary"}
HolderAtFirst(t) ==
  CASE journey = "swaps" -> IF t = x THEN ann ELSE bob
    [] journey = "primary" -> IF t = x THEN "unminted" ELSE "burned"
    [] OTHER -> IF t = x THEN ann ELSE "burned"
NothingOnChain == gems = <<>> /\ sent = 0 /\ opened = <<>>

MCInit ==
  /\ journey \in Journeys
  /\ pending = {} /\ receipts = {} /\ run = [w \in Workers |-> Idle] /\ lease = Free
  /\ cycle = [g \in Gems |-> [rounds |-> 0, exhausted |-> FALSE]]
  /\ MarketInit /\ holder = [t \in Stones |-> HolderAtFirst(t)]
  /\ CASE journey \in {"intake"} \cup OnTheMarket -> Init
       [] journey = "minting" -> Started(ReceivedRow("seller_mint")) /\ approved = FALSE /\ NothingOnChain
       [] journey \in {"activation", "leaving"} ->
            Started(ReceivedRow("auction")) /\ approved = TRUE /\ NothingOnChain
       [] journey = "auction" ->
            /\ Started(ListedRow) /\ approved = TRUE
            /\ gems = <<ListedGem>> /\ sent = 1 /\ opened = <<1>>

-----------------------------------------------------------------------------
OneAtATime == \A v, w \in Workers : run'[v] # Idle /\ run'[w] # Idle => v = w
Doing(calls) == \E w \in Workers : run'[w].pc \in calls
Staffed == Doing({"appraise", "reject", "receive"})

\* The lease outlives its holder.
Timely == ClaimIsKept /\ (lease'.lapsed /\ lease'.holder # None => \A w \in Workers : run[w] = Idle)

Packages == row'[s1].pkg = None \/ row'[s1].pkg \in {<<s1, 1>>, <<s1, 2>>}
Unsold == \A g \in DOMAIN gems : gems[g].auction.bidder = None /\ ~gems[g].auction.ended

InJourney ==
  CASE journey = "intake" ->
         /\ UNCHANGED chainVars /\ row'[s1].mode = "auction" /\ row'[s2].mode = "auction"
         /\ row'[s2].status \in {"none", "submitted", "awaiting_custody"} /\ ~row'[s2].bank
         /\ \A w \in Workers : run'[w] # Idle /\ run'[w].s = s2 => run'[w].pc = "appraise"
         /\ ~Doing({"prepare"})
    [] journey = "activation" ->
         /\ Timely /\ SettledFirst /\ Packages /\ ~Staffed /\ ~Doing({"withdrawn", "sweep", "switch"})
         /\ gems = <<>> \/ OneAtATime \/ \A w \in Workers : run'[w] = run[w]
         /\ row'[s2] = row[s2] /\ Unsold'
    [] journey = "minting" ->
         /\ Timely /\ SettledFirst /\ Packages /\ ~Staffed /\ ~Doing({"withdrawn", "sweep", "switch"})
         /\ OneAtATime /\ row'[s2] = row[s2] /\ Cardinality(pending') <= 1
    [] journey = "auction" ->
         /\ Timely /\ ~Staffed /\ ~Doing({"prepare"}) /\ Cardinality(pending') <= 1
         /\ row'[s2] = row[s2]
    [] journey = "leaving" ->
         /\ Timely /\ Packages /\ ~Staffed /\ Cardinality(pending') <= 1 /\ row'[s2] = row[s2]

-----------------------------------------------------------------------------
\* The market's journeys.
Uses(users, fns) == \A u \in Users : wallet'[u] = NoCall \/ (u \in users /\ wallet'[u].fn \in fns)
AskingOne == \A u \in Users : wallet'[u].fn = "list" => wallet'[u].amount = 1
SendingTo(users) == \A u \in Users : wallet'[u].fn = "safeTransferFrom" => wallet'[u].to \in users
NoBurns == \A t \in Stones : holder'[t] = "burned" => holder[t] = "burned"

\* A call is mined or dropped before the next thing happens, but a purchase.
Hurried == IF journey = "relisting" THEN Users \ {cyd} ELSE Users
OneCallAtATime ==
  /\ \A u \in Hurried : wallet[u] # NoCall => wallet'[u] = NoCall
  /\ Cardinality({u \in Hurried : wallet'[u] # NoCall}) <= 1

InMarketJourney ==
  CASE journey = "listing" ->
         /\ PrimarySaleAuction \notin paused' /\ NoBurns /\ AskingOne
         /\ Uses(Users, {"list", "cancelListing", "createOffer", "acceptOffer", "cancelOffer",
                         "cancelExpiredOffer", "settleListingAuction", "claimRefund"})
    [] journey = "relisting" ->
         /\ paused' = {} /\ locked' = {} /\ Uses(Users, {"list", "cancelListing", "buy"})
    [] journey = "swaps" ->
         /\ paused' = {} /\ AskingOne /\ SendingTo({ann, bob})
         /\ Uses({ann, bob}, {"createSwap", "acceptSwap", "cancelSwap", "list", "cancelListing", "safeTransferFrom"})
    [] journey = "primary" ->
         /\ Marketplace \notin paused' /\ locked' = {}
         /\ Uses(Users, {"bid", "settleAuction", "cancelAuctionBid", "claimRefund"})

MCNext ==
  /\ UNCHANGED journey
  /\ \/ journey \notin OnTheMarket /\ Next /\ InJourney /\ UNCHANGED allMarket
     \/ journey \in OnTheMarket /\ MarketNext /\ OneCallAtATime /\ InMarketJourney /\ UNCHANGED auctionVars
MCSpec == MCInit /\ [][MCNext]_<<auctionVars, allMarket, journey>>
=============================================================================
