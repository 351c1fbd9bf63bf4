----------------------------- MODULE NotifySweep -----------------------------
(***************************************************************************)
(* v1-notify-sweep: the event pass over one contract's logs and the        *)
(* deadline pass over the positions it watches.                            *)
(*                                                                         *)
(* A position (an offer with its payment, a swap with its token) is opened *)
(* and closed on the chain; its beneficiary is warned once it has lapsed   *)
(* and is still open.  An auction round has bidders, told when outbid.     *)
(***************************************************************************)
EXTENDS Notifications

CONSTANTS
  Positions, beneficiary, owner,   \* who opened a position, and whom it is offered to
  Bidders,                         \* wallets that bid, each once or more
  MaxBids                          \* bound: bids of a wallet

ASSUME RoundIsNoPosition == "round" \notin Positions

VARIABLES
  watches,   \* <<entity, wallet>> -> "none", "open", "resolved"
  lapsed     \* entities whose expiry has passed

sweepVars == <<scanVars, noteVars, watches, lapsed>>
Entities == Positions \cup {"round"}
Watches == (Positions \X {beneficiary}) \cup ({"round"} \X Bidders)

-----------------------------------------------------------------------------
\* External: the contracts.
Opened(p) == [type |-> "OfferCreated", id |-> p]
Closings(p) == {[type |-> t, id |-> p] : t \in {"OfferClosed", "ListingAuctionRefunded"}}
Bid(w, n) == [type |-> "BidPlaced", wallet |-> w, n |-> n]
Settled(w) == [type |-> "AuctionSettled", wallet |-> w]
AuctionClosings == {Settled(w) : w \in Bidders} \cup {[type |-> "AuctionSettlementRefunded", wallet |-> w] : w \in Bidders}

Closed(p) == \E e \in Closings(p) : OnChain(e)
StillOpen(p) == OnChain(Opened(p)) /\ ~Closed(p)
AuctionOver == \E e \in AuctionClosings : OnChain(e)
Bids == SelectSeq(blocks, LAMBDA e : e # None /\ e.type = "BidPlaced")

ASSUME NoneIsNoEvent ==
  /\ \A p \in Positions : None \notin Closings(p) \cup {Opened(p)}
  /\ \A w \in Bidders : None \notin AuctionClosings \cup {Bid(w, n) : n \in 1..MaxBids}

Events ==
  {None} \cup {Opened(p) : p \in {p \in Positions : p \notin lapsed}}
  \cup (UNION {Closings(p) : p \in {p \in Positions : StillOpen(p)}})
  \cup (IF "round" \in lapsed
        THEN IF Bids # <<>> /\ ~AuctionOver
             THEN {e \in AuctionClosings : e.wallet = Last(Bids).wallet} ELSE {}
        ELSE {Bid(w, n) : w \in {w \in Bidders : Bids # <<>> => Last(Bids).wallet # w}, n \in 1..MaxBids})

ChainGrows == (\E e \in Events : NewBlock(e)) /\ UNCHANGED <<noteVars, watches, lapsed>>
ChainReorganises == Reorg /\ UNCHANGED <<noteVars, watches, lapsed>>

\* A position lasts far longer than the blocks a reorg can reach.
Lapses(entity) ==
  /\ entity \notin lapsed /\ lapsed' = lapsed \cup {entity}
  /\ entity \in Positions => Opened(entity) \in Through(Len(blocks) - REORG_REPLAY)
  /\ UNCHANGED <<scanVars, noteVars, watches>>

-----------------------------------------------------------------------------
watch(entity, wallet) ==
  watches' = [watches EXCEPT ![<<entity, wallet>>] = IF @ = "none" THEN "open" ELSE @]
resolveWatch(entity) ==
  watches' = [w \in Watches |-> IF w[1] = entity /\ watches[w] = "open" THEN "resolved" ELSE watches[w]]

priorBidders(except) == {w \in Bidders \ {except} : watches[<<"round", w>>] = "open"}

Event(r) == Head(run[r].logs)
Handling(r) == run[r].pc = "event" /\ run[r].logs # <<>>
Sends(r, keys) ==
  run' = [run EXCEPT ![r] = IF keys = {}
            THEN [run[r] EXCEPT !.pc = "event", !.logs = Tail(@)]
            ELSE [run[r] EXCEPT !.pc = "send", !.sends = SetToSeq(keys)]]

HandleOpened(r) ==
  /\ Handling(r) /\ Event(r).type = "OfferCreated"
  /\ watch(Event(r).id, beneficiary) /\ Go(r, "holder")
  /\ UNCHANGED <<blocks, sent, cursor, noteVars, lapsed>>

\* Nothing to decide once it has lapsed.  A read that fails names nobody.
OfferReceived(r) ==
  /\ run[r].pc = "holder"
  /\ \E holder \in {{}, {owner}} :
       Sends(r, {Key(w, "offer.received", Event(r).id) : w \in IF Event(r).id \in lapsed THEN {} ELSE holder})
  /\ UNCHANGED <<blocks, sent, cursor, noteVars, watches, lapsed>>

HandleClosed(r) ==
  /\ Handling(r) /\ Event(r).type \in {"OfferClosed", "ListingAuctionRefunded"}
  /\ resolveWatch(Event(r).id)
  /\ Sends(r, IF Event(r).type = "OfferClosed" THEN {}
              ELSE {Key(beneficiary, "offer.refunded", Event(r).id)})
  /\ UNCHANGED <<blocks, sent, cursor, noteVars, lapsed>>

\* Only a round that is still open, and that could be read, is news.
HandleBid(r) ==
  /\ Handling(r) /\ Event(r).type = "BidPlaced"
  /\ \/ /\ "round" \notin lapsed /\ ~AuctionOver
        /\ run' = [run EXCEPT ![r].pc = "bid",
             ![r].sends = SetToSeq({Key(w, "auction.outbid", "round") : w \in priorBidders(Event(r).wallet)})]
     \/ Sends(r, {})
  /\ UNCHANGED <<blocks, sent, cursor, noteVars, watches, lapsed>>

WatchBidder(r) ==
  /\ run[r].pc = "bid" /\ watch("round", Event(r).wallet)
  /\ Sends(r, {run[r].sends[i] : i \in DOMAIN run[r].sends})
  /\ UNCHANGED <<blocks, sent, cursor, noteVars, lapsed>>

HandleSettled(r) ==
  /\ Handling(r) /\ Event(r).type \in {"AuctionSettled", "AuctionSettlementRefunded"}
  /\ IF Event(r).type = "AuctionSettled" THEN resolveWatch("round") ELSE UNCHANGED watches
  /\ Sends(r, {Key(Event(r).wallet,
                   IF Event(r).type = "AuctionSettled" THEN "auction.won" ELSE "auction.refunded", "round")})
  /\ UNCHANGED <<blocks, sent, cursor, noteVars, lapsed>>

-----------------------------------------------------------------------------
Unresolved(rows) == {w \in rows : watches[w] = "open"}
\* Mutant: what is due is what has yet to lapse.
dueBefore == Unresolved({w \in Watches : w[1] \notin lapsed})
due == Unresolved({w \in Watches : w[1] \in lapsed})

SweepDeadlines(r) ==
  /\ run[r].pc = "deadlines"
  /\ run' = [run EXCEPT ![r] = IF due = {} THEN Idle
                               ELSE [run[r] EXCEPT !.pc = "due", !.due = SetToSeq(due)]]
  /\ UNCHANGED <<blocks, sent, cursor, noteVars, watches, lapsed>>

Due(r) == Head(run[r].due)
NextDue(r) ==
  run' = [run EXCEPT ![r] = IF Len(run[r].due) = 1 THEN Idle
                            ELSE [run[r] EXCEPT !.pc = "due", !.due = Tail(@)]]

\* Mutant: the row is resolved as soon as it was looked at.
ResolveFirst(r) ==
  /\ run[r].pc = "due"
  /\ watches' = [watches EXCEPT ![Due(r)] = "resolved"]
  /\ run' = [run EXCEPT ![r] =
       IF Due(r)[1] \in Positions /\ StillOpen(Due(r)[1])
       THEN [run[r] EXCEPT !.pc = "send", !.sends = <<Key(Due(r)[2], "offer.refundable", Due(r)[1])>>]
       ELSE [run[r] EXCEPT !.pc = "resolve"]]
  /\ UNCHANGED <<blocks, sent, cursor, noteVars, lapsed>>
\* Only the contract knows whether it is still open, and whether it leads a
\* listing's auction; a failed read counts as closed.
CheckDue(r) ==
  /\ run[r].pc = "due"
  /\ \/ /\ Due(r)[1] \in Positions /\ StillOpen(Due(r)[1])
        /\ \E kind \in {"offer.refundable", "offer.settlement-ready"} :
             run' = [run EXCEPT ![r].pc = "send", ![r].sends = <<Key(Due(r)[2], kind, Due(r)[1])>>]
     \/ Go(r, "resolve")
  /\ UNCHANGED <<blocks, sent, cursor, noteVars, watches, lapsed>>

ResolveDue(r) ==
  /\ run[r].pc = "resolve"
  /\ watches' = [watches EXCEPT ![Due(r)] = "resolved"] /\ NextDue(r)
  /\ UNCHANGED <<blocks, sent, cursor, noteVars, lapsed>>

-----------------------------------------------------------------------------
Init ==
  /\ ScanInit /\ NotesInit
  /\ watches = [w \in Watches |-> "none"] /\ lapsed = {}

Scan(r) == (ReadHead(r) \/ BeginScan(r) \/ GetLogs(r) \/ ChunkDone(r) \/ EndScan(r))
           /\ UNCHANGED <<noteVars, watches, lapsed>>
Notify(r) == (NotifyReadsLink(r) \/ NotifyInserts(r) \/ NotifyMails(r) \/ NotifyMarks(r)
              \/ reconcileNotificationProfileLinks(r)) /\ UNCHANGED <<watches, lapsed>>
Handle(r) == HandleOpened(r) \/ OfferReceived(r) \/ HandleClosed(r) \/ HandleBid(r) \/ WatchBidder(r)
             \/ HandleSettled(r)
Deadlines(r) == SweepDeadlines(r) \/ CheckDue(r) \/ ResolveDue(r)
SweepStep(r) == Scan(r) \/ Notify(r) \/ Handle(r) \/ Deadlines(r)

Fails(r) == (Outage(r) \/ Throws(r) \/ Die(r)) /\ UNCHANGED <<noteVars, watches, lapsed>>

Next ==
  \/ \E r \in Runs : SweepStep(r) \/ Fails(r)
  \/ ChainGrows \/ ChainReorganises
  \/ \E e \in Entities : Lapses(e)
  \/ \E w \in Wallets : LinkWallet(w) /\ UNCHANGED <<watches, lapsed>>

-----------------------------------------------------------------------------
\* What the properties assume of the chain and of its provider.

\* A reorganisation leaves alone what is REORG_REPLAY blocks behind the cursor,
\* behind a head that a run has read, and the opening of a lapsed position.
Finality ==
  ChainReorganises =>
    /\ cursor # None => Len(blocks') >= cursor - REORG_REPLAY
    /\ \A r \in Runs : run[r].pc # "idle" => Len(blocks') >= run[r].head - REORG_REPLAY
    /\ \A p \in Positions \cap lapsed : OnChain(Opened(p))'
\* A failed read on the way to a warning is the sweep's word that nothing is owed.
ReadsAnswer ==
  \A r \in Runs : CheckDue(r) /\ Due(r)[1] \in Positions /\ StillOpen(Due(r)[1]) => run'[r].pc = "send"
BidsAreRead ==
  \A r \in Runs : HandleBid(r) /\ "round" \notin lapsed /\ ~AuctionOver => run'[r].pc = "bid"

FinalSpec == Init /\ [][Next /\ Finality]_sweepVars
AnsweredSpec == Init /\ [][Next /\ Finality /\ ReadsAnswer]_sweepVars
BidsReadSpec == Init /\ [][Next /\ ~ChainReorganises /\ BidsAreRead]_sweepVars

-----------------------------------------------------------------------------

\* The cursor stands for work that is done: whatever a reorganisation can no
\* longer touch behind it was handled, however the runs that moved it ended.
NothingSkipped ==
  cursor # None =>
    LET seen == Through(cursor - REORG_REPLAY) IN
    \A p \in Positions :
      /\ Opened(p) \in seen => watches[<<p, beneficiary>>] # "none"
      /\ Closings(p) \cap seen # {} => watches[<<p, beneficiary>>] = "resolved"

\* The watch is the only thing between a beneficiary and an asset parked in a
\* contract: it ends only when the position does, or with a warning on record.
Warnings(p) == {Key(beneficiary, kind, p) : kind \in {"offer.refundable", "offer.settlement-ready"}}
Warned(p) == \E key \in Warnings(p) : Noted(key)
LapsedIsWarned ==
  \A p \in Positions : watches[<<p, beneficiary>>] = "resolved" => Warned(p) \/ Closings(p) \cap sent # {}

\* Whoever was outbid in a round that is still open has been told.
OutbidIsTold ==
  cursor # None /\ "round" \notin lapsed =>
    \A i, j \in {b \in DOMAIN blocks : b <= cursor /\ blocks[b] # None /\ blocks[b].type = "BidPlaced"} :
      i < j /\ blocks[i].wallet # blocks[j].wallet => Noted(Key(blocks[i].wallet, "auction.outbid", "round"))

\* Nobody who leads is told that they were outbid.
OutbidIsOutbid ==
  \A w \in Bidders :
    Noted(Key(w, "auction.outbid", "round")) =>
      \E i, j \in DOMAIN Bids : i < j /\ Bids[i].wallet = w /\ Bids[j].wallet # w

\* A lapsed position that stays open is told to its beneficiary in the end, and
\* a wallet that signs in sees everything that was ever addressed to it.
LapsedIsTold == \A p \in Positions : (p \in lapsed) ~> (Warned(p) \/ Closings(p) \cap sent # {})
LinkedIsAttached ==
  \A w \in Wallets : w \in linked ~> \A k \in DOMAIN notes : k.wallet = w => notes[k].attached
=============================================================================
