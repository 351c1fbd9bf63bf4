--------------------------- MODULE AuctionRefresh ---------------------------
(***************************************************************************)
(* A listed stone's auctions: the scheduled sweep that settles a won round *)
(* and reopens an unsold one, and the seller's switch to minting, which    *)
(* ends the auctions.  Both hold the operator lease; the sweep under an id *)
(* of its own that it renews before each send.                             *)
(***************************************************************************)
EXTENDS SellerActivation

CONSTANTS MaxRounds, Bidders

VARIABLE
  cycle       \* auction_cycles: rounds counted for each gem, and whether given up

auctionVars == <<row, log, appraisals, run, lease, cycle, chainVars>>

Gems == 1..MaxSent
Record == UNCHANGED <<row, log, appraisals>>

\* The sweep renews its lease before each send and stops when it lost it.
SweepWrite(w, fn, then) ==
  /\ lease.holder = w /\ lease' = [lease EXCEPT !.lapsed = FALSE]
  /\ Write(w, fn, run[w].gem, then)

SweepClaims(w, g) ==
  /\ gems[g].status = GemStatus.Listed /\ gems[g].mode = "auction"
  /\ claimOperatorLease(w)
  /\ Begin(w, [pc |-> "sweep", kind |-> "sweep", gem |-> g, auction |-> NoAuction,
               rounds |-> 0, tx |-> None, then |-> "none"])
  /\ Record /\ UNCHANGED cycle /\ Chain

\* As it would be with a won round cancelled like an unsold one.
SweepReadsEnded(w) ==
  LET a == gems[run[w].gem].auction IN
  /\ run[w].pc = "sweep" /\ (a.exists /\ ~a.settled => a.ended)
  /\ run' = [run EXCEPT ![w].auction = a, ![w].pc = "count"]
  /\ UNCHANGED <<lease, cycle>> /\ Record /\ Chain
\* A running round is left alone; a won one is settled; otherwise the count decides.
SweepReads(w) ==
  LET a == gems[run[w].gem].auction IN
  /\ run[w].pc = "sweep"
  /\ \/ /\ a.exists /\ ~a.settled /\ ~a.ended
        /\ Go(w, "release") /\ UNCHANGED lease /\ Chain
     \/ /\ a.exists /\ ~a.settled /\ a.ended /\ a.bidder # None
        /\ SweepWrite(w, "settleAuction", "settled")
     \/ /\ ~a.exists \/ a.settled \/ (a.ended /\ a.bidder = None)
        /\ run' = [run EXCEPT ![w].auction = a, ![w].pc = "count"]
        /\ UNCHANGED lease /\ Chain
  /\ Record /\ UNCHANGED cycle

SweepSettled(w) ==
  /\ run[w].pc = "settled"
  /\ IF gems[run[w].gem].status = GemStatus.Minted
       THEN Go(w, "release")
       ELSE Go(w, "count")
  /\ Record /\ UNCHANGED <<lease, cycle>> /\ Chain

\* As it would be with the round counted before it is opened.
SweepCountsFirst(w) ==
  LET g == run[w].gem IN
  /\ run[w].pc = "count"
  /\ IF cycle[g].exhausted \/ cycle[g].rounds >= MaxRounds
       THEN cycle' = [cycle EXCEPT ![g].exhausted = TRUE] /\ Go(w, "release")
       ELSE cycle' = [cycle EXCEPT ![g].rounds = @ + 1]
              /\ run' = [run EXCEPT ![w].pc = "clear", ![w].rounds = cycle[g].rounds]
  /\ Record /\ UNCHANGED lease /\ Chain
SweepCounts(w) ==
  LET g == run[w].gem IN
  /\ run[w].pc = "count"
  /\ IF cycle[g].exhausted \/ cycle[g].rounds >= MaxRounds
       THEN cycle' = [cycle EXCEPT ![g].exhausted = TRUE] /\ Go(w, "release")
       ELSE UNCHANGED cycle /\ run' = [run EXCEPT ![w].pc = "clear", ![w].rounds = cycle[g].rounds]
  /\ Record /\ UNCHANGED lease /\ Chain

SweepClears(w) ==
  LET a == run[w].auction IN
  /\ run[w].pc = "clear"
  /\ IF a.exists /\ ~a.settled THEN SweepWrite(w, "cancelAuction", "create")
                               ELSE Go(w, "create") /\ UNCHANGED lease /\ Chain
  /\ Record /\ UNCHANGED cycle
SweepCreates(w) ==
  /\ run[w].pc = "create" /\ SweepWrite(w, "createDailyAuction", "counted")
  /\ Record /\ UNCHANGED cycle
SweepUpserts(w) ==
  /\ run[w].pc = "counted" /\ Go(w, "release")
  /\ cycle' = [cycle EXCEPT ![run[w].gem].rounds = run[w].rounds + 1]
  /\ Record /\ UNCHANGED lease /\ Chain

\* A stone that fails is left to the next run.
SweepFails(w) ==
  /\ run[w].pc \in {"sweep", "settled", "count", "clear", "create", "wait"}
  /\ run[w].kind = "sweep"
  /\ Go(w, "release") /\ Record /\ UNCHANGED <<lease, cycle>> /\ Chain
SweepReleases(w) ==
  /\ run[w].pc = "release" /\ run[w].kind = "sweep"
  /\ releaseOperatorLease(w) /\ End(w)
  /\ Record /\ UNCHANGED cycle /\ Chain

-----------------------------------------------------------------------------
\* The seller's switch, on the auction as it is read.
sellerMintSwitchBlocker(a, rounds) ==
  /\ a.exists /\ ~a.settled
  /\ a.bidder # None \/ ~(a.ended \/ rounds > 0)

SwitchBegins(w, s) ==
  LET g == row[s].gem IN
  /\ g # None /\ gems[g].status = GemStatus.Listed
  /\ claimOperatorLease(s)
  /\ Begin(w, [pc |-> "switch", kind |-> "switch", s |-> s, read |-> row[s], gem |-> g,
               status |-> GemStatus.Listed, tx |-> None, then |-> "none"])
  /\ Record /\ UNCHANGED cycle /\ Chain

SwitchReads(w) ==
  LET g == run[w].gem a == gems[g].auction IN
  /\ run[w].pc = "switch"
  /\ IF gems[g].mode = "seller_mint" THEN Go(w, "mode")
     ELSE IF sellerMintSwitchBlocker(a, cycle[g].rounds) THEN Go(w, "release")
     ELSE Go(w, IF a.exists /\ ~a.settled THEN "end" ELSE "set")
  /\ Record /\ UNCHANGED <<lease, cycle>> /\ Chain

SwitchEnds(w) ==
  /\ run[w].pc = "end" /\ Write(w, "cancelAuction", run[w].gem, "set")
  /\ Record /\ UNCHANGED <<lease, cycle>>
\* As it would be with the row switched before the chain.
SwitchRowFirst(w) ==
  LET s == run[w].s IN
  /\ run[w].pc = "set"
  /\ persistStep(s, [row[s] EXCEPT !.mode = "seller_mint"])
  /\ Write(w, "setPrimarySaleMode", run[w].gem, "mode")
  /\ UNCHANGED <<log, appraisals, cycle>>
SwitchSets(w) ==
  /\ run[w].pc = "set" /\ Write(w, "setPrimarySaleMode", run[w].gem, "mode")
  /\ Record /\ UNCHANGED <<lease, cycle>>
SwitchMode(w) ==
  LET s == run[w].s IN
  /\ run[w].pc = "mode" /\ Go(w, "mint")
  /\ persistStep(s, [row[s] EXCEPT !.mode = "seller_mint"])
  /\ UNCHANGED <<log, appraisals, cycle>> /\ Chain
SwitchFails(w) ==
  /\ run[w].pc \in {"switch", "end", "set", "mode", "mint", "wait"} /\ run[w].kind = "switch"
  /\ Go(w, "release") /\ Record /\ UNCHANGED <<lease, cycle>> /\ Chain

\* sync_mint: read-only on the chain.
SyncMint(s) ==
  /\ row[s].gem # None /\ row[s].mode = "seller_mint"
  /\ gems[row[s].gem].status = GemStatus.Minted
  /\ persistStep(s, [row[s] EXCEPT !.minted = TRUE, !.activation = "minted"])
  /\ UNCHANGED <<log, appraisals, run, cycle>> /\ Chain

-----------------------------------------------------------------------------
Outside ==
  /\ \/ \E tx \in pending : Mine(tx) /\ Receive(tx)
     \/ \E tx \in pending : Drop(tx) /\ UNCHANGED run
     \/ \E g \in DOMAIN gems :
          (RoundEnds(g) \/ SellerMints(g) \/ \E b \in Bidders : Bid(g, b)) /\ UNCHANGED run
  /\ UNCHANGED <<row, log, appraisals, lease, cycle>>

Init ==
  /\ gems = <<>> /\ approved = FALSE /\ pending = {} /\ receipts = {} /\ sent = 0 /\ opened = <<>>
  /\ row = [s \in Submissions |-> NewRow] /\ log = [s \in Submissions |-> NewLog("submitted")]
  /\ appraisals = {} /\ run = [w \in Workers |-> Idle]
  /\ lease = Free /\ cycle = [g \in Gems |-> [rounds |-> 0, exhausted |-> FALSE]]

Next ==
  \/ IntakeNext /\ UNCHANGED <<lease, cycle>>
  \/ ActivationNext /\ UNCHANGED cycle
  \/ \E w \in Workers, g \in DOMAIN gems : SweepClaims(w, g)
  \/ \E w \in Workers :
       \/ SweepReads(w) \/ SweepSettled(w) \/ SweepCounts(w) \/ SweepClears(w) \/ SweepCreates(w)
       \/ SweepUpserts(w) \/ SweepFails(w) \/ SweepReleases(w)
       \/ SwitchReads(w) \/ SwitchEnds(w) \/ SwitchSets(w) \/ SwitchMode(w) \/ SwitchFails(w)
  \/ \E w \in Workers, s \in Submissions : SwitchBegins(w, s)
  \/ \E s \in Submissions : SyncMint(s)
  \/ Outside

Spec == Init /\ [][Next]_auctionVars

-----------------------------------------------------------------------------
\* What the registration's properties assume of time.

Activating(w, s) == Claimed(w) /\ run[w].s = s
\* A run finishes or dies before its claim may be taken over, and nobody's
\* preparation fails while another run owns the row.
ClaimIsKept ==
  /\ \A s \in Submissions : row'[s].stale /\ ~row[s].stale => \A w \in Workers : ~Activating(w, s)
  /\ \A v \in Workers : PrepareFails(v) => \A w \in Workers : ~Activating(w, run[v].s)
\* A registration nobody recorded is mined or evicted before the next attempt
\* concludes that there is none.
SettledFirst ==
  \A w \in Workers :
    Recover(w) /\ run'[w].pc = "floor" =>
      \A tx \in pending : tx.fn = "registerGem" => tx.arg[1] # run[w].s

KeptSpec == Init /\ [][Next /\ ClaimIsKept]_auctionVars
SettledSpec == Init /\ [][Next /\ ClaimIsKept /\ SettledFirst]_auctionVars

-----------------------------------------------------------------------------
\* Properties.

GemsOf(s) == {g \in DOMAIN gems : gems[g].pkg[1] = s}

\* A retried activation finds the gem an earlier one registered, by the hash it
\* recorded or by the search of the logs: a stone is never on the chain twice.
RegisteredOnce == \A s \in Submissions : Cardinality(GemsOf(s)) <= 1

\* What recovery compares with the chain is what was sent: the package of a
\* submission stays as it is from the moment its registration may be out.
PackageIsRegistered ==
  /\ \A s \in Submissions, g \in DOMAIN gems : gems[g].pkg[1] = s => gems[g].pkg = row[s].pkg
  /\ \A tx \in pending : tx.fn = "registerGem" => tx.arg = row[tx.arg[1]].pkg

\* Nothing reaches the registry that was not appraised and received by the bank,
\* and each of the two was recorded together with its event.
OnlyReceivedStones ==
  \A s \in Submissions :
    LET events == {log[s].events[i].type : i \in DOMAIN log[s].events} IN
    /\ row[s].appraised <=> "gem_appraised" \in events
    /\ row[s].bank <=> "bank_receipt_recorded" \in events
    /\ GemsOf(s) # {} => row[s].appraised /\ row[s].bank

\* A compromised lab account prices no more stones in a day than its limit,
\* however its requests overlap, and a repeated request uses it up once.
WithinDailyLimit ==
  /\ Cardinality(appraisals) <= DailyLimit
  /\ \A a, b \in appraisals : a[1] = b[1] => a = b

\* The row follows the chain: it says minting only of a gem that left the
\* auctions, and minted only of a minted one.
RowFollowsSale ==
  \A s \in Submissions :
    row[s].gem # None /\ gems[row[s].gem].status >= GemStatus.Listed =>
      /\ row[s].mode = "seller_mint" => gems[row[s].gem].mode = "seller_mint"
      /\ row[s].minted => gems[row[s].gem].status = GemStatus.Minted

\* auction_cycles never counts a round that was not opened, so no stone is
\* given up before it had its rounds.
RoundsWereOpened == \A g \in DOMAIN gems : cycle[g].rounds <= opened[g]

\* The sweep never cancels a round somebody won: its winner is settled.
CancelledBy(by) == \E tx \in pending \ pending' : tx.fn = "cancelAuction" /\ tx.by = by
WonSurvivesSweep ==
  [][\A w \in Workers :
       CancelledBy(w) => \A g \in DOMAIN gems :
         gems[g].auction.bidder # None => gems'[g].auction.bidder # None]_auctionVars

\* Activation refuses a withdrawn stone: nothing registers it afterwards.
WithdrawnIsRefused ==
  [][\A s \in Submissions :
       row[s].status = "withdrawn" => GemsOf(s)' = GemsOf(s)]_auctionVars
=============================================================================
