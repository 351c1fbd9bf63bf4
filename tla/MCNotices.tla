------------------------------ MODULE MCNotices ------------------------------
(***************************************************************************)
(* The sweep's runs.  Every behaviour is of one kind:                      *)
(*   "overlap" two invocations, which both schedulers start, over a chain  *)
(*             that only grows, to two blocks, and owes no notice to bob   *)
(*   "reorg"   one invocation at a time, and a reorganisation              *)
(*   "auction" one round's bids                                            *)
(***************************************************************************)
EXTENDS NotifySweep, TLC

CONSTANTS Journeys, MaxFaults

VARIABLES journey, faults

MCInit ==
  /\ Init /\ journey \in Journeys /\ faults = 0
  /\ linked \subseteq (IF journey = "auction" THEN {} ELSE {beneficiary})

Began(r) == run[r].pc = "idle" /\ run'[r].pc # "idle"
One == CHOOSE r \in Runs : TRUE
Starved(r) == EndScan(r) /\ run[r].position <= run[r].head /\ run[r].position - run[r].from <= REORG_REPLAY + 1

\* A run whose last step is done has not failed.
Broken(r) == Fails(r) /\ ~Deadlines(r)

Fault == ChainReorganises \/ \E r \in Runs : Broken(r) \/ Starved(r)
InJourney ==
  /\ Finality /\ ReadsAnswer /\ BidsAreRead
  /\ faults' = faults + (IF Fault THEN 1 ELSE 0) /\ faults' <= MaxFaults
  /\ journey = "overlap" =>
       /\ Len(blocks') < MaxBlock /\ linked' \subseteq {beneficiary} /\ faults' = 0
       /\ \A r \in Runs : OfferReceived(r) => run'[r].pc # "send"
  /\ journey # "overlap" => \A r \in Runs : Began(r) => r = One
  /\ \A r \in Runs : Began(r) => r = One \/ run[One].pc # "idle"
  /\ journey # "overlap" => linked' = linked
  /\ journey # "reorg" => ~ChainReorganises
  /\ \A b \in DOMAIN blocks' : blocks'[b] # None =>
       (journey = "auction" <=> blocks'[b].type \in {"BidPlaced", "AuctionSettled", "AuctionSettlementRefunded"})
  /\ journey = "auction" => lapsed' \subseteq {"round"}
  /\ journey # "auction" => "round" \notin lapsed'

vars == <<sweepVars, journey, faults>>
MCSpec == MCInit /\ [][Next /\ InJourney /\ UNCHANGED journey]_vars
Fairness == WF_sweepVars(SweepStep(One))
MCLive == MCSpec /\ Fairness
=============================================================================
