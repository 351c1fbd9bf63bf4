------------------------------- MODULE MCCopies -------------------------------
(***************************************************************************)
(* The runs of the copies the product keeps of what others decide: the     *)
(* chain's bids and events, the reviewer's verdict, the wallet's proof.    *)
(* Every behaviour is of one kind:                                         *)
(*   "ingest"  two ingests of bids overlap on a chain that only grows      *)
(*   "reorged" one ingest at a time, and a reorganisation                  *)
(*   "tab"     one browser tab's scans, and a reorganisation               *)
(*   "tabs"    two tabs over one cache, on a chain that only grows         *)
(*   "review"  the reviewer's webhooks and the person's sessions           *)
(*   "wallet"  overlapping sign-in proofs                                  *)
(* The contracts have a block before any page scans them.                  *)
(***************************************************************************)
EXTENDS DemandScan, EventProjection, KycReview, WalletLinks, TLC

CONSTANTS Journeys, MaxFaults

VARIABLES journey, faults, reorganised

copiesVars == <<blocks, sent, cursor, run, rows, cache, scan, current, queued, shown, kycVars, linkVars>>
vars == <<copiesVars, journey, faults, reorganised>>

MCInit ==
  /\ ScanInit /\ DemandInit /\ ProjectionInit /\ KycInit /\ LinksInit
  /\ journey \in Journeys /\ faults = 0 /\ reorganised = FALSE

DemandRest == UNCHANGED rows
ProjectionRest == UNCHANGED <<cache, scan, current, queued, shown>>
ReviewRest == UNCHANGED kycVars
WalletRest == UNCHANGED linkVars
ChainRest == UNCHANGED scanVars

One == CHOOSE r \in Runs : TRUE
FirstTab == CHOOSE t \in Tabs : TRUE
Began(r) == run[r].pc = "idle" /\ run'[r].pc # "idle"

\* An ingest that fails, or whose budget ends before the head is reached; one
\* that has nothing left to delete is done.
CutShort(r) == ScanEnds(r) /\ run'[r].end = "cut"
Broken(r) == (IngestFails(r) /\ ~DeleteOrphans(r)) \/ CutShort(r)
Ingesting ==
  /\ journey \in {"ingest", "reorged"} /\ DemandNext
  /\ faults' = faults + (IF \E r \in Runs : Broken(r) THEN 1 ELSE 0)
  /\ reorganised' = (reorganised \/ BidsReorganised)
  /\ journey = "ingest" => ~BidsReorganised /\ Len(blocks') < MaxBlock
  /\ \A r \in Runs : Began(r) => r = One \/ (journey = "ingest" /\ run[One].pc # "idle")
  /\ ProjectionRest /\ ReviewRest /\ WalletRest

\* A provider or a database that refuses, a deleted cache, a closed tab.
Interrupted ==
  \/ \E s \in Scans : (ScanStops(s) /\ ~ReadFresh(s)) \/ (ReadCache(s) /\ cache' # cache)
  \/ \E t \in Tabs : TabCloses(t)
Projecting ==
  /\ journey \in {"tab", "tabs"} /\ ProjectionNext
  /\ blocks' = <<>> => cache' = Empty /\ \A s \in Scans : scan'[s] = Resting
  /\ faults' = faults + (IF Interrupted THEN 1 ELSE 0)
  /\ reorganised' = (reorganised \/ MarketReorganised)
  /\ journey = "tabs" => ~MarketReorganised
  /\ journey = "tab" => \A t \in Tabs \ {FirstTab} : current'[t] = None
  /\ DemandRest /\ ReviewRest /\ WalletRest

Reviewing ==
  /\ journey = "review" /\ KycNext /\ UNCHANGED <<faults, reorganised>>
  /\ ChainRest /\ DemandRest /\ ProjectionRest /\ WalletRest

\* A worker that dies, and a wallet that another profile proves to hold.
Taken == \E w \in Wallets : links[w] # Nobody /\ links'[w].profile # links[w].profile
Linking ==
  /\ journey = "wallet" /\ LinksNext /\ UNCHANGED reorganised
  /\ faults' = faults + (IF Taken \/ \E v \in Requests : VerifyDies(v) /\ ~VerifyStep(v) THEN 1 ELSE 0)
  /\ ChainRest /\ DemandRest /\ ProjectionRest /\ ReviewRest

MCNext == Ingesting \/ Projecting \/ Reviewing \/ Linking
InJourney ==
  /\ faults' <= MaxFaults
  /\ reorganised => ~BidsReorganised
MCSpec == MCInit /\ [][MCNext /\ InJourney /\ UNCHANGED journey]_vars

=============================================================================
