------------------------------ MODULE DemandScan ------------------------------
(***************************************************************************)
(* The copy of the chain's bids that prices stones (_shared/demand.ts):    *)
(* an ingest reads the blocks since the cursor and some before it, records *)
(* the bids it finds, moves the cursor, and removes what the chain no      *)
(* longer has.  The cursor and the chain are LogScan's.                    *)
(*                                                                         *)
(* run[r] is an ingest: pending bids are read and not yet recorded, seen   *)
(* are all it read, end says how its scan ended.                           *)
(***************************************************************************)
EXTENDS LogScan

CONSTANT Bids    \* transactions that place a bid

VARIABLE rows    \* demand_bids: bids, each with the block it was found in

demandVars == <<blocks, sent, cursor, run, rows>>
Row(bid, block) == [bid |-> bid, block |-> block]
Recorded == {row.bid : row \in rows}

IngestBegins(r) ==
  /\ run[r].pc = "idle"
  /\ run' = [run EXCEPT ![r] = [pc |-> "cursor", head |-> Len(blocks), from |-> 0, position |-> 0,
                                pending |-> {}, seen |-> {}, orphans |-> {}, end |-> "no"]]
  /\ UNCHANGED <<blocks, sent, cursor, rows>>

\* A head behind the cursor leaves nothing to read.
scannedThroughBlock(r) ==
  /\ run[r].pc = "cursor"
  /\ run' = [run EXCEPT ![r] = IF cursorFor > run[r].head THEN Idle
                               ELSE [run[r] EXCEPT !.from = cursorFor, !.position = cursorFor, !.pc = "scan"]]
  /\ UNCHANGED <<blocks, sent, cursor, rows>>

\* One eth_getLogs; every so many of them what was found is recorded.
ReadRange(r) ==
  /\ run[r].pc = "scan"
  /\ \E last \in run[r].position..run[r].head, pc \in {"scan", "write"} :
       LET found == {Row(blocks[b], b) : b \in {b \in DOMAIN blocks : run[r].position <= b /\ b <= last /\ blocks[b] \in Bids}} IN
       run' = [run EXCEPT ![r].pending = @ \cup found, ![r].seen = @ \cup {row.bid : row \in found},
                          ![r].position = last + 1, ![r].pc = pc]
  /\ UNCHANGED <<blocks, sent, cursor, rows>>

\* At the head, or out of budget: even before the first range.
ScanEnds(r) ==
  /\ run[r].pc = "scan"
  /\ run' = [run EXCEPT ![r].pc = "write",
                        ![r].end = IF run[r].position > run[r].head THEN "caughtUp" ELSE "cut"]
  /\ UNCHANGED <<blocks, sent, cursor, rows>>

\* No provider answers: the ground covered is kept.
ScanFails(r) ==
  /\ run[r].pc = "scan" /\ run[r].position <= run[r].head
  /\ run' = [run EXCEPT ![r] = IF run[r].position > run[r].from
                               THEN [run[r] EXCEPT !.pc = "write", !.end = "failed"] ELSE Idle]
  /\ UNCHANGED <<blocks, sent, cursor, rows>>

\* A bid that is on record keeps its row, whatever block it is in by now.
writeBids(r) ==
  /\ run[r].pc = "write"
  /\ rows' = rows \cup {row \in run[r].pending : row.bid \notin Recorded}
  /\ run' = [run EXCEPT ![r].pending = {}, ![r].pc = "commit"]
  /\ UNCHANGED <<blocks, sent, cursor>>

\* Mutant: what could not be recorded is forgotten.
WriteForgets(r) ==
  /\ run[r].pc = "write" /\ run[r].pending # {}
  /\ run' = [run EXCEPT ![r] = IF run[r].end = "no" THEN [run[r] EXCEPT !.pc = "scan", !.pending = {}] ELSE Idle]
  /\ UNCHANGED <<blocks, sent, cursor, rows>>
\* Between two ranges the scan goes on, with what it still has to record.
WriteFails(r) ==
  /\ run[r].pc = "write" /\ run[r].pending # {}
  /\ run' = [run EXCEPT ![r] = IF run[r].end = "no" THEN [run[r] EXCEPT !.pc = "scan"] ELSE Idle]
  /\ UNCHANGED <<blocks, sent, cursor, rows>>

CommitProgress(r) ==
  /\ run[r].pc = "commit" /\ cursor' = run[r].position - 1
  /\ run' = [run EXCEPT ![r] = CASE run[r].end = "no" -> [run[r] EXCEPT !.pc = "scan"]
                                 [] run[r].end = "caughtUp" -> [run[r] EXCEPT !.pc = "prune"]
                                 [] OTHER -> Idle]
  /\ UNCHANGED <<blocks, sent, rows>>

\* Rows of the blocks just read that the reading did not produce.
pruneReorgedBids(r) ==
  /\ run[r].pc = "prune"
  /\ run' = [run EXCEPT ![r].pc = "delete", ![r].orphans =
       {row \in rows : run[r].from <= row.block /\ row.block < run[r].position /\ row.bid \notin run[r].seen}]
  /\ UNCHANGED <<blocks, sent, cursor, rows>>

DeleteOrphans(r) ==
  /\ run[r].pc = "delete"
  /\ rows' = rows \ run[r].orphans /\ run' = [run EXCEPT ![r] = Idle]
  /\ UNCHANGED <<blocks, sent, cursor>>

-----------------------------------------------------------------------------
DemandInit == rows = {}

IngestFails(r) == ScanFails(r) \/ WriteFails(r) \/ (Die(r) /\ UNCHANGED rows)
IngestStep(r) ==
  IngestBegins(r) \/ scannedThroughBlock(r) \/ ReadRange(r) \/ ScanEnds(r) \/ writeBids(r)
  \/ CommitProgress(r) \/ pruneReorgedBids(r) \/ DeleteOrphans(r)
BidMined == (\E bid \in Bids \cup {None} : NewBlock(bid)) /\ UNCHANGED rows
BidsReorganised == Reorg /\ UNCHANGED rows
\* The steps on a chain that only grows.
DemandGrows == BidMined \/ \E r \in Runs : IngestStep(r) \/ IngestFails(r)
DemandNext == DemandGrows \/ BidsReorganised
GrowingSpec == ScanInit /\ DemandInit /\ [][DemandGrows]_demandVars

-----------------------------------------------------------------------------
\* Whatever ingest moved the cursor, and however it ended, every bid behind it
\* that a reorganisation can no longer touch counts in the demand.
NoBidLost == cursor # None => Through(cursor - REORG_REPLAY) \cap Bids \subseteq Recorded

=============================================================================
