------------------------------- MODULE LogScan -------------------------------
(***************************************************************************)
(* The resumable scan of one contract's logs (_shared/logScan.ts) and its  *)
(* durable cursor (v1-notify-sweep cursorFor, commitCursor), with a chain  *)
(* whose newest blocks may be reorganised.                                 *)
(*                                                                         *)
(* run[r] is an invocation's own state: scanning from, it stands at        *)
(* position, has read the blocks up to upto, and logs are the events of    *)
(* that chunk it has still to handle.                                      *)
(***************************************************************************)
EXTENDS Integers, Sequences, FiniteSets, SequencesExt

CONSTANTS
  Runs,           \* invocations of the sweep that may overlap
  REORG_REPLAY,   \* blocks read again before the cursor
  MaxBlock,       \* bound: blocks of the chain
  None

ASSUME ReplayIsNat == REORG_REPLAY \in Nat

VARIABLES
  blocks,   \* the canonical chain, at most one event of the contract per block
  sent,     \* events whose transactions were ever mined: a reorg returns them to the pool
  cursor,   \* scanned_through_block, None before the first run
  run

scanVars == <<blocks, sent, cursor, run>>

-----------------------------------------------------------------------------
\* External: the chain.
OnChain(event) == \E b \in DOMAIN blocks : blocks[b] = event
Through(last) == {blocks[b] : b \in {b \in DOMAIN blocks : b <= last}} \ {None}

NewBlock(event) ==
  /\ Len(blocks) < MaxBlock /\ ~(event # None /\ OnChain(event))
  /\ blocks' = Append(blocks, event) /\ sent' = (sent \cup {event}) \ {None}
  /\ UNCHANGED <<cursor, run>>

\* The newest blocks give way to others, mined after this.
Reorg ==
  \E depth \in 1..REORG_REPLAY :
    /\ depth <= Len(blocks) /\ blocks' = SubSeq(blocks, 1, Len(blocks) - depth)
    /\ UNCHANGED <<sent, cursor, run>>

-----------------------------------------------------------------------------
Idle == [pc |-> "idle"]
Go(r, pc) == run' = [run EXCEPT ![r].pc = pc]

ReadHead(r) ==
  /\ run[r].pc = "idle"
  /\ run' = [run EXCEPT ![r] = [pc |-> "attach", head |-> Len(blocks), from |-> 0, position |-> 0,
                                upto |-> 0, logs |-> <<>>, sends |-> <<>>, profile |-> FALSE,
                                due |-> <<>>]]
  /\ UNCHANGED <<blocks, sent, cursor>>

\* Mutant: the scan goes on where it stopped.
cursorAfter == IF cursor = None THEN 1 ELSE cursor + 1
\* A first run starts at the window's floor, the chain's first block here.
cursorFor == IF cursor = None THEN 1 ELSE IF cursor > REORG_REPLAY THEN cursor - REORG_REPLAY ELSE 0

BeginScan(r) ==
  /\ run[r].pc = "cursor"
  /\ run' = [run EXCEPT ![r].from = cursorFor, ![r].position = cursorFor,
                        ![r].pc = IF cursorFor > run[r].head THEN "deadlines" ELSE "scan"]
  /\ UNCHANGED <<blocks, sent, cursor>>

\* External: eth_getLogs returns the events of a range in the chain's order.
EventBlocks(first, last) == {b \in DOMAIN blocks : first <= b /\ b <= last /\ blocks[b] # None}
LogsOf(first, last) ==
  LET B == EventBlocks(first, last) IN
  [i \in 1..Cardinality(B) |-> blocks[CHOOSE b \in B : Cardinality({c \in B : c <= b}) = i]]

\* It is asked for a range no wider than the provider takes.
GetLogs(r) ==
  /\ run[r].pc = "scan"
  /\ \E last \in run[r].position..run[r].head :
       run' = [run EXCEPT ![r].upto = last, ![r].pc = "event", ![r].logs = LogsOf(run[r].position, last)]
  /\ UNCHANGED <<blocks, sent, cursor>>

\* Every so many chunks the ground covered is committed.
ChunkDone(r) ==
  /\ run[r].pc = "event" /\ run[r].logs = <<>>
  /\ run' = [run EXCEPT ![r].position = run[r].upto + 1, ![r].pc = "scan"]
  /\ cursor' \in {cursor, run[r].upto}
  /\ UNCHANGED <<blocks, sent>>

\* The head is reached, or the budget is spent: even before the first chunk.
EndScan(r) ==
  /\ run[r].pc = "scan" /\ cursor' = run[r].position - 1
  /\ Go(r, "deadlines") /\ UNCHANGED <<blocks, sent>>

\* The provider refuses even the narrowest range.
Outage(r) ==
  /\ run[r].pc = "scan"
  /\ cursor' = IF run[r].position > run[r].from THEN run[r].position - 1 ELSE cursor
  /\ run' = [run EXCEPT ![r] = Idle] /\ UNCHANGED <<blocks, sent>>

\* Mutant: the scan goes on with the next event.
ThrowsSwallowed(r) ==
  /\ run[r].pc = "insert" /\ run[r].due = <<>>
  /\ run' = [run EXCEPT ![r].pc = "event", ![r].sends = <<>>, ![r].logs = Tail(run[r].logs)]
  /\ UNCHANGED <<blocks, sent, cursor>>
\* A handler throws: the range is asked for again, narrower.
Throws(r) ==
  /\ run[r].pc = "insert" /\ run[r].due = <<>>
  /\ run' = [run EXCEPT ![r].pc = "scan", ![r].sends = <<>>, ![r].logs = <<>>]
  /\ UNCHANGED <<blocks, sent, cursor>>

\* External: the worker is killed, or the sweep runs out of its time.
Die(r) ==
  /\ run[r].pc # "idle"
  /\ run' = [run EXCEPT ![r] = Idle] /\ UNCHANGED <<blocks, sent, cursor>>

ScanInit ==
  /\ blocks = <<>> /\ sent = {} /\ cursor = None /\ run = [r \in Runs |-> Idle]
=============================================================================
