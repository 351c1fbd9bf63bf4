--------------------------- MODULE EventProjection ---------------------------
(***************************************************************************)
(* The browser's copy of the chain's events (services/chain/projection.ts, *)
(* the queue of its scans in chainService.ts and reducer.ts).  The cache   *)
(* is IndexedDB's, shared by the tabs; a tab runs one scan and lets one    *)
(* more wait.  The chain is LogScan's.                                     *)
(*                                                                         *)
(* scan[s] is one call of syncProjection by a tab: it read the cache's     *)
(* mark, scans from there to the head it read, and found are the events of *)
(* all its chunks, chunk those of the one being read.                      *)
(***************************************************************************)
EXTENDS LogScan

CONSTANTS Tabs, Scans, Tokens, MaxListings

VARIABLES
  cache,     \* what IndexedDB holds: events by block, and the mark it was scanned through
  scan,
  current,   \* projectionPromise of each tab: its running scan
  queued,    \* queuedProjectionPromise: "none", "waiting", "running"
  shown      \* settledSnapshot of each tab

projectionVars == <<blocks, cache, scan, current, queued, shown>>
Resting == [pc |-> "none"]
Empty == [events |-> {}, through |-> None, latest |-> None]

\* External: the marketplace lists a token, or ends its listing.
Listing(type, token, n) == [type |-> type, token |-> token, n |-> n]
InRange(from, to) ==
  {[block |-> b, event |-> blocks[b]] : b \in {b \in DOMAIN blocks : from <= b /\ b <= to /\ blocks[b] # None}}
ListedAt(last) ==
  {t \in Tokens : \E b \in 1..last : /\ blocks[b] # None /\ blocks[b].token = t /\ blocks[b].type = "Listed"
                                     /\ \A c \in (b + 1)..last : blocks[c] # None => blocks[c].token # t}
MarketEvents ==
  {None} \cup {Listing("Listed", t, n) : t \in Tokens \ ListedAt(Len(blocks)), n \in 1..MaxListings}
         \cup {Listing(type, t, n) : type \in {"ListingCancelled", "Purchased"},
                                     t \in ListedAt(Len(blocks)), n \in 1..MaxListings}

-----------------------------------------------------------------------------
\* reducer.ts: events in the order of the chain.
reduceDiscovery(events) ==
  {t \in Tokens : \E e \in events :
     /\ e.event.type = "Listed" /\ e.event.token = t
     /\ \A f \in events : f.event.token = t /\ f.event.type # "Listed" => f.block < e.block}

Start(t, s) == scan' = [scan EXCEPT ![s] = [pc |-> "open", tab |-> t]] /\ current' = [current EXCEPT ![t] = s]
Free == {s \in Scans : scan[s].pc = "none"}

\* A view wants the events and the last snapshot is stale.
Wanted(t) ==
  /\ current[t] = None /\ queued[t] = "none"
  /\ \E s \in Free : Start(t, s)
  /\ UNCHANGED <<blocks, cache, queued, shown>>

\* A transaction was confirmed: a running scan is followed by one more.
Refresh(t) ==
  /\ queued[t] = "none"
  /\ IF current[t] = None
     THEN (\E s \in Free : Start(t, s)) /\ UNCHANGED queued
     ELSE queued' = [queued EXCEPT ![t] = "waiting"] /\ UNCHANGED <<scan, current>>
  /\ UNCHANGED <<blocks, cache, shown>>

\* The scan's promise settles, and the waiting one starts in its place.
Settle(s, snapshot) ==
  LET t == scan[s].tab IN
  /\ shown' = [shown EXCEPT ![t] = snapshot]
  /\ IF queued[t] = "waiting"
     THEN /\ scan' = [scan EXCEPT ![s] = [pc |-> "open", tab |-> t]]
          /\ queued' = [queued EXCEPT ![t] = "running"] /\ UNCHANGED current
     ELSE /\ scan' = [scan EXCEPT ![s] = Resting] /\ queued' = [queued EXCEPT ![t] = "none"]
          /\ current' = [current EXCEPT ![t] = None]

-----------------------------------------------------------------------------
\* A cache that cannot be read is deleted.
ReadCache(s) ==
  /\ scan[s].pc = "open"
  /\ cache' \in {cache, Empty}
  /\ scan' = [scan EXCEPT ![s] = [pc |-> "head", tab |-> @.tab, prior |-> cache'.through]]
  /\ UNCHANGED <<blocks, current, queued, shown>>

resumeFrom(prior) == IF prior = None THEN 1 ELSE IF prior > REORG_REPLAY THEN prior - REORG_REPLAY ELSE 1

ReadLatest(s) ==
  /\ scan[s].pc = "head"
  /\ LET from == resumeFrom(scan[s].prior) IN
     scan' = [scan EXCEPT ![s] = [pc |-> IF from > Len(blocks) THEN "final" ELSE "chunk", tab |-> @.tab,
                                  from |-> from, latest |-> Len(blocks), position |-> from,
                                  upto |-> 0, chunk |-> {}, found |-> {}]]
  /\ UNCHANGED <<blocks, cache, current, queued, shown>>

ReadChunk(s) ==
  /\ scan[s].pc = "chunk"
  /\ \E to \in scan[s].position..scan[s].latest :
       LET logs == InRange(scan[s].position, to) IN
       scan' = [scan EXCEPT ![s].pc = "checkpoint", ![s].upto = to, ![s].chunk = logs, ![s].found = @ \cup logs]
  /\ UNCHANGED <<blocks, cache, current, queued, shown>>

\* Mutant: an event that is not read again stays.
mergeRange(from, events, through, latest) ==
  cache' = [events |-> cache.events \cup events, through |-> through, latest |-> latest]
\* One transaction: everything from a block on gives way to what was read.
replaceRange(from, events, through, latest) ==
  cache' = [events |-> {e \in cache.events : e.block < from} \cup events, through |-> through, latest |-> latest]

Checkpoint(s) ==
  /\ scan[s].pc = "checkpoint"
  /\ replaceRange(scan[s].position, scan[s].chunk, scan[s].upto, scan[s].latest)
  /\ scan' = [scan EXCEPT ![s].pc = IF scan[s].upto = scan[s].latest THEN "final" ELSE "chunk",
                          ![s].position = scan[s].upto + 1]
  /\ UNCHANGED <<blocks, current, queued, shown>>

ReplaceRescanned(s) ==
  /\ scan[s].pc = "final"
  /\ replaceRange(scan[s].from, scan[s].found, scan[s].latest, scan[s].latest)
  /\ scan' = [scan EXCEPT ![s].pc = "fresh"]
  /\ UNCHANGED <<blocks, current, queued, shown>>

ReadFresh(s) ==
  /\ scan[s].pc = "fresh"
  /\ Settle(s, [events |-> cache.events, through |-> scan[s].latest])
  /\ UNCHANGED <<blocks, cache>>

\* A provider or the database refuses: what is durable is shown as partial, and
\* an empty database shows nothing new.
ScanStops(s) ==
  /\ scan[s].pc \in {"head", "chunk", "checkpoint", "final", "fresh"}
  /\ Settle(s, IF cache = Empty THEN shown[scan[s].tab]
               ELSE [events |-> cache.events, through |-> cache.through])
  /\ UNCHANGED <<blocks, cache>>

\* External: a phone suspends the page, or the tab is closed.
TabCloses(t) ==
  /\ current[t] # None
  /\ scan' = [s \in Scans |-> IF scan[s].pc # "none" /\ scan[s].tab = t THEN Resting ELSE scan[s]]
  /\ current' = [current EXCEPT ![t] = None] /\ queued' = [queued EXCEPT ![t] = "none"]
  /\ shown' = [shown EXCEPT ![t] = None] /\ UNCHANGED <<blocks, cache>>

-----------------------------------------------------------------------------
ProjectionInit ==
  /\ cache = Empty /\ scan = [s \in Scans |-> Resting] /\ current = [t \in Tabs |-> None]
  /\ queued = [t \in Tabs |-> "none"] /\ shown = [t \in Tabs |-> None]

ScanStep(s) == ReadCache(s) \/ ReadLatest(s) \/ ReadChunk(s) \/ Checkpoint(s) \/ ReplaceRescanned(s) \/ ReadFresh(s) \/ ScanStops(s)
MarketMoves == \E e \in MarketEvents : NewBlock(e)
MarketReorganised == Reorg
ProjectionNext ==
  \/ (\E s \in Scans : ScanStep(s)) /\ UNCHANGED <<sent, cursor, run>>
  \/ (\E t \in Tabs : Wanted(t) \/ Refresh(t) \/ TabCloses(t)) /\ UNCHANGED <<sent, cursor, run>>
  \/ (MarketMoves \/ MarketReorganised) /\ UNCHANGED <<cache, scan, current, queued, shown>>

-----------------------------------------------------------------------------
\* What the properties assume of the tabs and of the chain.

\* The tabs take turns: no scan starts while another tab's is on its way.
OneScan == \A s, u \in Scans : scan'[s].pc # "none" /\ scan'[u].pc # "none" => s = u

\* The heads that were read: the cache's mark, a running scan's, a snapshot's.
Scanning(s) == scan[s].pc \in {"chunk", "checkpoint", "final", "fresh"}
Heads ==
  {scan[s].latest : s \in {s \in Scans : Scanning(s)}}
  \cup {shown[t].through : t \in {t \in Tabs : shown[t] # None}}
  \cup {copy.through : copy \in {cache} \ {Empty}}

\* A reorganisation leaves alone what is REORG_REPLAY blocks behind each of them.
MarketIsFinal == MarketReorganised => \A head \in Heads : Len(blocks') >= head - REORG_REPLAY

TurnsSpec ==
  /\ ScanInit /\ ProjectionInit
  /\ [][ProjectionNext /\ OneScan /\ MarketIsFinal]_<<projectionVars, sent, cursor, run>>

-----------------------------------------------------------------------------
\* The cache is a contiguous, correct prefix ending at its mark, up to the
\* blocks that the next scan reads again; nothing else would ever repair it.
Settled(events, through) == {e \in events : e.block <= through - REORG_REPLAY}
PrefixIsWhole ==
  cache.through # None =>
    Settled(cache.events, cache.through) = InRange(1, cache.through - REORG_REPLAY)

\* What a view derives from a snapshot, full or partial, is what the market was
\* at the blocks that it says it covers.
DiscoveryIsMarkets ==
  \A t \in Tabs : shown[t] # None /\ shown[t].through <= Len(blocks) =>
    LET last == shown[t].through - REORG_REPLAY IN
    last > 0 => reduceDiscovery(Settled(shown[t].events, shown[t].through)) = ListedAt(last)
=============================================================================
