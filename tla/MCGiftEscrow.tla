---------------------------- MODULE MCGiftEscrow ----------------------------
(***************************************************************************)
(* Instances of GiftEscrow for TLC.  Each behaviour is of one journey:     *)
(*   "claim"    a card in escrow, whatever the constants allow             *)
(*   "setup"    two setups of one token, from their preparation; one of    *)
(*              them may expire                                            *)
(*   "handoff"  a card in escrow, claimed and cancelled, with deaths,      *)
(*              evictions and another writer on the operator account       *)
(*   "escrow"   a card in escrow, with redemption locks while it is there  *)
(*              and invocations that outlive their lease                   *)
(*   "approval" a card its sender holds, who moves the token and revokes   *)
(***************************************************************************)
EXTENDS GiftEscrow, TLC, FiniteSets

CONSTANTS c1, c2, c3, t1, t2, alice, bob, r1, r2, Journeys

VARIABLE journey

\* c1 and c2 share a token in a setup; elsewhere each card has its own.
OneToken == [c \in Cards |-> t1]
SharedToken == [c \in Cards |-> IF c = c3 THEN t2 ELSE t1]
OwnToken == [c \in Cards |-> IF c = c1 THEN t1 ELSE t2]
SentByAlice == [c \in Cards |-> alice]

Interchangeable == Permutations(Reqs)
Setups == Permutations(Reqs) \cup Permutations({c1, c2})

-----------------------------------------------------------------------------
Handled(cards, ops) ==
  \A p \in Reqs : req'[p].gift \in cards \cup {None} /\ req'[p].op \in ops \cup {None}

\* One transfer is taken up (recording its nonce moves the clock too), and
\* nothing goes wrong around it.
SetupNext ==
  /\ CreateNext \/ TransferNext \/ MineNext
     \/ \E c \in Cards : Expire(c) \/ WalletSendsDeposit(c) \/ DepositMined(c)
  /\ clock' > clock => clock = 0 \/ \E p \in Reqs : req[p].pc = "record" /\ req'[p].pc = "broadcast"
  /\ Len(txs') <= 1 /\ c3 \notin expired' /\ Cardinality(expired') <= 1
  /\ Handled({c1, c2}, {"prepare", "confirm", "resume", "cancel"})

JourneyNext ==
  \/ journey = "setup" /\ SetupNext
  \/ /\ journey = "handoff" /\ Next /\ Handled({c3}, {"claim", "cancel"}) /\ expired' = {}
     /\ \A i, j \in DOMAIN txs' : txs'[i].gift = Other /\ txs'[j].gift = Other => i = j
  \/ /\ journey = "escrow" /\ Next /\ Handled({c1}, {"claim", "cancel"})
     /\ owner'[t2] = alice /\ t2 \notin locked' /\ t2 \in approved'
     /\ locked' # locked => owner[t1] = Escrow
     /\ ReportsInTime
  \/ /\ journey = "approval" /\ Next /\ Handled({c2}, {"claim", "cancel"})
     /\ locked' = {} /\ (LeaseExpires => lease = Orphan)
     /\ ReportsInTime
  \/ journey = "claim" /\ Next

MCInit == Init /\ journey \in Journeys

MCSpec == MCInit /\ [][JourneyNext /\ UNCHANGED journey]_<<vars, journey>>
MCPatient == MCSpec /\ Patience
=============================================================================
