---------------------------- MODULE Copies_proofs ----------------------------
(***************************************************************************)
(* What the product's copies of other people's decisions keep, for every   *)
(* number of requests, deliveries, ingests and blocks.                     *)
(***************************************************************************)
EXTENDS DemandScan, EventProjection, KycReview, WalletLinks, WellFoundedInduction, TLAPS

-----------------------------------------------------------------------------
(* WalletLinks: a nonce proves one wallet. *)

Nonced == [profile : Profiles \cup {Nobody}, state : {"none", "issued", "used", "expired"}]
Verifying ==
  [pc : {"primary", "clear", "upsert"}, profile : Profiles, wallet : Wallets, nonce : Nonces,
   confirm : BOOLEAN]
LinksTyped ==
  /\ nonce \in [Nonces -> Nonced]
  /\ links \in [Wallets -> {Nobody} \cup [profile : Profiles, primary : BOOLEAN, nonce : Nonces]]
  /\ verify \in [Requests -> {NotVerifying} \cup Verifying]

\* A nonce that a request or a link carries is used, and nobody else carries it.
CarriedIsUsed ==
  /\ \A v \in Requests : verify[v] # NotVerifying => nonce[verify[v].nonce].state = "used"
  /\ \A w \in Wallets : links[w] # Nobody => nonce[links[w].nonce].state = "used"
CarriedOnce ==
  /\ \A v, u \in Requests :
       v # u /\ verify[v] # NotVerifying /\ verify[u] # NotVerifying => verify[v].nonce # verify[u].nonce
  /\ \A v \in Requests, w \in Wallets :
       verify[v] # NotVerifying /\ links[w] # Nobody => links[w].nonce # verify[v].nonce
  /\ NonceOnce
LinksInv == LinksTyped /\ CarriedIsUsed /\ CarriedOnce

LEMMA LinksFirst == LinksInit => LinksInv
BY DEF LinksInit, LinksInv, LinksTyped, CarriedIsUsed, CarriedOnce, NonceOnce, Nonced, NotVerifying

\* A request that ends or goes on carries no other nonce.
LEMMA CarriesNoOther ==
  ASSUME LinksInv, NEW v \in Requests, verify[v] # NotVerifying,
         NEW step \in {NotVerifying} \cup Verifying, step = NotVerifying \/ step.nonce = verify[v].nonce,
         verify' = [verify EXCEPT ![v] = step], UNCHANGED <<nonce, links>>
  PROVE  LinksInv'
<1>1. LinksTyped'  BY DEF LinksInv, LinksTyped
<1>2. \A u \in Requests : verify'[u] # NotVerifying =>
        verify[u] # NotVerifying /\ verify'[u].nonce = verify[u].nonce
  BY DEF LinksInv, LinksTyped
<1>3. CarriedIsUsed'  BY <1>2 DEF LinksInv, CarriedIsUsed
<1>4. CarriedOnce'  BY <1>2 DEF LinksInv, CarriedOnce, NonceOnce
<1>. QED  BY <1>1, <1>3, <1>4 DEF LinksInv

LEMMA LinksStep == LinksInv /\ [LinksNext]_linkVars => LinksInv'
<1>. SUFFICES ASSUME LinksInv, [LinksNext]_linkVars  PROVE LinksInv'  OBVIOUS
<1>. USE DEF LinksInv
<1>1. CASE UNCHANGED linkVars
  BY <1>1 DEF linkVars, LinksTyped, CarriedIsUsed, CarriedOnce, NonceOnce
<1>2. ASSUME NEW n \in Nonces, NonceExpires(n) \/ \E p \in Profiles : IssueNonce(n, p)
      PROVE  LinksInv'
  <2>1. LinksTyped'  BY <1>2 DEF NonceExpires, IssueNonce, LinksTyped, Nonced
  <2>2. \A m \in Nonces : nonce[m].state = "used" => nonce'[m].state = "used"
    BY <1>2 DEF NonceExpires, IssueNonce, LinksTyped, Nonced
  <2>3. CarriedIsUsed'
    BY <1>2, <2>2 DEF NonceExpires, IssueNonce, CarriedIsUsed, LinksTyped, Verifying
  <2>4. CarriedOnce'  BY <1>2 DEF NonceExpires, IssueNonce, CarriedOnce, NonceOnce
  <2>. QED  BY <2>1, <2>3, <2>4
<1>3. ASSUME NEW v \in Requests, NEW p \in Profiles, NEW n \in Nonces, NEW w \in Wallets,
             NEW confirm \in BOOLEAN, ConsumeNonce(v, p, n, w, confirm)
      PROVE  LinksInv'
  <2>. DEFINE step == [pc |-> "primary", profile |-> p, wallet |-> w, nonce |-> n, confirm |-> confirm]
  <2>1. step \in Verifying /\ step.nonce = n  BY DEF Verifying
  <2>2. verify' = [verify EXCEPT ![v] = step] /\ links' = links  BY <1>3 DEF ConsumeNonce
  <2>. HIDE DEF step
  <2>3. nonce[n].state = "issued" /\ nonce' = [nonce EXCEPT ![n].state = "used"]
    BY <1>3 DEF ConsumeNonce
  <2>4. LinksTyped'  BY <2>1, <2>2, <2>3 DEF LinksTyped, Nonced
  <2>5. CarriedIsUsed'
    BY <2>1, <2>2, <2>3 DEF CarriedIsUsed, LinksTyped, Nonced, Verifying
  <2>6. CarriedOnce'
    BY <2>1, <2>2, <2>3 DEF CarriedIsUsed, CarriedOnce, NonceOnce, LinksTyped
  <2>. QED  BY <2>4, <2>5, <2>6
<1>4. ASSUME NEW v \in Requests, ReadPrimary(v) \/ VerifyDies(v)  PROVE LinksInv'
  <2>1. verify[v] # NotVerifying  BY <1>4 DEF ReadPrimary, VerifyDies, NotVerifying
  <2>2. [verify[v] EXCEPT !.pc = "clear"] \in Verifying
    BY <2>1 DEF LinksTyped, Verifying
  <2>3. PICK step \in {NotVerifying, [verify[v] EXCEPT !.pc = "clear"]} :
          verify' = [verify EXCEPT ![v] = step] /\ UNCHANGED <<nonce, links>>
    BY <1>4 DEF ReadPrimary, VerifyDies
  <2>4. step = NotVerifying \/ step.nonce = verify[v].nonce
    BY <2>1, <2>3 DEF LinksTyped, Verifying
  <2>. QED  BY <2>1, <2>2, <2>3, <2>4, CarriesNoOther
<1>5. ASSUME NEW v \in Requests, ClearPrimary(v)  PROVE LinksInv'
  <2>. DEFINE step == [verify[v] EXCEPT !.pc = "upsert"]
  <2>1. verify[v] # NotVerifying  BY <1>5 DEF ClearPrimary, NotVerifying
  <2>2. step \in Verifying /\ step.nonce = verify[v].nonce  BY <2>1 DEF LinksTyped, Verifying
  <2>3. verify' = [verify EXCEPT ![v] = step] /\ nonce' = nonce  BY <1>5 DEF ClearPrimary
  <2>. HIDE DEF step
  <2>. DEFINE kept(w) == \/ links'[w] = links[w]
                         \/ links[w] # Nobody /\ links'[w] = [links[w] EXCEPT !.primary = FALSE]
  <2>4. links' = [w \in Wallets |-> links'[w]] /\ \A w \in Wallets : kept(w)
    BY <1>5 DEF ClearPrimary, Cleared, LinksOf, LinksTyped
  <2>5. ASSUME NEW w \in Wallets
        PROVE  /\ links'[w] \in {Nobody} \cup [profile : Profiles, primary : BOOLEAN, nonce : Nonces]
               /\ links'[w] # Nobody => links[w] # Nobody /\ links'[w].nonce = links[w].nonce
    BY <2>4 DEF LinksTyped
  <2>. HIDE DEF kept
  <2>6. LinksTyped'  BY <2>2, <2>3, <2>4, <2>5 DEF LinksTyped
  <2>7. CarriedIsUsed'  BY <2>1, <2>2, <2>3, <2>5 DEF CarriedIsUsed, LinksTyped
  <2>8. CarriedOnce'  BY <2>1, <2>2, <2>3, <2>5 DEF CarriedOnce, NonceOnce, LinksTyped
  <2>. QED  BY <2>6, <2>7, <2>8
<1>6. ASSUME NEW v \in Requests, UpsertLink(v)  PROVE LinksInv'
  <2>1. verify[v] \in Verifying /\ verify[v] # NotVerifying
    BY <1>6 DEF UpsertLink, LinksTyped, NotVerifying
  <2>2. verify' = [verify EXCEPT ![v] = NotVerifying] /\ nonce' = nonce  BY <1>6 DEF UpsertLink
  <2>3. CASE links' = links  BY <2>1, <2>2, <2>3, CarriesNoOther
  <2>4. CASE links' = [links EXCEPT ![verify[v].wallet] =
                 [profile |-> verify[v].profile, primary |-> TRUE, nonce |-> verify[v].nonce]]
    <3>1. LinksTyped'  BY <2>1, <2>2, <2>4 DEF LinksTyped, Verifying
    <3>2. \A w \in Wallets : \/ links'[w] = links[w]
                             \/ w = verify[v].wallet /\ links'[w].nonce = verify[v].nonce
      BY <2>1, <2>4 DEF LinksTyped, Verifying
    <3>3. CarriedIsUsed'  BY <2>1, <2>2, <3>2 DEF CarriedIsUsed, LinksTyped
    <3>4. CarriedOnce'
      BY <2>1, <2>2, <3>2 DEF CarriedOnce, NonceOnce, LinksTyped
    <3>. QED  BY <3>1, <3>3, <3>4
  <2>. QED  BY <1>6, <2>3, <2>4 DEF UpsertLink
<1>. QED  BY <1>1, <1>2, <1>3, <1>4, <1>5, <1>6 DEF LinksNext, VerifyStep

\* However many requests bring a nonce at a time, and whatever dies between the
\* statements, the nonce ends in the link of one wallet (v1-siwe-verify).
THEOREM NonceProvesOneWallet == LinksSpec => []NonceOnce
<1>1. LinksInv => NonceOnce  BY DEF LinksInv, CarriedOnce
<1>. QED  BY LinksFirst, LinksStep, <1>1, PTL DEF LinksSpec

-----------------------------------------------------------------------------
(* KycReview: the row says what the event created last said. *)

Created == [at : Nat, e : Payloads]
Statuses == {"approved", "rejected", "pending", "not_started", "on_hold"}
Rows == [status : Statuses, last : Nat \cup {Absent}]
KycTyped ==
  /\ made \in Seq(Created)
  /\ handled \subseteq DOMAIN made
  /\ kyc \in {Absent} \cup Rows
  /\ session \in {"none", "restart"}

Says(i) == statusFromReview(made[i].e)

\* The row carries the time of the last verdict it took, which no verdict on
\* record is younger than.
LastIsLatest ==
  IF Verdicts = {} THEN kyc # Absent => kyc.status = "pending" /\ kyc.last = Absent
  ELSE /\ kyc # Absent /\ kyc.last \in Nat
       /\ \A j \in Verdicts : made[j].at <= kyc.last
       /\ \E i \in Verdicts :
            /\ made[i].at = kyc.last
            /\ kyc.status = Says(i) \/ (Says(i) = "not_started" /\ kyc.status = "pending")
KycInv == KycTyped /\ LastIsLatest /\ (session = "restart" => kyc # Absent)

LEMMA VerdictIsStatus ==
  ASSUME AbsentIsNoValue, NEW e \in Payloads
  PROVE  /\ statusFromReview(e) \in Statuses \cup {Absent}
         /\ statusFromReview(e) # Absent => e.type \in APPLICANT_REVIEW_TYPES /\ e.review # Absent
         /\ statusFromReview(e) \notin {Absent, "approved"} => e # Payload("applicantReviewed", "completed", "GREEN")
<1>1. Absent \notin {"approved", "rejected", "pending", "not_started", "on_hold", "completed", "onHold", "init"}
  BY DEF AbsentIsNoValue
<1>2. \/ e.type = "applicantReviewed" /\ e.review = "completed" /\ e.answer \in {"GREEN", "RED"}
      \/ e.type = "applicantPending" /\ e.review = "pending"
      \/ e.type = "applicantReviewed" /\ e.review = "onHold"
      \/ e.type = "applicantReset" /\ e.review = "init"
      \/ e.type = "applicantDeactivated" /\ e.review = "completed"
      \/ e.type = "applicantPersonalInfoChanged" /\ e.review = Absent
      \/ e.type = "applicantActionReviewed"
  BY DEF Payloads, Payload
<1>3. e.type \notin APPLICANT_REVIEW_TYPES => statusFromReview(e) = Absent  BY DEF statusFromReview
<1>6. e.type \in APPLICANT_REVIEW_TYPES /\ e.review = Absent => e.type = "applicantPersonalInfoChanged"
  BY <1>1, <1>2 DEF APPLICANT_REVIEW_TYPES
<1>7. e.type = "applicantPersonalInfoChanged" /\ e.review = Absent => statusFromReview(e) = Absent
  BY <1>1 DEF statusFromReview
<1>4. statusFromReview(e) \in Statuses \cup {Absent}
  BY DEF statusFromReview, Statuses
<1>5. e = Payload("applicantReviewed", "completed", "GREEN") => statusFromReview(e) = "approved"
  BY <1>1 DEF Payload, statusFromReview, APPLICANT_REVIEW_TYPES
<1>. QED  BY <1>3, <1>4, <1>5, <1>6, <1>7

LEMMA KycFirst == AbsentIsNoValue /\ KycInit => KycInv
BY DEF KycInit, KycInv, KycTyped, LastIsLatest, Verdicts

LEMMA KycStep == AbsentIsNoValue /\ KycInv /\ [KycNext]_kycVars => KycInv'
<1>. SUFFICES ASSUME AbsentIsNoValue, KycInv, [KycNext]_kycVars  PROVE KycInv'  OBVIOUS
<1>. USE DEF KycInv
<1>1. CASE UNCHANGED kycVars
  <2>1. made' = made /\ handled' = handled /\ kyc' = kyc /\ session' = session  BY <1>1 DEF kycVars
  <2>2. Verdicts' = Verdicts /\ \A i : Says(i)' = Says(i)  BY <2>1 DEF Verdicts, Says
  <2>. QED  BY <2>1, <2>2 DEF KycTyped, LastIsLatest
<1>2. CASE SumsubCreates
  <2>1. PICK event \in Created : made' = Append(made, event)
    <3>1. PICK e \in Payloads, tick \in {0, 1} :
            made' = Append(made, [at |-> (IF made = <<>> THEN 0 ELSE made[Len(made)].at) + tick, e |-> e])
      BY <1>2 DEF SumsubCreates
    <3>2. made # <<>> => made[Len(made)] \in Created  BY DEF KycTyped
    <3>3. (IF made = <<>> THEN 0 ELSE made[Len(made)].at) \in Nat  BY <3>2 DEF Created
    <3>. QED  BY <3>1, <3>3 DEF Created
  <2>2. handled' = handled /\ kyc' = kyc /\ session' = session  BY <1>2 DEF SumsubCreates
  <2>3. KycTyped' /\ \A i \in handled : made'[i] = made[i]  BY <2>1, <2>2 DEF KycTyped
  <2>4. Verdicts' = Verdicts /\ \A i \in Verdicts : Says(i)' = Says(i) /\ made'[i] = made[i]
    BY <2>2, <2>3 DEF Verdicts, Says
  <2>5. LastIsLatest'  BY <2>2, <2>4 DEF LastIsLatest
  <2>. QED  BY <2>2, <2>3, <2>5
<1>3. ASSUME NEW i \in 1..MaxEvents, apply_sumsub_webhook_event(i)  PROVE KycInv'
  <2>1. /\ i \in DOMAIN made \ handled /\ handled' = handled \cup {i}
        /\ made' = made /\ session' = session
    BY <1>3 DEF apply_sumsub_webhook_event
  <2>2. made[i].at \in Nat /\ made[i].e \in Payloads
    <3>1. made[i] \in Created  BY <2>1 DEF KycTyped
    <3>. QED  BY <3>1 DEF Created
  <2>3. \A j : Says(j)' = Says(j)  BY <2>1 DEF Says
  <2>4. CASE Says(i) = Absent
    <3>1. kyc' = kyc  BY <1>3, <2>4 DEF apply_sumsub_webhook_event, Says
    <3>2. Verdicts' = Verdicts  BY <2>1, <2>3, <2>4 DEF Verdicts, Says
    <3>. QED  BY <2>1, <2>3, <3>1, <3>2 DEF KycTyped, LastIsLatest
  <2>5. CASE Says(i) # Absent
    <3>1. Says(i) \in Statuses  BY <2>2, <2>5, VerdictIsStatus DEF Says
    <3>2. Verdicts' = Verdicts \cup {i}  BY <2>1, <2>3, <2>5 DEF Verdicts, Says
    <3>3. kyc' = IF kyc = Absent \/ kyc.last = Absent \/ kyc.last <= made[i].at
                 THEN [status |-> Says(i), last |-> made[i].at] ELSE kyc
      BY <1>3, <2>5 DEF apply_sumsub_webhook_event, Says
    <3>4. [status |-> Says(i), last |-> made[i].at] \in Rows  BY <2>2, <3>1 DEF Rows
    <3>5. [status |-> Says(i), last |-> made[i].at] # Absent
      BY <3>4 DEF AbsentIsNoValue, Rows, Statuses
    <3>6. KycTyped' /\ (session' = "restart" => kyc' # Absent)
      BY <2>1, <3>3, <3>4, <3>5 DEF KycTyped
    <3>7. \A j \in Verdicts : kyc.last \in Nat => made[j].at <= kyc.last  BY DEF LastIsLatest
    <3>8. CASE kyc = Absent \/ kyc.last = Absent \/ kyc.last <= made[i].at
      <4>1. kyc' = [status |-> Says(i), last |-> made[i].at]  BY <3>3, <3>8
      <4>2. \A j \in Verdicts : made[j].at <= made[i].at
        <5>1. \A j \in Verdicts : kyc # Absent /\ kyc.last \in Nat /\ kyc.last # Absent
          BY DEF LastIsLatest, AbsentIsNoValue
        <5>2. \A j \in Verdicts : made[j] \in Created  BY DEF Verdicts, KycTyped
        <5>. QED  BY <2>2, <3>7, <3>8, <5>1, <5>2 DEF Created
      <4>3. LastIsLatest'  BY <2>1, <2>2, <2>3, <3>2, <3>5, <4>1, <4>2 DEF LastIsLatest
      <4>. QED  BY <3>6, <4>3
    <3>9. CASE ~(kyc = Absent \/ kyc.last = Absent \/ kyc.last <= made[i].at)
      <4>1. kyc' = kyc  BY <3>3, <3>9
      <4>2. Verdicts # {} /\ kyc.last \in Nat /\ made[i].at <= kyc.last
        BY <2>2, <3>9 DEF LastIsLatest
      <4>3. LastIsLatest'  BY <2>1, <2>3, <3>2, <4>1, <4>2 DEF LastIsLatest
      <4>. QED  BY <3>6, <4>3
    <3>. QED  BY <3>6, <3>8, <3>9
  <2>. QED  BY <2>4, <2>5
<1>4. CASE TokenInserts
  <2>1. [status |-> "pending", last |-> Absent] \in Rows  BY DEF Rows, Statuses
  <2>2. [status |-> "pending", last |-> Absent] # Absent
    BY <2>1 DEF AbsentIsNoValue, Rows, Statuses
  <2>3. KycTyped' /\ kyc' # Absent  BY <1>4, <2>1, <2>2 DEF TokenInserts, KycTyped
  <2>4. made' = made /\ handled' = handled  BY <1>4 DEF TokenInserts
  <2>5. Verdicts' = Verdicts /\ \A i : Says(i)' = Says(i)  BY <2>4 DEF Verdicts, Says
  <2>6. kyc' = IF kyc = Absent THEN [status |-> "pending", last |-> Absent] ELSE kyc
    BY <1>4 DEF TokenInserts
  <2>7. LastIsLatest'  BY <2>4, <2>5, <2>6 DEF LastIsLatest
  <2>. QED  BY <2>3, <2>7
<1>5. CASE TokenRestarts
  <2>1. kyc \in Rows /\ kyc # Absent  BY <1>5 DEF TokenRestarts, KycTyped
  <2>2. /\ kyc' \in Rows /\ kyc' # Absent /\ kyc'.last = kyc.last
        /\ kyc'.status = kyc.status \/ (kyc.status = "not_started" /\ kyc'.status = "pending")
    BY <1>5, <2>1 DEF TokenRestarts, Rows, Statuses, AbsentIsNoValue
  <2>3. made' = made /\ handled' = handled /\ session' = "none"  BY <1>5 DEF TokenRestarts
  <2>4. KycTyped'  BY <2>2, <2>3 DEF KycTyped
  <2>5. Verdicts' = Verdicts /\ \A i : Says(i)' = Says(i)  BY <2>3 DEF Verdicts, Says
  <2>6. LastIsLatest'  BY <2>1, <2>2, <2>3, <2>5 DEF LastIsLatest
  <2>. QED  BY <2>2, <2>3, <2>4, <2>6
<1>. QED  BY <1>1, <1>2, <1>3, <1>4, <1>5 DEF KycNext

\* In whatever order the reviewer's webhooks come, and however often, the row
\* says what the event created last said (apply_sumsub_webhook_event).
THEOREM RowSaysLastVerdict == KycSpec => []VerdictIsLatest
<1>1. KycInv => VerdictIsLatest
  <2>. SUFFICES ASSUME KycInv, kyc # Absent  PROVE VerdictIsLatest  BY DEF VerdictIsLatest
  <2>1. CASE Verdicts = {}  BY <2>1 DEF KycInv, LastIsLatest, VerdictIsLatest
  <2>2. CASE Verdicts # {}
    <3>1. PICK i \in Verdicts :
            /\ \A j \in Verdicts : made[j].at <= made[i].at
            /\ kyc.status = Says(i) \/ (Says(i) = "not_started" /\ kyc.status = "pending")
      BY <2>2 DEF KycInv, LastIsLatest
    <3>. QED  BY <2>2, <3>1 DEF VerdictIsLatest, Latest, Says
  <2>. QED  BY <2>1, <2>2
<1>. QED  BY AbsentIsNoValue, KycFirst, KycStep, <1>1, PTL DEF KycSpec

\* An approval is only taken back on a later word of the reviewer that says so,
\* whatever the person does meanwhile (v1-sumsub-token).
THEOREM ApprovalIsReviewers == KycSpec => ApprovalStands
<1>. DEFINE Revoked ==
       kyc # Absent /\ kyc.status = "approved" /\ kyc'.status # "approved" =>
         \E i \in handled' \ handled :
           /\ made[i].at >= kyc.last /\ made[i].e.type \in APPLICANT_REVIEW_TYPES
           /\ made[i].e.review # Absent /\ made[i].e # Payload("applicantReviewed", "completed", "GREEN")
<1>1. AbsentIsNoValue /\ KycInv /\ [KycNext]_kycVars => [Revoked]_kycVars
  <2>. SUFFICES ASSUME AbsentIsNoValue, KycInv, KycNext,
                       kyc # Absent, kyc.status = "approved", kyc'.status # "approved"
                PROVE  Revoked
    OBVIOUS
  <2>1. kyc.last \in Nat  BY DEF KycInv, LastIsLatest
  <2>2. ~SumsubCreates /\ ~TokenInserts  BY DEF SumsubCreates, TokenInserts
  <2>3. ~TokenRestarts  BY DEF TokenRestarts
  <2>4. PICK i \in 1..MaxEvents : apply_sumsub_webhook_event(i)  BY <2>2, <2>3 DEF KycNext
  <2>5. /\ i \in DOMAIN made \ handled /\ handled' = handled \cup {i}
        /\ statusFromReview(made[i].e) # Absent /\ kyc.last <= made[i].at
        /\ kyc'.status = statusFromReview(made[i].e)
    BY <2>1, <2>4 DEF apply_sumsub_webhook_event, AbsentIsNoValue
  <2>6. made[i] \in Created  BY <2>5 DEF KycInv, KycTyped
  <2>. QED  BY <2>1, <2>5, <2>6, VerdictIsStatus DEF Created
<1>. QED  BY AbsentIsNoValue, KycFirst, KycStep, <1>1, PTL DEF KycSpec, ApprovalStands

-----------------------------------------------------------------------------
(* DemandScan: no bid behind the cursor is lost, on a chain that grows. *)

Found == [bid : Bids, block : Nat]
Ingests ==
  [pc : {"cursor", "scan", "write", "commit", "prune", "delete"}, head : Nat, from : Int, position : Int,
   pending : SUBSET Found, seen : SUBSET Bids, orphans : SUBSET Found,
   end : {"no", "caughtUp", "cut", "failed"}]

\* A row names the block its bid is in.  The bids below a block are all in a set.
Mined(row) == row \in Found /\ row.block \in DOMAIN blocks /\ blocks[row.block] = row.bid
Below(last, bids) == \A b \in DOMAIN blocks : b < last /\ blocks[b] \in Bids => blocks[b] \in bids
FromOn(from, last, bids) ==
  \A b \in DOMAIN blocks : from <= b /\ b < last /\ blocks[b] \in Bids => blocks[b] \in bids

\* What an ingest stands behind has been recorded or is pending, and it will
\* find nothing to remove.
Sound(x) ==
  /\ x \in Ingests /\ x.head <= Len(blocks)
  /\ \A row \in x.pending : Mined(row)
  /\ x.pc # "cursor" =>
       /\ x.position <= x.head + 1
       /\ Below(x.position, Recorded \cup {row.bid : row \in x.pending})
       /\ FromOn(x.from, x.position, x.seen)
  /\ x.pc = "commit" => x.pending = {}
  /\ x.pc = "delete" => x.orphans = {}
DemandInv ==
  /\ blocks \in Seq(Bids \cup {None})
  /\ \A row \in rows : Mined(row)
  /\ cursor # None => cursor \in Int /\ cursor <= Len(blocks) /\ Below(cursor + 1, Recorded)
  /\ run = [r \in Runs |-> run[r]] /\ \A r \in Runs : run[r] = Idle \/ Sound(run[r])

LEMMA DemandFirst == ScanInit /\ DemandInit => DemandInv
BY DEF ScanInit, DemandInit, DemandInv, Idle

\* An ingest that moves on with the rows, the cursor and the chain as they are.
LEMMA IngestMoves ==
  ASSUME DemandInv, NEW r \in Runs, NEW x, x = Idle \/ Sound(x),
         run' = [run EXCEPT ![r] = x], UNCHANGED <<blocks, cursor, rows>>
  PROVE  DemandInv'
<1>1. Recorded' = Recorded  BY DEF Recorded
<1>2. \A q \in Runs : run'[q] = Idle \/ Sound(run'[q])  BY DEF DemandInv
<1>3. \A q \in Runs : (run[q] = Idle \/ Sound(run[q]))' 
  BY <1>1, <1>2 DEF Sound, Mined, Below, FromOn
<1>. QED  BY <1>1, <1>3 DEF DemandInv, Mined, Below

\* A block that is mined is behind nobody.
LEMMA BidMinedStep == ASSUME DemandInv, BidMined  PROVE DemandInv'
<1>1. PICK event \in Bids \cup {None} : blocks' = Append(blocks, event)
  BY DEF BidMined, NewBlock
<1>2. /\ rows' = rows /\ cursor' = cursor /\ run' = run /\ Recorded' = Recorded
  BY DEF BidMined, NewBlock, Recorded
<1>3. /\ blocks' \in Seq(Bids \cup {None}) /\ Len(blocks') = Len(blocks) + 1 /\ Len(blocks) \in Nat
      /\ DOMAIN blocks = 1..Len(blocks) /\ DOMAIN blocks' = 1..(Len(blocks) + 1)
      /\ \A b \in DOMAIN blocks : blocks'[b] = blocks[b]
  BY <1>1 DEF DemandInv
<1>4. \A row : Mined(row) => Mined(row)'  BY <1>3 DEF Mined
<1>5. ASSUME NEW last \in Int, last <= Len(blocks) + 1, NEW from \in Int, NEW bids
      PROVE  /\ Below(last, bids) => Below(last, bids)'
             /\ FromOn(from, last, bids) => FromOn(from, last, bids)'
  BY <1>3, <1>5 DEF Below, FromOn
<1>6. ASSUME NEW x, Sound(x)  PROVE Sound(x)'
  <2>1. /\ x.head \in Nat /\ x.from \in Int /\ x.position \in Int
    BY <1>6 DEF Sound, Ingests
  <2>2. x.pc # "cursor" => x.position <= Len(blocks) + 1  BY <1>3, <1>6, <2>1 DEF Sound
  <2>3. x.head <= Len(blocks')  BY <1>3, <1>6, <2>1 DEF Sound
  <2>. QED  BY <1>2, <1>4, <1>5, <1>6, <2>1, <2>2, <2>3 DEF Sound
<1>7. (cursor # None => cursor <= Len(blocks) /\ Below(cursor + 1, Recorded))'
  <2>. SUFFICES ASSUME cursor # None  PROVE cursor <= Len(blocks') /\ Below(cursor + 1, Recorded)'
    BY <1>2
  <2>1. cursor \in Int /\ cursor <= Len(blocks) /\ Below(cursor + 1, Recorded)  BY DEF DemandInv
  <2>2. Below(cursor + 1, Recorded)'
    BY <1>2, <1>3, <2>1 DEF Below
  <2>. QED  BY <1>3, <2>1, <2>2
<1>. QED  BY <1>2, <1>3, <1>4, <1>6, <1>7 DEF DemandInv

LEMMA IngestStepKeeps ==
  ASSUME ReplayIsNat, DemandInv, NEW r \in Runs, IngestStep(r) \/ IngestFails(r)
  PROVE  DemandInv'
<1>. DEFINE x == run[r]
<1>1. x # Idle => Sound(x)  BY DEF DemandInv
<1>2. blocks \in Seq(Bids \cup {None}) /\ Len(blocks) \in Nat /\ DOMAIN blocks = 1..Len(blocks)
  BY DEF DemandInv
<1>3. CASE IngestBegins(r)
  <2>. DEFINE y == [pc |-> "cursor", head |-> Len(blocks), from |-> 0, position |-> 0,
                    pending |-> {}, seen |-> {}, orphans |-> {}, end |-> "no"]
  <2>1. Sound(y)  BY <1>2 DEF Sound, Ingests
  <2>2. run' = [run EXCEPT ![r] = y] /\ UNCHANGED <<blocks, cursor, rows>>  BY <1>3 DEF IngestBegins
  <2>. HIDE DEF y
  <2>. QED  BY <2>1, <2>2, IngestMoves
<1>4. CASE scannedThroughBlock(r)
  <2>1. x.pc = "cursor" /\ x # Idle  BY <1>4 DEF scannedThroughBlock, Idle
  <2>2. CASE cursorFor > x.head
    BY <1>4, <2>2, IngestMoves DEF scannedThroughBlock
  <2>3. CASE ~(cursorFor > x.head)
    <3>. DEFINE y == [x EXCEPT !.from = cursorFor, !.position = cursorFor, !.pc = "scan"]
    <3>1. cursorFor \in Int /\ cursorFor <= x.head
      BY <1>1, <2>1, <2>3 DEF DemandInv, Sound, Ingests, cursorFor, ReplayIsNat
    <3>2. Below(cursorFor, Recorded)
      BY <1>2 DEF DemandInv, Below, cursorFor, ReplayIsNat
    <3>3. y \in Ingests  BY <1>1, <2>1, <3>1 DEF Sound, Ingests
    <3>4. y.pending = x.pending /\ y.from = y.position /\ y.position = cursorFor /\ y.pc = "scan" /\ y.head = x.head
      BY <1>1, <2>1 DEF Sound, Ingests
    <3>5. run' = [run EXCEPT ![r] = y] /\ UNCHANGED <<blocks, cursor, rows>>
      BY <1>4, <2>3 DEF scannedThroughBlock
    <3>. HIDE DEF y
    <3>6. Below(y.position, Recorded \cup {row.bid : row \in y.pending})  BY <3>2, <3>4 DEF Below
    <3>7. FromOn(y.from, y.position, y.seen)  BY <1>2, <3>1, <3>4 DEF FromOn
    <3>8. x.head \in Nat /\ x.head <= Len(blocks)  BY <1>1, <2>1 DEF Sound, Ingests
    <3>9. Sound(y)  BY <1>1, <2>1, <3>1, <3>3, <3>4, <3>6, <3>7, <3>8 DEF Sound
    <3>. QED  BY <3>5, <3>9, IngestMoves
  <2>. QED  BY <2>2, <2>3
<1>5. CASE ReadRange(r)
  <2>1. x.pc = "scan" /\ Sound(x)
    <3>1. run[r].pc = "scan"  BY <1>5, Zenon DEF ReadRange
    <3>. QED  BY <1>1, <3>1 DEF Idle
  <2>2. PICK last \in x.position..x.head, pc \in {"scan", "write"} :
          LET found == {Row(blocks[b], b) : b \in {b \in DOMAIN blocks : x.position <= b /\ b <= last /\ blocks[b] \in Bids}} IN
          run' = [run EXCEPT ![r].pending = @ \cup found, ![r].seen = @ \cup {row.bid : row \in found},
                             ![r].position = last + 1, ![r].pc = pc]
    BY <1>5 DEF ReadRange
  <2>. DEFINE found == {Row(blocks[b], b) : b \in {b \in DOMAIN blocks : x.position <= b /\ b <= last /\ blocks[b] \in Bids}}
              y == [x EXCEPT !.pending = x.pending \cup found, !.seen = x.seen \cup {row.bid : row \in found},
                             !.position = last + 1, !.pc = pc]
  <2>3. \A row \in found : Mined(row)
    BY <1>2 DEF Mined, Found, Row
  <2>4. ASSUME NEW b \in DOMAIN blocks, x.position <= b, b <= last, blocks[b] \in Bids
        PROVE  blocks[b] \in {row.bid : row \in found}
    <3>1. Row(blocks[b], b) \in found /\ Row(blocks[b], b).bid = blocks[b]  BY <2>4 DEF Row
    <3>. HIDE DEF found
    <3>. QED  BY <3>1
  <2>5. run' = [run EXCEPT ![r] = y] /\ UNCHANGED <<blocks, cursor, rows>>
    BY <1>5, <2>2 DEF ReadRange, DemandInv
  <2>. HIDE DEF found
  <2>6. found \subseteq Found /\ {row.bid : row \in found} \subseteq Bids  BY <2>3 DEF Mined, Found
  <2>7. x \in Ingests /\ last \in Int /\ x.position <= last /\ last <= x.head
    BY <2>1 DEF Sound, Ingests
  <2>8. y \in Ingests
    <3>1. x.pending \cup found \in SUBSET Found /\ x.seen \cup {row.bid : row \in found} \in SUBSET Bids
      BY <2>6, <2>7 DEF Ingests
    <3>. DEFINE more == {row.bid : row \in found}
    <3>. HIDE DEF more
    <3>2. last + 1 \in Int /\ x.seen \cup more \in SUBSET Bids  BY <2>7, <3>1 DEF more
    <3>3. [x EXCEPT !.pending = x.pending \cup found, !.seen = x.seen \cup more, !.position = last + 1, !.pc = pc]
            \in Ingests
      BY <2>7, <3>1, <3>2 DEF Ingests
    <3>. QED  BY <3>3 DEF more
  <2>9. /\ y.pending = x.pending \cup found /\ y.seen = x.seen \cup {row.bid : row \in found}
        /\ y.position = last + 1 /\ y.pc \in {"scan", "write"} /\ y.head = x.head /\ y.from = x.from
    BY <2>7 DEF Ingests
  <2>. HIDE DEF y
  <2>10. Below(y.position, Recorded \cup {row.bid : row \in y.pending})
    <3>. SUFFICES ASSUME NEW b \in DOMAIN blocks, b < last + 1, blocks[b] \in Bids
                  PROVE  blocks[b] \in Recorded \cup {row.bid : row \in x.pending \cup found}
      BY <2>9 DEF Below
    <3>1. CASE b < x.position  BY <2>1, <3>1 DEF Sound, Below
    <3>2. CASE ~(b < x.position)
      <4>1. b \in Int /\ x.position \in Int  BY <1>2, <2>7 DEF Ingests
      <4>. QED  BY <2>4, <2>7, <3>2, <4>1
    <3>. QED  BY <3>1, <3>2
  <2>11. FromOn(y.from, y.position, y.seen)
    <3>. SUFFICES ASSUME NEW b \in DOMAIN blocks, x.from <= b, b < last + 1, blocks[b] \in Bids
                  PROVE  blocks[b] \in x.seen \cup {row.bid : row \in found}
      BY <2>9 DEF FromOn
    <3>1. CASE b < x.position  BY <2>1, <3>1 DEF Sound, FromOn
    <3>2. CASE ~(b < x.position)
      <4>1. b \in Int /\ x.position \in Int  BY <1>2, <2>7 DEF Ingests
      <4>. QED  BY <2>4, <2>7, <3>2, <4>1
    <3>. QED  BY <3>1, <3>2
  <2>12. x.head \in Nat /\ x.head <= Len(blocks) /\ last + 1 <= x.head + 1
    BY <2>1, <2>7 DEF Sound, Ingests
  <2>13. Sound(y)
    BY <2>1, <2>3, <2>8, <2>9, <2>10, <2>11, <2>12 DEF Sound
  <2>. QED  BY <2>5, <2>13, IngestMoves
<1>6. CASE ScanEnds(r) \/ ScanFails(r) \/ WriteFails(r) \/ (Die(r) /\ UNCHANGED rows)
  <2>1. x # Idle  BY <1>6 DEF ScanEnds, ScanFails, WriteFails, Die, Idle
  <2>2. Sound(x)  BY <1>1, <2>1
  <2>3. PICK y :
          /\ run' = [run EXCEPT ![r] = y] /\ UNCHANGED <<blocks, cursor, rows>>
          /\ y # Idle => /\ x.pc \in {"scan", "write"}
                         /\ \E pc \in {"scan", "write"}, end \in {"no", "caughtUp", "cut", "failed"} :
                              y = [x EXCEPT !.pc = pc, !.end = end]
    <3>1. CASE ScanEnds(r)
      BY <3>1 DEF ScanEnds, DemandInv
    <3>2. CASE ScanFails(r)  BY <3>2 DEF ScanFails
    <3>3. CASE WriteFails(r)
      <4>1. x.end = "no" => [x EXCEPT !.pc = "scan"] = [x EXCEPT !.pc = "scan", !.end = "no"]
        BY <2>2 DEF Sound, Ingests
      <4>. QED  BY <3>3, <4>1 DEF WriteFails
    <3>4. CASE Die(r) /\ UNCHANGED rows  BY <3>4 DEF Die
    <3>. QED  BY <1>6, <3>1, <3>2, <3>3, <3>4
  <2>4. y = Idle \/ Sound(y)
    BY <2>2, <2>3 DEF Sound, Ingests
  <2>. QED  BY <2>3, <2>4, IngestMoves
<1>7. CASE writeBids(r)
  <2>1. x.pc = "write" /\ Sound(x)  BY <1>1, <1>7 DEF writeBids, Idle
  <2>. PICK y : y = [x EXCEPT !.pending = {}, !.pc = "commit"]  OBVIOUS
  <2>. DEFINE added == {row \in x.pending : row.bid \notin Recorded}
  <2>2. run' = [run EXCEPT ![r] = y] /\ rows' = rows \cup added /\ UNCHANGED <<blocks, cursor>>
    BY <1>7 DEF writeBids, DemandInv
  <2>3. Recorded' = Recorded \cup {row.bid : row \in x.pending}  BY <2>2 DEF Recorded
  <2>4. \A row \in rows' : Mined(row)'  BY <2>1, <2>2 DEF DemandInv, Sound, Mined
  <2>5. y \in Ingests /\ y.pending = {} /\ y.pc = "commit" /\ y.position = x.position
        /\ y.head = x.head /\ y.from = x.from /\ y.seen = x.seen
    BY <2>1 DEF Sound, Ingests
  <2>. HIDE DEF added
  <2>6. Sound(y)'
    BY <2>1, <2>2, <2>3, <2>5 DEF Sound, Below, FromOn
  <2>7. ASSUME NEW q \in Runs, q # r  PROVE (run[q] = Idle \/ Sound(run[q]))'
    <3>1. run'[q] = run[q] /\ (run[q] = Idle \/ Sound(run[q]))  BY <2>2, <2>7 DEF DemandInv
    <3>. QED  BY <2>2, <2>3, <3>1 DEF Sound, Mined, Below, FromOn
  <2>8. (cursor # None => Below(cursor + 1, Recorded))'  BY <2>2, <2>3 DEF DemandInv, Below
  <2>. QED  BY <2>2, <2>4, <2>6, <2>7, <2>8 DEF DemandInv
<1>8. CASE CommitProgress(r)
  <2>1. x.pc = "commit" /\ Sound(x) /\ x \in Ingests  BY <1>1, <1>8 DEF CommitProgress, Idle, Sound
  <2>2. cursor' = x.position - 1 /\ UNCHANGED <<blocks, rows>> /\ Recorded' = Recorded
    BY <1>8 DEF CommitProgress, Recorded
  <2>3. PICK y \in {Idle, [x EXCEPT !.pc = "scan"], [x EXCEPT !.pc = "prune"]} : run' = [run EXCEPT ![r] = y]
    BY <1>8, <2>1 DEF CommitProgress, Ingests
  <2>4. y = Idle \/ Sound(y)  BY <2>1, <2>3 DEF Sound, Ingests
  <2>5. x.position \in Int /\ x.head \in Nat /\ x.position <= x.head + 1 /\ x.head <= Len(blocks)
        /\ Below(x.position, Recorded)
    BY <2>1 DEF Sound, Ingests, Below
  <2>6. (cursor \in Int /\ cursor <= Len(blocks) /\ Below(cursor + 1, Recorded))'
    BY <1>2, <2>2, <2>5 DEF Below
  <2>7. \A q \in Runs : run'[q] = Idle \/ Sound(run'[q])  BY <2>3, <2>4 DEF DemandInv
  <2>8. \A q \in Runs : (run[q] = Idle \/ Sound(run[q]))'
    BY <2>2, <2>7 DEF Sound, Mined, Below, FromOn
  <2>. QED  BY <2>2, <2>3, <2>6, <2>8 DEF DemandInv, Mined
<1>9. CASE pruneReorgedBids(r)
  <2>1. x.pc = "prune" /\ Sound(x) /\ x \in Ingests  BY <1>1, <1>9 DEF pruneReorgedBids, Idle, Sound
  <2>. DEFINE orphans == {row \in rows : x.from <= row.block /\ row.block < x.position /\ row.bid \notin x.seen}
              y == [x EXCEPT !.pc = "delete", !.orphans = orphans]
  <2>2. run' = [run EXCEPT ![r] = y] /\ UNCHANGED <<blocks, cursor, rows>>
    BY <1>9 DEF pruneReorgedBids, DemandInv
  <2>3. orphans = {}
    BY <2>1 DEF Sound, FromOn, DemandInv, Mined, Found
  <2>4. Sound(y)  BY <2>1, <2>3 DEF Sound, Ingests
  <2>. HIDE DEF y
  <2>. QED  BY <2>2, <2>4, IngestMoves
<1>10. CASE DeleteOrphans(r)
  <2>1. x.pc = "delete" /\ x.orphans = {}  BY <1>1, <1>10 DEF DeleteOrphans, Idle, Sound
  <2>2. rows' = rows /\ run' = [run EXCEPT ![r] = Idle] /\ UNCHANGED <<blocks, cursor>>
    BY <1>10, <2>1 DEF DeleteOrphans
  <2>. QED  BY <2>2, IngestMoves
<1>. QED  BY <1>3, <1>4, <1>5, <1>6, <1>7, <1>8, <1>9, <1>10 DEF IngestStep, IngestFails

LEMMA DemandStep == ReplayIsNat /\ DemandInv /\ [DemandGrows]_demandVars => DemandInv'
<1>. SUFFICES ASSUME ReplayIsNat, DemandInv, [DemandGrows]_demandVars  PROVE DemandInv'  OBVIOUS
<1>1. CASE UNCHANGED demandVars
  <2>1. UNCHANGED <<blocks, cursor, run, rows>> /\ Recorded' = Recorded  BY <1>1 DEF demandVars, Recorded
  <2>. QED  BY <2>1 DEF DemandInv, Sound, Mined, Below, FromOn
<1>2. CASE DemandGrows  BY <1>2, BidMinedStep, IngestStepKeeps DEF DemandGrows
<1>. QED  BY <1>1, <1>2

\* However many ingests overlap, and wherever one fails or dies, no bid behind
\* the cursor is missing from the demand, on a chain that only grows
\* (_shared/demand.ts).
THEOREM DemandKeepsBids == GrowingSpec => []NoBidLost
<1>1. ReplayIsNat /\ DemandInv => NoBidLost
  <2>. SUFFICES ASSUME ReplayIsNat, DemandInv, cursor # None, NEW bid \in Through(cursor - REORG_REPLAY) \cap Bids
                PROVE  bid \in Recorded
    BY DEF NoBidLost
  <2>1. PICK b \in DOMAIN blocks : b <= cursor - REORG_REPLAY /\ blocks[b] = bid  BY DEF Through
  <2>2. b \in Int /\ cursor \in Int /\ Below(cursor + 1, Recorded)  BY DEF DemandInv
  <2>3. b < cursor + 1  BY <2>1, <2>2 DEF ReplayIsNat
  <2>. QED  BY <2>1, <2>2, <2>3 DEF Below
<1>. QED  BY ReplayIsNat, DemandFirst, DemandStep, <1>1, PTL DEF GrowingSpec

-----------------------------------------------------------------------------
(* EventProjection: what a page shows is what the market was. *)

Happenings == [type : {"Listed", "ListingCancelled", "Purchased"}, token : Tokens, n : 1..MaxListings]
Seen == [block : Nat \ {0}, event : Happenings]
On(e) == e.block \in DOMAIN blocks /\ blocks[e.block] # None /\ blocks[e.block] = e.event

\* Up to where nothing behind a head can change, events are the chain's.
Known(head, events, from, to) ==
  \A e \in Seen : from <= e.block /\ e.block <= to /\ e.block <= head - REORG_REPLAY => (e \in events <=> On(e))
Stands(events, head) ==
  /\ events \subseteq Seen /\ head \in Int /\ head - REORG_REPLAY <= Len(blocks)
  /\ Known(head, events, 1, head)

ScanningStates == {"chunk", "checkpoint", "final", "fresh"}
Scanned ==
  [pc : ScanningStates, tab : Tabs, from : Int, latest : Int, position : Int, upto : Int,
   chunk : SUBSET Seen, found : SUBSET Seen]
ReadSoFar(x, upto) ==
  (\A e \in x.found : x.from <= e.block /\ e.block <= upto) /\ Known(x.latest, x.found, x.from, upto)

\* What a scan has read, what it has written, and what it found written stand.
ScanSound(x, copy) ==
  /\ x.pc \in {"none", "open", "head"} \cup ScanningStates
  /\ x.pc # "none" => x.tab \in Tabs
  /\ x.pc = "head" => x.prior = copy.through
  /\ x.pc \in ScanningStates =>
       x \in Scanned /\ 1 <= x.from /\ x.from <= x.position /\ x.latest - REORG_REPLAY <= Len(blocks)
  /\ x.pc \in {"chunk", "checkpoint"} => Known(x.latest, copy.events, 1, x.position - 1)
  /\ x.pc = "chunk" => x.position <= x.latest /\ ReadSoFar(x, x.position - 1)
  /\ x.pc = "checkpoint" =>
       /\ x.position <= x.upto /\ x.upto <= x.latest /\ ReadSoFar(x, x.upto)
       /\ (\A e \in x.chunk : x.position <= e.block) /\ Known(x.latest, x.chunk, x.position, x.upto)
  /\ x.pc = "final" => Known(x.latest, copy.events, 1, x.from - 1) /\ ReadSoFar(x, x.latest)
  /\ x.pc = "fresh" => Stands(copy.events, x.latest)

CopySound(copy) == copy = Empty \/ Stands(copy.events, copy.through)
ShownSound ==
  /\ shown = [t \in Tabs |-> shown[t]]
  /\ \A t \in Tabs : shown[t] # None => Stands(shown[t].events, shown[t].through)
OneScans == \A s, u \in Scans : scan[s].pc # "none" /\ scan[u].pc # "none" => s = u
ScansSound == scan = [s \in Scans |-> scan[s]] /\ (\A s \in Scans : ScanSound(scan[s], cache)) /\ OneScans
ProjectionInv == blocks \in Seq(Happenings \cup {None}) /\ CopySound(cache) /\ ShownSound /\ ScansSound

LEMMA ProjectionFirst == ScanInit /\ ProjectionInit => ProjectionInv
<1>. SUFFICES ASSUME ScanInit, ProjectionInit  PROVE ProjectionInv  OBVIOUS
<1>1. blocks \in Seq(Happenings \cup {None})  BY DEF ScanInit
<1>2. CopySound(cache)  BY DEF ProjectionInit, CopySound
<1>3. ShownSound  BY DEF ProjectionInit, ShownSound
<1>4. ScansSound  BY DEF ProjectionInit, ScansSound, ScanSound, OneScans, Resting, ScanningStates
<1>. QED  BY <1>1, <1>2, <1>3, <1>4 DEF ProjectionInv

\* The provider's answer holds the chain's events of a range, and no others.
LEMMA RangeIsChain ==
  ASSUME blocks \in Seq(Happenings \cup {None}), NEW from \in Int, NEW to \in Int, NEW head
  PROVE  /\ InRange(from, to) \subseteq Seen
         /\ \A e \in InRange(from, to) : from <= e.block /\ e.block <= to /\ On(e)
         /\ \A e \in Seen : from <= e.block /\ e.block <= to /\ On(e) => e \in InRange(from, to)
<1>1. DOMAIN blocks = 1..Len(blocks) /\ Len(blocks) \in Nat
      /\ \A b \in DOMAIN blocks : blocks[b] \in Happenings \cup {None}
  OBVIOUS
<1>2. ASSUME NEW e \in InRange(from, to)
      PROVE  e \in Seen /\ from <= e.block /\ e.block <= to /\ On(e)
  <2>1. PICK b \in DOMAIN blocks : from <= b /\ b <= to /\ blocks[b] # None /\ e = [block |-> b, event |-> blocks[b]]
    BY DEF InRange
  <2>. QED  BY <1>1, <2>1 DEF Seen, On
<1>3. ASSUME NEW e \in Seen, from <= e.block, e.block <= to, On(e)  PROVE e \in InRange(from, to)
  <2>1. e = [block |-> e.block, event |-> blocks[e.block]]  BY <1>3 DEF Seen, On
  <2>. QED  BY <1>3, <2>1 DEF InRange, On
<1>. QED  BY <1>2, <1>3

\* What was read before a block, and what was read from it on, is one reading.
LEMMA KnownJoins ==
  ASSUME NEW head \in Int, ReplayIsNat, NEW old, NEW new, NEW both,
         NEW from \in Int, NEW position \in Int, NEW to \in Int, from <= position,
         \A e \in Seen : e \in both <=> (e \in old /\ e.block < position) \/ e \in new,
         \A e \in new : position <= e.block,
         Known(head, old, from, position - 1), Known(head, new, position, to)
  PROVE  Known(head, both, from, to)
<1>1. ASSUME NEW e \in Seen, from <= e.block, e.block <= to, e.block <= head - REORG_REPLAY
      PROVE  e \in both <=> On(e)
  <2>1. e.block \in Nat  BY DEF Seen
  <2>2. CASE e.block < position
    <3>1. e.block <= position - 1  BY <2>1, <2>2
    <3>2. e \in old <=> On(e)  BY <1>1, <3>1 DEF Known
    <3>3. e \notin new  BY <2>1, <2>2
    <3>. QED  BY <2>2, <3>2, <3>3
  <2>3. CASE ~(e.block < position)
    <3>1. position <= e.block  BY <2>1, <2>3
    <3>. QED  BY <1>1, <2>3, <3>1 DEF Known
  <2>. QED  BY <2>2, <2>3
<1>. QED  BY <1>1 DEF Known

LEMMA KnownNarrows ==
  ASSUME ReplayIsNat, NEW events, NEW head \in Int, NEW from \in Int, NEW to \in Int, Known(head, events, from, to),
         NEW h \in Int, h <= head, NEW last \in Int, last <= to
  PROVE  Known(h, events, from, last)
BY DEF Known, Seen, ReplayIsNat

\* A step of the tabs, in terms of the copy it leaves.
LEMMA CopyStep ==
  ASSUME ProjectionInv, blocks' = blocks, CopySound(cache'),
         shown' = [t \in Tabs |-> shown'[t]],
         \A t \in Tabs : shown'[t] \in {None, shown[t]} \/ Stands(shown'[t].events, shown'[t].through),
         scan' = [s \in Scans |-> scan'[s]], \A s \in Scans : ScanSound(scan'[s], cache'), OneScan
  PROVE  ProjectionInv'
<1>1. \A e : On(e)' <=> On(e)  BY DEF On
<1>2. \A head, events, from, to : Known(head, events, from, to)' <=> Known(head, events, from, to)
  BY <1>1 DEF Known
<1>3. \A events, head : Stands(events, head)' <=> Stands(events, head)  BY <1>2 DEF Stands
<1>4. CopySound(cache)'  BY <1>3 DEF CopySound, Empty
<1>5. ShownSound'
  <2>1. ASSUME NEW t \in Tabs, shown'[t] # None  PROVE Stands(shown'[t].events, shown'[t].through)
    BY <2>1 DEF ProjectionInv, ShownSound
  <2>. QED  BY <1>3, <2>1 DEF ShownSound
<1>6. \A s \in Scans : ScanSound(scan[s], cache)'
  BY <1>2, <1>3 DEF ScanSound, ReadSoFar
<1>7. ScansSound'  BY <1>6 DEF ScansSound, OneScans, OneScan
<1>. QED  BY <1>4, <1>5, <1>7 DEF ProjectionInv

\* What a block that comes or goes leaves as it was.
LEMMA ChainStep ==
  ASSUME ReplayIsNat, ProjectionInv, MarketMoves \/ MarketReorganised, MarketIsFinal,
         UNCHANGED <<cache, scan, shown>>
  PROVE  ProjectionInv'
<1>1. blocks \in Seq(Happenings \cup {None}) /\ DOMAIN blocks = 1..Len(blocks) /\ Len(blocks) \in Nat
  BY DEF ProjectionInv
<1>2. /\ blocks' \in Seq(Happenings \cup {None})
      /\ \A b \in 1..Len(blocks) : b <= Len(blocks') => blocks'[b] = blocks[b]
      /\ MarketMoves => Len(blocks') = Len(blocks) + 1
  <2>1. CASE MarketMoves
    <3>1. PICK event \in MarketEvents : blocks' = Append(blocks, event)  BY <2>1 DEF MarketMoves, NewBlock
    <3>2. event \in Happenings \cup {None}
      <4>. SUFFICES ASSUME event # None  PROVE event \in Happenings  OBVIOUS
      <4>1. ListedAt(Len(blocks)) \subseteq Tokens  BY DEF ListedAt
      <4>2. PICK type \in {"Listed", "ListingCancelled", "Purchased"}, t \in Tokens, n \in 1..MaxListings :
              event = Listing(type, t, n)
        <5>. DEFINE L == ListedAt(Len(blocks))
        <5>1. /\ event \in {None} \cup {Listing("Listed", t, n) : t \in Tokens \ L, n \in 1..MaxListings}
                    \cup {Listing(type, t, n) : type \in {"ListingCancelled", "Purchased"}, t \in L, n \in 1..MaxListings}
              /\ L \subseteq Tokens
          BY <3>1, <4>1 DEF MarketEvents
        <5>. HIDE DEF L
        <5>2. \/ \E t \in Tokens \ L, n \in 1..MaxListings : event = Listing("Listed", t, n)
              \/ \E type \in {"ListingCancelled", "Purchased"}, t \in L, n \in 1..MaxListings : event = Listing(type, t, n)
          BY <5>1
        <5>. QED  BY <5>1, <5>2
      <4>. QED  BY <4>2 DEF Listing, Happenings
    <3>. QED  BY <1>1, <3>1, <3>2
  <2>2. CASE MarketReorganised /\ ~MarketMoves
    <3>1. PICK depth \in 1..REORG_REPLAY :
            depth <= Len(blocks) /\ blocks' = SubSeq(blocks, 1, Len(blocks) - depth)
      BY <2>2 DEF MarketReorganised, Reorg
    <3>. QED  BY <1>1, <2>2, <3>1 DEF ReplayIsNat
  <2>. QED  BY <2>1, <2>2
<1>3. DOMAIN blocks' = 1..Len(blocks') /\ Len(blocks') \in Nat  BY <1>2
<1>4. ASSUME NEW head \in Int, head - REORG_REPLAY <= Len(blocks), head - REORG_REPLAY <= Len(blocks'),
             NEW e \in Seen, e.block <= head - REORG_REPLAY
      PROVE  On(e)' <=> On(e)
  <2>1. e.block \in Nat \ {0}  BY DEF Seen
  <2>2. e.block \in 1..Len(blocks) /\ e.block \in 1..Len(blocks')  BY <1>1, <1>3, <1>4, <2>1 DEF ReplayIsNat
  <2>3. blocks'[e.block] = blocks[e.block]
    <3>1. e.block <= Len(blocks')  BY <1>3, <2>2
    <3>. QED  BY <1>2, <2>2, <3>1
  <2>. QED  BY <1>1, <1>3, <2>2, <2>3 DEF On
<1>5. ASSUME NEW head \in Int, head - REORG_REPLAY <= Len(blocks), head - REORG_REPLAY <= Len(blocks')
      PROVE  \A events, from, to : Known(head, events, from, to) => Known(head, events, from, to)'
  BY <1>4, <1>5 DEF Known
<1>6. ASSUME NEW head \in Heads, head \in Int, head - REORG_REPLAY <= Len(blocks)
      PROVE  head - REORG_REPLAY <= Len(blocks')
  <2>1. CASE MarketMoves  BY <1>1, <1>2, <1>3, <1>6, <2>1 DEF ReplayIsNat
  <2>2. CASE MarketReorganised
    <3>1. Len(blocks') >= head - REORG_REPLAY  BY <1>6, <2>2 DEF MarketIsFinal
    <3>. QED  BY <1>3, <1>6, <3>1 DEF ReplayIsNat
  <2>. QED  BY <2>1, <2>2
<1>7. ASSUME NEW head \in Heads, NEW events, Stands(events, head)  PROVE Stands(events, head)'
  <2>1. head \in Int /\ head - REORG_REPLAY <= Len(blocks) /\ head - REORG_REPLAY <= Len(blocks')
    BY <1>6, <1>7 DEF Stands
  <2>. QED  BY <1>5, <1>7, <2>1 DEF Stands
<1>8. CopySound(cache)'
  <2>1. cache # Empty => cache.through \in Heads  BY DEF Heads
  <2>. QED  BY <1>7, <2>1 DEF ProjectionInv, CopySound, Empty
<1>9. ShownSound'
  <2>1. \A t \in Tabs : shown[t] # None => shown[t].through \in Heads  BY DEF Heads
  <2>. QED  BY <1>7, <2>1 DEF ProjectionInv, ShownSound
<1>10. ASSUME NEW s \in Scans  PROVE ScanSound(scan[s], cache)'
  <2>. PICK x : x = scan[s]  OBVIOUS
  <2>1. ScanSound(x, cache)  BY DEF ProjectionInv, ScansSound
  <2>2. CASE x.pc \notin ScanningStates
    BY <2>1, <2>2 DEF ScanSound, ScanningStates
  <2>3. CASE x.pc \in ScanningStates
    <3>1. x.latest \in Heads /\ x.latest \in Int /\ x.latest - REORG_REPLAY <= Len(blocks)
      BY <2>1, <2>3 DEF Heads, Scanning, ScanSound, Scanned, ScanningStates
    <3>2. x.latest - REORG_REPLAY <= Len(blocks')  BY <1>6, <3>1
    <3>3. \A events, from, to : Known(x.latest, events, from, to) => Known(x.latest, events, from, to)'
      BY <1>5, <3>1, <3>2
    <3>4. \A events : Stands(events, x.latest) => Stands(events, x.latest)'  BY <1>7, <3>1
    <3>. QED  BY <2>1, <3>2, <3>3, <3>4 DEF ScanSound, ReadSoFar
  <2>. QED  BY <2>2, <2>3
<1>11. ScansSound'  BY <1>10 DEF ProjectionInv, ScansSound, OneScans
<1>. QED  BY <1>2, <1>8, <1>9, <1>11 DEF ProjectionInv

\* A scan that goes on, begins or settles over the copy as it is.
LEMMA OneMoves ==
  ASSUME ProjectionInv, UNCHANGED <<blocks, cache>>, NEW s \in Scans, NEW x, ScanSound(x, cache),
         scan' = [scan EXCEPT ![s] = x], OneScan, shown' = [t \in Tabs |-> shown'[t]],
         \A t \in Tabs : shown'[t] \in {None, shown[t]} \/ Stands(shown'[t].events, shown'[t].through)
  PROVE  ProjectionInv'
<1>1. scan' = [u \in Scans |-> scan'[u]] /\ \A u \in Scans : ScanSound(scan'[u], cache)
  BY DEF ProjectionInv, ScansSound
<1>2. CopySound(cache)  BY DEF ProjectionInv
<1>. QED  BY <1>1, <1>2, CopyStep

\* A scan that writes is the only one.
LEMMA OneWrites ==
  ASSUME ProjectionInv, UNCHANGED <<blocks, shown>>, NEW s \in Scans, scan[s].pc # "none",
         NEW x, ScanSound(x, cache'), CopySound(cache'), scan' = [scan EXCEPT ![s] = x], OneScan
  PROVE  ProjectionInv'
<1>1. \A u \in Scans \ {s} : scan[u].pc = "none"  BY DEF ProjectionInv, ScansSound, OneScans
<1>2. scan' = [u \in Scans |-> scan'[u]] /\ \A u \in Scans : ScanSound(scan'[u], cache')
  BY <1>1 DEF ProjectionInv, ScansSound, ScanSound, ScanningStates
<1>3. shown' = [t \in Tabs |-> shown'[t]]  BY DEF ProjectionInv, ShownSound
<1>. QED  BY <1>2, <1>3, CopyStep

LEMMA SettleKeeps ==
  ASSUME ProjectionInv, UNCHANGED <<blocks, cache>>, NEW s \in Scans, scan[s].pc # "none", OneScan,
         NEW snapshot, Settle(s, snapshot),
         snapshot = shown[scan[s].tab] \/ Stands(snapshot.events, snapshot.through)
  PROVE  ProjectionInv'
<1>. PICK t : t = scan[s].tab  OBVIOUS
<1>1. t \in Tabs  BY DEF ProjectionInv, ScansSound, ScanSound
<1>2. shown' = [shown EXCEPT ![t] = snapshot]  BY DEF Settle
<1>3. shown' = [u \in Tabs |-> shown'[u]]
      /\ \A u \in Tabs : shown'[u] \in {None, shown[u]} \/ Stands(shown'[u].events, shown'[u].through)
  BY <1>1, <1>2 DEF ProjectionInv, ShownSound
<1>4. PICK x \in {[pc |-> "open", tab |-> t], Resting} : scan' = [scan EXCEPT ![s] = x]  BY DEF Settle
<1>5. ScanSound(x, cache)  BY <1>1, <1>4 DEF ScanSound, Resting, ScanningStates
<1>. QED  BY <1>3, <1>4, <1>5, OneMoves

LEMMA TabStep ==
  ASSUME ProjectionInv, OneScan, NEW t \in Tabs, Wanted(t) \/ Refresh(t) \/ TabCloses(t)
  PROVE  ProjectionInv'
<1>1. shown = [u \in Tabs |-> shown[u]]  BY DEF ProjectionInv, ShownSound
<1>2. ASSUME NEW s \in Scans, Start(t, s), UNCHANGED <<blocks, cache, shown>>  PROVE ProjectionInv'
  <2>1. ScanSound([pc |-> "open", tab |-> t], cache)  BY DEF ScanSound, ScanningStates
  <2>. QED  BY <1>1, <1>2, <2>1, OneMoves DEF Start
<1>3. CASE Wanted(t)  BY <1>2, <1>3 DEF Wanted, Free
<1>4. CASE Refresh(t)
  <2>1. CASE UNCHANGED scan
    <3>1. \A s \in Scans : ScanSound(scan'[s], cache')  BY <1>4, <2>1 DEF Refresh, ProjectionInv, ScansSound
    <3>2. scan' = [s \in Scans |-> scan'[s]]  BY <2>1 DEF ProjectionInv, ScansSound
    <3>3. UNCHANGED <<blocks, cache, shown>>  BY <1>4 DEF Refresh
    <3>4. CopySound(cache')  BY <3>3 DEF ProjectionInv
    <3>5. shown' = [u \in Tabs |-> shown'[u]]  BY <1>1, <3>3
    <3>. QED  BY <3>1, <3>2, <3>3, <3>4, <3>5, CopyStep
  <2>2. CASE \E s \in Free : Start(t, s)
    <3>1. UNCHANGED <<blocks, cache, shown>>  BY <1>4 DEF Refresh
    <3>2. PICK s \in Scans : Start(t, s)  BY <2>2 DEF Free
    <3>. QED  BY <1>2, <3>1, <3>2
  <2>. QED  BY <1>4, <2>1, <2>2 DEF Refresh
<1>5. CASE TabCloses(t)
  <2>1. /\ scan' = [s \in Scans |-> scan'[s]]
        /\ \A s \in Scans : scan'[s] = scan[s] \/ scan'[s] = Resting
        /\ UNCHANGED <<blocks, cache>> /\ shown' = [shown EXCEPT ![t] = None]
    BY <1>5 DEF TabCloses
  <2>2. \A s \in Scans : ScanSound(scan'[s], cache')
    <3>1. ScanSound(Resting, cache)  BY DEF ScanSound, Resting, ScanningStates
    <3>. QED  BY <2>1, <3>1 DEF ProjectionInv, ScansSound
  <2>3. shown' = [u \in Tabs |-> shown'[u]] /\ \A u \in Tabs : shown'[u] \in {None, shown[u]}
    BY <1>1, <2>1
  <2>. QED  BY <2>1, <2>2, <2>3, CopyStep DEF ProjectionInv
<1>. QED  BY <1>3, <1>4, <1>5

LEMMA ReadingStep ==
  ASSUME ReplayIsNat, ProjectionInv, OneScan, NEW s \in Scans, ReadCache(s) \/ ReadLatest(s) \/ ReadChunk(s)
  PROVE  ProjectionInv'
<1>. PICK x : x = scan[s]  OBVIOUS
<1>1. ScanSound(x, cache) /\ CopySound(cache) /\ shown = [t \in Tabs |-> shown[t]]
      /\ blocks \in Seq(Happenings \cup {None}) /\ Len(blocks) \in Nat
  BY DEF ProjectionInv, ScansSound, ShownSound
<1>2. CASE ReadCache(s)
  <2>. PICK y : y = [pc |-> "head", tab |-> x.tab, prior |-> cache'.through]  OBVIOUS
  <2>1. scan' = [scan EXCEPT ![s] = y]  BY <1>2 DEF ReadCache, ProjectionInv, ScansSound
  <2>2. ScanSound(y, cache')  BY <1>1, <1>2 DEF ReadCache, ScanSound, ScanningStates
  <2>3. CopySound(cache')  BY <1>1, <1>2 DEF ReadCache, CopySound
  <2>4. UNCHANGED <<blocks, shown>> /\ scan[s].pc # "none"  BY <1>2 DEF ReadCache
  <2>. QED  BY <2>1, <2>2, <2>3, <2>4, OneWrites
<1>3. CASE ReadLatest(s)
  <2>. PICK from : from = resumeFrom(x.prior)  OBVIOUS
  <2>. PICK y : y = [pc |-> IF from > Len(blocks) THEN "final" ELSE "chunk", tab |-> x.tab,
                     from |-> from, latest |-> Len(blocks), position |-> from,
                     upto |-> 0, chunk |-> {}, found |-> {}]
    OBVIOUS
  <2>1. scan' = [scan EXCEPT ![s] = y] /\ UNCHANGED <<blocks, cache, shown>> /\ x.pc = "head"
    BY <1>3 DEF ReadLatest, ProjectionInv, ScansSound
  <2>2. x.prior = cache.through /\ x.tab \in Tabs  BY <1>1, <2>1 DEF ScanSound
  <2>3. from \in Int /\ 1 <= from /\ Known(Len(blocks), cache.events, 1, from - 1)
    <3>1. CASE from = 1  BY <3>1 DEF Known, Seen
    <3>2. CASE from # 1
      <4>1. cache.through # None  BY <2>2, <3>2 DEF resumeFrom
      <4>2. Stands(cache.events, cache.through)  BY <1>1, <4>1 DEF CopySound, Empty
      <4>3. cache.through \in Int /\ from = cache.through - REORG_REPLAY /\ from > 0
        BY <2>2, <3>2, <4>1, <4>2 DEF resumeFrom, Stands, ReplayIsNat
      <4>4. \A e \in Seen : 1 <= e.block /\ e.block <= from - 1 => (e \in cache.events <=> On(e))
        <5>1. SUFFICES ASSUME NEW e \in Seen, 1 <= e.block, e.block <= from - 1
                       PROVE  e \in cache.events <=> On(e)
          OBVIOUS
        <5>2. e.block <= cache.through /\ e.block <= cache.through - REORG_REPLAY
          BY <4>3, <5>1 DEF Seen, ReplayIsNat
        <5>. QED  BY <4>2, <5>1, <5>2 DEF Stands, Known
      <4>. QED  BY <4>3, <4>4 DEF Known, ReplayIsNat
    <3>. QED  BY <3>1, <3>2
  <2>4. y \in Scanned  BY <1>1, <2>2, <2>3 DEF Scanned, ScanningStates
  <2>5. y.from = from /\ y.position = from /\ y.latest = Len(blocks) /\ y.found = {} /\ y.tab \in Tabs
        /\ y.pc \in {"chunk", "final"} /\ (y.pc = "chunk" => from <= Len(blocks))
        /\ (y.pc = "final" => from > Len(blocks))
    BY <1>1, <2>2, <2>3
  <2>6. ReadSoFar(y, from - 1) /\ (y.pc = "final" => ReadSoFar(y, Len(blocks)))
    BY <1>1, <2>3, <2>5 DEF ReadSoFar, Known, Seen
  <2>7. Len(blocks) - REORG_REPLAY <= Len(blocks) /\ from <= from  BY <1>1, <2>3 DEF ReplayIsNat
  <2>8. ScanSound(y, cache)
    BY <2>3, <2>4, <2>5, <2>6, <2>7 DEF ScanSound, ScanningStates
  <2>. QED  BY <1>1, <2>1, <2>8, OneMoves
<1>4. CASE ReadChunk(s)
  <2>1. x.pc = "chunk" /\ x \in Scanned /\ x.position <= x.latest /\ ReadSoFar(x, x.position - 1)
        /\ 1 <= x.from /\ x.from <= x.position /\ x.latest - REORG_REPLAY <= Len(blocks)
        /\ Known(x.latest, cache.events, 1, x.position - 1)
    BY <1>1, <1>4 DEF ReadChunk, ScanSound, ScanningStates
  <2>2. PICK to \in x.position..x.latest :
          scan' = [scan EXCEPT ![s].pc = "checkpoint", ![s].upto = to, ![s].chunk = InRange(x.position, to),
                               ![s].found = @ \cup InRange(x.position, to)]
    BY <1>4 DEF ReadChunk
  <2>. PICK logs : logs = InRange(x.position, to)  OBVIOUS
  <2>. PICK y : y = [x EXCEPT !.pc = "checkpoint", !.upto = to, !.chunk = logs, !.found = x.found \cup logs]
    OBVIOUS
  <2>3. scan' = [scan EXCEPT ![s] = y]  BY <2>2 DEF ProjectionInv, ScansSound
  <2>4. x.position \in Int /\ x.latest \in Int /\ x.from \in Int /\ x.found \subseteq Seen /\ to \in Int
        /\ x.position <= to /\ to <= x.latest
    BY <2>1 DEF Scanned
  <2>5. logs \subseteq Seen /\ (\A e \in logs : x.position <= e.block /\ e.block <= to /\ On(e))
        /\ (\A e \in Seen : x.position <= e.block /\ e.block <= to /\ On(e) => e \in logs)
    BY <1>1, <2>4, RangeIsChain
  <2>6. Known(x.latest, logs, x.position, to)  BY <2>5 DEF Known
  <2>7. y \in Scanned  BY <2>1, <2>4, <2>5 DEF Scanned, ScanningStates
  <2>8. y.pc = "checkpoint" /\ y.upto = to /\ y.chunk = logs /\ y.found = x.found \cup logs /\ y.tab = x.tab
        /\ y.from = x.from /\ y.position = x.position /\ y.latest = x.latest
    BY <2>1 DEF Scanned
  <2>9. ReadSoFar(y, to)
    <3>1. \A e \in x.found : e.block \in Nat /\ x.from <= e.block /\ e.block < x.position
      BY <2>1, <2>4 DEF ReadSoFar, Seen
    <3>2. \A e \in logs : e.block \in Nat /\ x.from <= e.block
      BY <2>1, <2>4, <2>5 DEF Seen
    <3>3. Known(x.latest, x.found, x.from, x.position - 1)  BY <2>1 DEF ReadSoFar
    <3>. PICK both : both = x.found \cup logs  OBVIOUS
    <3>4. \A e \in Seen : e \in both <=> (e \in x.found /\ e.block < x.position) \/ e \in logs
      BY <3>1
    <3>5. Known(x.latest, both, x.from, to)
      BY <2>1, <2>4, <2>5, <2>6, <3>3, <3>4, KnownJoins
    <3>. QED  BY <2>4, <2>5, <2>8, <3>1, <3>2, <3>5 DEF ReadSoFar
  <2>10. ScanSound(y, cache)
    BY <1>1, <2>1, <2>4, <2>5, <2>6, <2>7, <2>8, <2>9 DEF ScanSound, ScanningStates
  <2>11. UNCHANGED <<blocks, cache, shown>>  BY <1>4 DEF ReadChunk
  <2>. QED  BY <1>1, <2>3, <2>10, <2>11, OneMoves
<1>. QED  BY <1>2, <1>3, <1>4

\* What replaceRange leaves where the events from a block on were read again.
LEMMA Replaced ==
  ASSUME ReplayIsNat, ProjectionInv, NEW from \in Int, NEW events \in SUBSET Seen, NEW through \in Int,
         NEW latest \in Int, 1 <= from, \A e \in events : from <= e.block, through <= latest,
         latest - REORG_REPLAY <= Len(blocks),
         Known(latest, cache.events, 1, from - 1), Known(latest, events, from, through),
         replaceRange(from, events, through, latest)
  PROVE  /\ Stands(cache'.events, through) /\ cache'.through = through
         /\ Known(latest, cache'.events, 1, through)
<1>1. cache.events \in SUBSET Seen  BY DEF ProjectionInv, CopySound, Stands, Empty
<1>2. cache'.events = {e \in cache.events : e.block < from} \cup events /\ cache'.through = through
  BY DEF replaceRange
<1>3. Known(latest, cache'.events, 1, through)
  <2>. PICK both : both = cache'.events  OBVIOUS
  <2>1. \A e \in Seen : e \in both <=> (e \in cache.events /\ e.block < from) \/ e \in events  BY <1>2
  <2>. QED  BY <2>1, KnownJoins
<1>4. Known(through, cache'.events, 1, through)  BY <1>3, KnownNarrows
<1>5. Len(blocks) \in Nat  BY DEF ProjectionInv
<1>. QED  BY <1>1, <1>2, <1>3, <1>4, <1>5 DEF Stands, ReplayIsNat

LEMMA WritingStep ==
  ASSUME ReplayIsNat, ProjectionInv, OneScan, NEW s \in Scans, Checkpoint(s) \/ ReplaceRescanned(s)
  PROVE  ProjectionInv'
<1>. PICK x : x = scan[s]  OBVIOUS
<1>1. ScanSound(x, cache) /\ Len(blocks) \in Nat  BY DEF ProjectionInv, ScansSound
<1>2. x \in Scanned /\ 1 <= x.from /\ x.from <= x.position /\ x.latest - REORG_REPLAY <= Len(blocks)
      /\ x.tab \in Tabs /\ scan[s].pc # "none"
  BY <1>1 DEF Checkpoint, ReplaceRescanned, ScanSound, ScanningStates
<1>3. x.from \in Int /\ x.position \in Int /\ x.upto \in Int /\ x.latest \in Int
      /\ x.chunk \in SUBSET Seen /\ x.found \in SUBSET Seen
  BY <1>2 DEF Scanned
<1>4. CASE Checkpoint(s)
  <2>1. x.position <= x.upto /\ x.upto <= x.latest /\ ReadSoFar(x, x.upto)
        /\ (\A e \in x.chunk : x.position <= e.block) /\ Known(x.latest, x.chunk, x.position, x.upto)
        /\ Known(x.latest, cache.events, 1, x.position - 1)
    BY <1>1, <1>4 DEF Checkpoint, ScanSound, ScanningStates
  <2>2. replaceRange(x.position, x.chunk, x.upto, x.latest)  BY <1>4 DEF Checkpoint
  <2>3. 1 <= x.position  BY <1>2, <1>3
  <2>4. Stands(cache'.events, x.upto) /\ cache'.through = x.upto /\ Known(x.latest, cache'.events, 1, x.upto)
    BY <1>2, <1>3, <2>1, <2>2, <2>3, Replaced
  <2>. PICK y : y = [x EXCEPT !.pc = IF x.upto = x.latest THEN "final" ELSE "chunk", !.position = x.upto + 1]
    OBVIOUS
  <2>5. scan' = [scan EXCEPT ![s] = y]  BY <1>4 DEF Checkpoint, ProjectionInv, ScansSound
  <2>6. y.pc \in {"chunk", "final"} /\ (y.pc = "chunk" <=> x.upto # x.latest) /\ y.position = x.upto + 1
        /\ y.from = x.from /\ y.latest = x.latest /\ y.found = x.found /\ y.tab = x.tab /\ y.upto = x.upto
    BY <1>2 DEF Scanned
  <2>7. y \in Scanned
    <3>1. x.upto + 1 \in Int  BY <1>3
    <3>. QED  BY <1>2, <3>1 DEF Scanned, ScanningStates
  <2>8. ReadSoFar(y, x.upto)  BY <2>1, <2>6 DEF ReadSoFar
  <2>9. Known(x.latest, cache'.events, 1, x.from - 1)
    BY <1>2, <1>3, <2>1, <2>4, KnownNarrows
  <2>10. y.position - 1 = x.upto /\ y.from <= y.position /\ (y.pc = "chunk" => y.position <= y.latest)
    BY <1>2, <1>3, <2>1, <2>6
  <2>11. ScanSound(y, cache')
    <3>1. y.latest - REORG_REPLAY <= Len(blocks) /\ 1 <= y.from /\ y.tab \in Tabs  BY <1>2, <2>6
    <3>2. Known(y.latest, cache'.events, 1, y.position - 1) /\ Known(y.latest, cache'.events, 1, y.from - 1)
      BY <2>4, <2>6, <2>9, <2>10
    <3>3. ReadSoFar(y, y.position - 1) /\ (y.pc = "final" => ReadSoFar(y, y.latest))  BY <2>6, <2>8, <2>10
    <3>. QED  BY <2>6, <2>7, <2>10, <3>1, <3>2, <3>3 DEF ScanSound, ScanningStates
  <2>12. CopySound(cache')  BY <2>4 DEF CopySound
  <2>. QED  BY <1>2, <1>4, <2>5, <2>11, <2>12, OneWrites DEF Checkpoint
<1>5. CASE ReplaceRescanned(s)
  <2>1. Known(x.latest, cache.events, 1, x.from - 1) /\ ReadSoFar(x, x.latest)
    BY <1>1, <1>5 DEF ReplaceRescanned, ScanSound, ScanningStates
  <2>2. replaceRange(x.from, x.found, x.latest, x.latest)  BY <1>5 DEF ReplaceRescanned
  <2>3. (\A e \in x.found : x.from <= e.block) /\ Known(x.latest, x.found, x.from, x.latest)
    BY <2>1 DEF ReadSoFar
  <2>4. Stands(cache'.events, x.latest) /\ cache'.through = x.latest
    BY <1>2, <1>3, <2>1, <2>2, <2>3, Replaced
  <2>. PICK y : y = [x EXCEPT !.pc = "fresh"]  OBVIOUS
  <2>5. scan' = [scan EXCEPT ![s] = y]  BY <1>5 DEF ReplaceRescanned, ProjectionInv, ScansSound
  <2>6. y \in Scanned /\ y.pc = "fresh" /\ y.from = x.from /\ y.position = x.position /\ y.latest = x.latest
        /\ y.tab = x.tab
    BY <1>2 DEF Scanned, ScanningStates
  <2>7. ScanSound(y, cache')  BY <1>2, <2>4, <2>6 DEF ScanSound, ScanningStates
  <2>8. CopySound(cache')  BY <2>4 DEF CopySound
  <2>. QED  BY <1>2, <1>5, <2>5, <2>7, <2>8, OneWrites DEF ReplaceRescanned
<1>. QED  BY <1>4, <1>5

LEMMA EndingStep ==
  ASSUME ProjectionInv, OneScan, NEW s \in Scans, ReadFresh(s) \/ ScanStops(s)
  PROVE  ProjectionInv'
<1>. PICK x : x = scan[s]  OBVIOUS
<1>1. ScanSound(x, cache) /\ CopySound(cache) /\ UNCHANGED <<blocks, cache>> /\ x.pc # "none"
  BY DEF ProjectionInv, ScansSound, ReadFresh, ScanStops
<1>2. CASE ReadFresh(s)
  <2>. PICK snapshot : snapshot = [events |-> cache.events, through |-> x.latest]  OBVIOUS
  <2>1. Settle(s, snapshot) /\ Stands(snapshot.events, snapshot.through)
    BY <1>1, <1>2 DEF ReadFresh, ScanSound
  <2>. QED  BY <1>1, <2>1, SettleKeeps
<1>3. CASE ScanStops(s)
  <2>. PICK snapshot : snapshot = IF cache = Empty THEN shown[x.tab]
                                  ELSE [events |-> cache.events, through |-> cache.through]
    OBVIOUS
  <2>1. Settle(s, snapshot)  BY <1>3 DEF ScanStops
  <2>2. snapshot = shown[x.tab] \/ Stands(snapshot.events, snapshot.through)  BY <1>1 DEF CopySound
  <2>. QED  BY <1>1, <2>1, <2>2, SettleKeeps
<1>. QED  BY <1>2, <1>3

LEMMA ProjectionStep ==
  ReplayIsNat /\ ProjectionInv /\ [ProjectionNext /\ OneScan /\ MarketIsFinal]_<<projectionVars, sent, cursor, run>>
    => ProjectionInv'
<1>. SUFFICES ASSUME ReplayIsNat, ProjectionInv,
                     [ProjectionNext /\ OneScan /\ MarketIsFinal]_<<projectionVars, sent, cursor, run>>
              PROVE  ProjectionInv'
  OBVIOUS
<1>1. CASE UNCHANGED <<projectionVars, sent, cursor, run>>
  <2>1. UNCHANGED <<blocks, cache, scan, shown>>  BY <1>1 DEF projectionVars
  <2>2. OneScan  BY <2>1 DEF ProjectionInv, ScansSound, OneScans, OneScan
  <2>3. scan' = [s \in Scans |-> scan'[s]] /\ shown' = [t \in Tabs |-> shown'[t]]
        /\ CopySound(cache') /\ \A s \in Scans : ScanSound(scan'[s], cache')
    BY <2>1 DEF ProjectionInv, ScansSound, ShownSound
  <2>. QED  BY <2>1, <2>2, <2>3, CopyStep
<1>2. CASE ProjectionNext /\ OneScan /\ MarketIsFinal
  <2>1. ASSUME NEW s \in Scans, ScanStep(s)  PROVE ProjectionInv'
    BY <1>2, <2>1, ReadingStep, WritingStep, EndingStep DEF ScanStep
  <2>2. ASSUME NEW t \in Tabs, Wanted(t) \/ Refresh(t) \/ TabCloses(t)  PROVE ProjectionInv'
    BY <1>2, <2>2, TabStep
  <2>3. CASE (MarketMoves \/ MarketReorganised) /\ UNCHANGED <<cache, scan, current, queued, shown>>
    BY <1>2, <2>3, ChainStep
  <2>. QED  BY <1>2, <2>1, <2>2, <2>3 DEF ProjectionNext
<1>. QED  BY <1>1, <1>2

-----------------------------------------------------------------------------
\* reducer.ts: the tokens whose last event lists them.

\* A set of numbers that is not empty has a first one.
LEMMA FirstOne ==
  ASSUME NEW S \in SUBSET Nat, S # {}
  PROVE  \E i \in S : \A k \in S : i <= k
<1>1. PICK R : R = OpToRel(<, Nat)  OBVIOUS
<1>2. IsWellFoundedOn(R, Nat)  BY <1>1, NatLessThanWellFounded
<1>3. \A x, y \in Nat : <<x, y>> \in R <=> x < y  BY <1>1 DEF OpToRel
<1>4. PICK i \in S : \A k \in S : ~(<<k, i>> \in R)  BY <1>2, WFMin
<1>5. ASSUME NEW k \in S  PROVE i <= k
  <2>1. i \in Nat /\ k \in Nat /\ ~(k < i)  BY <1>3, <1>4
  <2>. QED  BY <2>1
<1>. QED  BY <1>5

\* A listing after whose block no listing ended is followed by the token's last
\* event, and that lists it.
LEMMA DiscoveryOfRange ==
  ASSUME blocks \in Seq(Happenings \cup {None}), NEW last \in Int, last <= Len(blocks)
  PROVE  reduceDiscovery(InRange(1, last)) = ListedAt(last)
<1>. PICK logs : logs = InRange(1, last)  OBVIOUS
<1>1. /\ \A e \in logs : e \in Seen /\ 1 <= e.block /\ e.block <= last /\ On(e)
      /\ \A e \in Seen : 1 <= e.block /\ e.block <= last /\ On(e) => e \in logs
  BY RangeIsChain
<1>2. DOMAIN blocks = 1..Len(blocks) /\ Len(blocks) \in Nat
      /\ \A b \in DOMAIN blocks : blocks[b] # None => blocks[b] \in Happenings
  OBVIOUS
<1>3. ASSUME NEW b \in 1..last, blocks[b] # None
      PROVE  [block |-> b, event |-> blocks[b]] \in logs
  <2>. PICK e : e = [block |-> b, event |-> blocks[b]]  OBVIOUS
  <2>1. b \in Nat \ {0} /\ b \in DOMAIN blocks /\ 1 <= b /\ b <= last  BY <1>2
  <2>2. e \in Seen /\ e.block = b /\ On(e)  BY <1>2, <1>3, <2>1 DEF Seen, On
  <2>. QED  BY <1>1, <2>1, <2>2
<1>4. ASSUME NEW t \in ListedAt(last)  PROVE t \in reduceDiscovery(logs)
  <2>1. t \in Tokens  BY DEF ListedAt
  <2>2. PICK b \in 1..last : /\ blocks[b] # None /\ blocks[b].token = t /\ blocks[b].type = "Listed"
                             /\ \A c \in (b + 1)..last : blocks[c] # None => blocks[c].token # t
    BY DEF ListedAt
  <2>. PICK e : e = [block |-> b, event |-> blocks[b]]  OBVIOUS
  <2>3. e \in logs /\ e.event.type = "Listed" /\ e.event.token = t /\ e.block = b  BY <1>3, <2>2
  <2>4. ASSUME NEW f \in logs, f.event.token = t, f.event.type # "Listed"  PROVE f.block < e.block
    <3>1. f.block \in Nat /\ f.block <= last /\ blocks[f.block] # None /\ blocks[f.block] = f.event
      BY <1>1 DEF Seen, On
    <3>2. f.block # b  BY <2>2, <2>4, <3>1
    <3>3. ~(f.block \in (b + 1)..last)  BY <2>2, <2>4, <3>1
    <3>. QED  BY <2>3, <3>1, <3>2, <3>3
  <2>. QED  BY <2>1, <2>3, <2>4 DEF reduceDiscovery
<1>5. ASSUME NEW t \in reduceDiscovery(logs)  PROVE t \in ListedAt(last)
  <2>1. t \in Tokens  BY DEF reduceDiscovery
  <2>2. PICK e \in logs : /\ e.event.type = "Listed" /\ e.event.token = t
                          /\ \A f \in logs : f.event.token = t /\ f.event.type # "Listed" => f.block < e.block
    BY DEF reduceDiscovery
  <2>. PICK S : S = {b \in 1..last : blocks[b] # None /\ blocks[b].token = t}  OBVIOUS
  <2>3. e.block \in S
    BY <1>1, <2>2 DEF Seen, On
  <2>. PICK T : T = {last - b : b \in S}  OBVIOUS
  <2>4. T \in SUBSET Nat /\ T # {}
    <3>1. \A b \in S : last - b \in Nat  OBVIOUS
    <3>. QED  BY <2>3, <3>1
  <2>5. PICK i \in T : \A k \in T : i <= k  BY <2>4, FirstOne
  <2>6. PICK b \in S : i = last - b  OBVIOUS
  <2>7. b \in 1..last /\ blocks[b] # None /\ blocks[b].token = t  OBVIOUS
  <2>8. ASSUME NEW c \in S  PROVE c <= b
    <3>1. last - c \in T /\ c \in Int /\ b \in Int  OBVIOUS
    <3>2. last - b <= last - c  BY <2>5, <2>6, <3>1
    <3>. QED  BY <3>1, <3>2
  <2>9. blocks[b].type = "Listed"
    <3>. PICK f : f = [block |-> b, event |-> blocks[b]]  OBVIOUS
    <3>1. f \in logs /\ f.block = b /\ f.event = blocks[b]  BY <1>3, <2>7
    <3>2. e.block <= b /\ e.block \in Int /\ b \in Int  BY <2>3, <2>7, <2>8
    <3>. QED  BY <2>2, <2>7, <3>1, <3>2
  <2>10. ASSUME NEW c \in (b + 1)..last, blocks[c] # None  PROVE blocks[c].token # t
    <3>1. c \in 1..last /\ ~(c <= b)  BY <2>7
    <3>. QED  BY <2>8, <2>10, <3>1
  <2>. QED  BY <2>1, <2>7, <2>9, <2>10 DEF ListedAt
<1>. QED  BY <1>4, <1>5

\* The events of a copy that stands, up to what the next scan reads again.
LEMMA SettledIsRange ==
  ASSUME ReplayIsNat, ProjectionInv, NEW events, NEW head, Stands(events, head)
  PROVE  Settled(events, head) = InRange(1, head - REORG_REPLAY)
<1>1. head \in Int /\ head - REORG_REPLAY \in Int /\ events \subseteq Seen /\ Known(head, events, 1, head)
  BY DEF Stands, ReplayIsNat
<1>. PICK last \in Int : last = head - REORG_REPLAY  BY <1>1
<1>2. \A e \in Seen : 1 <= e.block /\ (e.block <= last => e.block <= head)
  BY <1>1 DEF Seen, ReplayIsNat
<1>3. \A e \in Seen : e.block <= last => (e \in events <=> On(e))  BY <1>1, <1>2 DEF Known
<1>4. /\ \A e \in InRange(1, last) : e \in Seen /\ e.block <= last /\ On(e)
      /\ \A e \in Seen : 1 <= e.block /\ e.block <= last /\ On(e) => e \in InRange(1, last)
  BY RangeIsChain DEF ProjectionInv
<1>. QED  BY <1>1, <1>2, <1>3, <1>4 DEF Settled

\* While the tabs take turns, what the browser keeps of the chain is a whole
\* prefix of it, wherever a scan stops, a tab closes, the cache is lost or the
\* newest blocks give way (services/chain/projection.ts).
THEOREM CopyIsWhole == TurnsSpec => []PrefixIsWhole
<1>1. ReplayIsNat /\ ProjectionInv => PrefixIsWhole
  <2>. SUFFICES ASSUME ReplayIsNat, ProjectionInv, cache.through # None
                PROVE  Settled(cache.events, cache.through) = InRange(1, cache.through - REORG_REPLAY)
    BY DEF PrefixIsWhole
  <2>1. Stands(cache.events, cache.through)  BY DEF ProjectionInv, CopySound, Empty
  <2>. QED  BY <2>1, SettledIsRange
<1>. QED  BY ReplayIsNat, ProjectionFirst, ProjectionStep, <1>1, PTL DEF TurnsSpec

\* And what a page derives from it is what the market was at the blocks that the
\* page says it shows (services/chain/chainService.ts, reducer.ts).
THEOREM DiscoveryIsTrue == TurnsSpec => []DiscoveryIsMarkets
<1>1. ReplayIsNat /\ ProjectionInv => DiscoveryIsMarkets
  <2>. SUFFICES ASSUME ReplayIsNat, ProjectionInv, NEW t \in Tabs, shown[t] # None,
                       shown[t].through <= Len(blocks)
                PROVE  reduceDiscovery(Settled(shown[t].events, shown[t].through))
                         = ListedAt(shown[t].through - REORG_REPLAY)
    BY DEF DiscoveryIsMarkets
  <2>1. Stands(shown[t].events, shown[t].through)  BY DEF ProjectionInv, ShownSound
  <2>. PICK last : last = shown[t].through - REORG_REPLAY  OBVIOUS
  <2>2. Settled(shown[t].events, shown[t].through) = InRange(1, last)  BY <2>1, SettledIsRange
  <2>3. last \in Int /\ last <= Len(blocks)  BY <2>1 DEF Stands, ReplayIsNat
  <2>. QED  BY <2>2, <2>3, DiscoveryOfRange DEF ProjectionInv
<1>. QED  BY ReplayIsNat, ProjectionFirst, ProjectionStep, <1>1, PTL DEF TurnsSpec
=============================================================================
