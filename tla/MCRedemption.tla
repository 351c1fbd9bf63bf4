---------------------------- MODULE MCRedemption ----------------------------
(***************************************************************************)
(* Model values of Redemption's runs.  Every behaviour is of one journey,  *)
(* so that one run covers the sum of the journeys and not their product:   *)
(*   "race"      two invocations overlap; no recovery, no other collector  *)
(*   "nominee"   one invocation at a time; the holder names a collector    *)
(*   "recovery"  one invocation at a time; approvers recover the token     *)
(*   "release"   two organisations release the code at the same time       *)
(*   "again"     the token is redeemed a second time after a withdrawal    *)
(*   "swept"     the sweep and one invocation overlap before the vault acts *)
(*   "stranded"  the token is redeemed to the burn by the other request,   *)
(*               and the sweep meets the row of one that never opened      *)
(* A wallet opens a request once, while its row says it is not open yet: a  *)
(* holder who gave a request up enters other details the next time.        *)
(***************************************************************************)
EXTENDS RedemptionPages, TLC

CONSTANTS r1, r2, o1, o2, e1, e2, a1, a2, p1, w1, w2, s1, s2, Journeys, MaxLag

VARIABLE journey

Interchangeable == Permutations(Evidence) \cup Permutations(Approvers)

MCInit == Init /\ journey \in Journeys

OneAtATime == \A w \in Workers \ {w1} : call'[w] = Idle
Unrecovered == UNCHANGED <<recovery, proposal>> /\ \A tx \in pending' : tx.fn # "proposeRecovery"

OnlyR1 == status'[r2] = "none"

\* The sweep does not run, and runs on a worker of its own.
Unswept == \A w \in Workers : call'[w] # Idle => call'[w].pc # "sweep"
SweptApart == \A w \in Workers : call'[w] # Idle => (call'[w].pc = "sweep" <=> w # w1)

\* The vault never starts on these requests.
NotReleased(requests) ==
  \A r \in requests :
    /\ status'[r] \in {"none", "draft", "committed", "onchain_requested", "accepted", "cancelled",
                       "fulfilled"}
    /\ Tx("startFulfillment", r, None) \notin pending'

\* Photographs are read by the arrival: where a second one was uploaded, the
\* journey ends before the release.
OnePhotograph ==
  \A r \in Requests :
    code'[r].gen > 0 => Cardinality({e \in Evidence : uploads'[r][e] # "none"}) <= 1

\* A cancellation reported is the request's own.
OwnCancellations ==
  \A w \in Workers : call[w] = Idle /\ call'[w] # Idle /\ call'[w].key[1] = "cancel_redemption" =>
    Tx("cancelRedemption", call'[w].request, None) \in mined

InJourney ==
  StartsAnew /\ OnePhotograph /\
  CASE journey = "race" ->
         /\ OnlyR1 /\ Unswept /\ UNCHANGED nomination /\ Unrecovered /\ code'[r1].tries = 0
         /\ UNCHANGED uploads \/ \A w \in Workers : call[w] = Idle
    [] journey = "nominee" -> OnlyR1 /\ Unswept /\ OneAtATime /\ Unrecovered /\ code'[r1].gen <= 1
    [] journey = "recovery" ->
         /\ OnlyR1 /\ Unswept /\ OneAtATime /\ UNCHANGED nomination
         /\ code'[r1].tries = 0 /\ code'[r1].gen <= 1 /\ code'[r1].state # "expired"
         /\ Cardinality(pending') <= 1
    [] journey = "release" ->
         /\ OnlyR1 /\ Unswept /\ UNCHANGED nomination /\ Unrecovered /\ code'[r1].gen <= 1
         /\ OneAtATime \/ status[r1] = "arrived"
    [] journey = "again" ->
         /\ NotReleased(Requests) /\ Unswept /\ OneAtATime /\ UNCHANGED nomination
    [] journey = "swept" ->
         /\ NotReleased(Requests) /\ SweptApart /\ OwnCancellations /\ UNCHANGED nomination
         /\ Cardinality(pending') <= 1 /\ Tx("openRedemption", r2, None) \notin pending'
    [] journey = "stranded" ->
         /\ NotReleased({r1}) /\ \A tx \in pending' : tx.request = r2
         /\ SweptApart /\ (call'[w2] # Idle => call'[w2].request = r1)
         /\ UNCHANGED nomination /\ Unrecovered
         /\ code'[r2].gen <= 1 /\ code'[r2].tries = 0 /\ code'[r2].state # "expired"
         /\ \A w \in Workers : Crash(w) => call[w].pc \in {"sweep", "challenge", "consume"}

MCSpec == MCInit /\ [][Next /\ InJourney /\ UNCHANGED journey]_<<vars, journey>>

\* No invocation outlives more than MaxLag later events of its request.
FewStale ==
  \A w \in Workers : call[w] # Idle => log[call[w].request].version - call[w].version <= MaxLag
=============================================================================
