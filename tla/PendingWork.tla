----------------------------- MODULE PendingWork -----------------------------
(***************************************************************************)
(* The browser's durable record of wallet work (services/chain/            *)
(* pendingWork.ts): what localStorage holds for one wallet and one intent, *)
(* oldest first.  It outlives the page.                                    *)
(*                                                                         *)
(* "age" abstracts createdAt: "young" is under STALE_WORK_MIN_AGE_MS,      *)
(* "old" is over MAX_AGE_MS, "stale" is in between.                        *)
(***************************************************************************)
EXTENDS Naturals, Sequences, SequencesExt

CONSTANTS
  WorkIds,    \* random identities; bound: as many records are kept at a time
  None

ASSUME NoneIsNothing == None \notin WorkIds /\ None \notin Nat

VARIABLE store

-----------------------------------------------------------------------------
PendingStep(kind, amount) == [kind |-> kind, amount |-> amount, status |-> "waiting", hash |-> None]

Ids == {store[i].id : i \in DOMAIN store}
FreeIds == WorkIds \ Ids
NewId == CHOOSE id \in FreeIds : TRUE
position(id) == CHOOSE i \in DOMAIN store : store[i].id = id
work(id) == store[position(id)]

hasBroadcastStep(w) == \E i \in DOMAIN w.steps : w.steps[i].status = "broadcast"
Hashless(step) == step.status = "broadcast" /\ step.hash = None

\* No age proves that a send without a hash did not land: it is never dropped.
Listed(w) == w.age # "old" \/ \E i \in DOMAIN w.steps : Hashless(w.steps[i])
listPendingWork == {store[i] : i \in {j \in DOMAIN store : Listed(store[j])}}

\* The newest unresolved attempt at the same intent.
findPendingBroadcast ==
  LET unresolved == {i \in DOMAIN store : Listed(store[i]) /\ hasBroadcastStep(store[i])} IN
  IF unresolved = {} THEN None
  ELSE store[CHOOSE i \in unresolved : \A other \in unresolved : i >= other].id

-----------------------------------------------------------------------------
\* Every write replaces the whole value under the storage key.
openWork(id, operationKey, fromBlock, steps) ==
  store' = Append(store, [id |-> id, operationKey |-> operationKey, fromBlock |-> fromBlock,
                          steps |-> steps, age |-> "young"])

\* None keeps the hash that the step has.
Rewrite(id, index, status, hash) ==
  store' = [i \in DOMAIN store |->
              IF store[i].id = id /\ index \in DOMAIN store[i].steps
              THEN [store[i] EXCEPT !.steps[index].status = status,
                                    !.steps[index].hash = IF hash = None THEN @ ELSE hash]
              ELSE store[i]]
recordBroadcast(id, index, hash) == Rewrite(id, index, "broadcast", hash)
recordStepStatus(id, index, status) == Rewrite(id, index, status, None)
recordUnknownBroadcast(id, index) == recordStepStatus(id, index, "broadcast")

closeWork(id) == store' = IF id \in Ids THEN RemoveAt(store, position(id)) ELSE store

\* The clock: a record passes the minute, then the day.
Ages(i) ==
  \E age \in {"stale", "old"} :
    /\ <<store[i].age, age>> \in {<<"young", "stale">>, <<"stale", "old">>}
    /\ store' = [store EXCEPT ![i].age = age]
=============================================================================
