--------------------------- MODULE Browser_proofs ---------------------------
(***************************************************************************)
(* What BrowserTransaction's properties rest on, for every instance.  The  *)
(* page tells a payment only when one was made, whatever people and phones *)
(* do.  For a prudent person nobody pays twice, and what may still execute *)
(* is behind a lock.                                                       *)
(*                                                                         *)
(* Sound says what the records, the page's run and the wallet's request    *)
(* are; it holds after any step.  Guarded says, of the calls that pay,     *)
(* that there is one at most and that a record or the page stands for it.  *)
(***************************************************************************)
EXTENDS BrowserTransaction, FiniteSetTheorems, WellFoundedInduction, TLAPS

Kinds == {"approval", "call"}
Quantities == Amounts \cup {0}
StepRecs == [kind : Kinds, amount : Quantities, status : {"waiting", "broadcast", "confirmed"},
             hash : Nat \cup {None}]
WorkRecs == [id : WorkIds, operationKey : Amounts, fromBlock : Nat, steps : Seq(StepRecs),
             age : {"young", "stale", "old"}]
TxRecs == [kind : Kinds, amount : Quantities, state : {"pending", "success", "reverted", "dropped"},
           block : Nat]
WalletRecs == [kind : Kinds, amount : Quantities, state : {"open", "signed", "rejected"},
               hash : Nat \cup {None}]
WithWork == {"prepare", "gesture", "wallet", "recover", "confirm"}
PageRecs == [pc : Preflight \cup WithWork, amount : Amounts, from : Nat, planned : Seq(StepRecs),
             plannedAt : Nat, index : Nat, work : WorkIds \cup {None},
             unresolved : WorkRecs \cup {None}, hash : Nat \cup {None}]
Screens == {Idle, [pc |-> "broadcast"], [pc |-> "unknown"]}

Works == {store[i] : i \in DOMAIN store}
UniqueIds == \A i, j \in DOMAIN store : store[i].id = store[j].id => i = j

TypesOK ==
  /\ store \in Seq(WorkRecs) /\ UniqueIds
  /\ txs \in Seq(TxRecs) /\ height \in Nat
  /\ page \in PageRecs \cup Screens
  /\ wallet \in WalletRecs \cup {None}

\* What the proofs know of these records.
LEMMA StepFields ==
  ASSUME NEW s \in StepRecs
  PROVE  /\ s.kind \in Kinds /\ s.amount \in Quantities /\ s.hash \in Nat \cup {None}
         /\ s.status \in {"waiting", "broadcast", "confirmed"}
BY DEF StepRecs

LEMMA WorkFields ==
  ASSUME NEW w \in WorkRecs
  PROVE  /\ w.id \in WorkIds /\ w.id # None /\ w.operationKey \in Amounts /\ w.fromBlock \in Nat
         /\ w.steps \in Seq(StepRecs) /\ w.age \in {"young", "stale", "old"}
BY NoneIsNothing DEF WorkRecs

LEMMA TxFields ==
  ASSUME NEW tx \in TxRecs
  PROVE  /\ tx.kind \in Kinds /\ tx.amount \in Quantities /\ tx.block \in Nat
         /\ tx.state \in {"pending", "success", "reverted", "dropped"}
BY DEF TxRecs

-----------------------------------------------------------------------------
\* The durable record, write by write, seen as the set Works.

LEMMA WorksAre ==
  ASSUME store \in Seq(WorkRecs)
  PROVE  /\ Works \subseteq WorkRecs /\ Ids = {w.id : w \in Works}
         /\ DOMAIN store = 1 .. Len(store)
BY DEF Works, Ids

LEMMA OneWork ==
  ASSUME UniqueIds, NEW v \in Works, NEW w \in Works, v.id = w.id
  PROVE  v = w
BY DEF UniqueIds, Works

LEMMA WorkOf ==
  ASSUME UniqueIds, NEW w \in Works
  PROVE  work(w.id) = w
<1>1. PICK i \in DOMAIN store : store[i] = w  BY DEF Works
<1>2. position(w.id) \in DOMAIN store /\ store[position(w.id)].id = w.id  BY <1>1 DEF position
<1>. QED  BY <1>1, <1>2 DEF UniqueIds, work

LEMMA Closing ==
  ASSUME store \in Seq(WorkRecs), UniqueIds, NEW id, closeWork(id)
  PROVE  store' \in Seq(WorkRecs) /\ UniqueIds' /\ Works' = {w \in Works : w.id # id}
<1>1. CASE id \notin Ids  BY <1>1 DEF closeWork, Ids, Works, UniqueIds
<1>2. CASE id \in Ids
  <2>1. PICK n : n = position(id)  OBVIOUS
  <2>2. n \in DOMAIN store /\ store[n].id = id  BY <1>2, <2>1 DEF Ids, position
  <2>3. store' = SubSeq(store, 1, n - 1) \o SubSeq(store, n + 1, Len(store))
    BY <1>2, <2>1 DEF closeWork, RemoveAt
  <2>4. n \in 1 .. Len(store) /\ Len(store) \in Nat  BY <2>2
  <2>5. PICK a : a = SubSeq(store, 1, n - 1)  OBVIOUS
  <2>6. PICK b : b = SubSeq(store, n + 1, Len(store))  OBVIOUS
  <2>7. /\ a \in Seq(WorkRecs) /\ Len(a) = n - 1 /\ \A i \in 1 .. n - 1 : a[i] = store[i]
    BY <2>4, <2>5
  <2>8. /\ b \in Seq(WorkRecs) /\ Len(b) = Len(store) - n
        /\ \A i \in 1 .. Len(store) - n : b[i] = store[n + i]
    BY <2>4, <2>6
  <2>9. store' = a \o b  BY <2>3, <2>5, <2>6
  <2>10. store' \in Seq(WorkRecs) /\ Len(store') = Len(store) - 1
    <3>1. a \o b \in Seq(WorkRecs) /\ Len(a \o b) = Len(a) + Len(b)  BY <2>7, <2>8
    <3>. QED  BY <2>4, <2>7, <2>8, <2>9, <3>1
  <2>11. \A i \in 1 .. Len(store) - 1 : store'[i] = IF i < n THEN store[i] ELSE store[i + 1]
    <3>. SUFFICES ASSUME NEW i \in 1 .. Len(store) - 1
                  PROVE  store'[i] = IF i < n THEN store[i] ELSE store[i + 1]
      OBVIOUS
    <3>1. store'[i] = IF i <= Len(a) THEN a[i] ELSE b[i - Len(a)]
      BY <2>4, <2>7, <2>8, <2>9
    <3>2. CASE i < n  BY <2>4, <2>7, <3>1, <3>2
    <3>3. CASE ~(i < n)
      <4>1. i - (n - 1) \in 1 .. Len(store) - n /\ n + (i - (n - 1)) = i + 1  BY <2>4, <3>3
      <4>2. store'[i] = b[i - (n - 1)]  BY <2>4, <2>7, <3>1, <3>3
      <4>. QED  BY <2>8, <3>3, <4>1, <4>2
    <3>. QED  BY <3>2, <3>3
  <2>12. UniqueIds'
    <3>. SUFFICES ASSUME NEW i \in 1 .. Len(store) - 1, NEW j \in 1 .. Len(store) - 1,
                         store'[i].id = store'[j].id
                  PROVE  i = j
      BY <2>10 DEF UniqueIds
    <3>1. PICK p \in DOMAIN store : p = (IF i < n THEN i ELSE i + 1) /\ store'[i] = store[p]
      BY <2>4, <2>11
    <3>2. PICK q \in DOMAIN store : q = (IF j < n THEN j ELSE j + 1) /\ store'[j] = store[q]
      BY <2>4, <2>11
    <3>3. p = q  BY <3>1, <3>2 DEF UniqueIds
    <3>. QED  BY <2>4, <3>1, <3>2, <3>3
  <2>13. \A w \in Works' : w \in Works /\ w.id # id
    <3>. SUFFICES ASSUME NEW i \in 1 .. Len(store) - 1
                  PROVE  store'[i] \in Works /\ store'[i].id # id
      BY <2>10 DEF Works
    <3>1. PICK k \in DOMAIN store : store'[i] = store[k] /\ k # n  BY <2>4, <2>11
    <3>. QED  BY <2>2, <3>1 DEF Works, UniqueIds
  <2>14. \A w \in Works : w.id # id => w \in Works'
    <3>. SUFFICES ASSUME NEW k \in 1 .. Len(store), k # n  PROVE store[k] \in Works'
      BY <2>2 DEF Works
    <3>1. PICK i \in 1 .. Len(store) - 1 : store'[i] = store[k]
      <4>1. CASE k < n  BY <2>4, <2>11, <4>1
      <4>2. CASE k > n
        <5>1. k - 1 \in 1 .. Len(store) - 1 /\ ~(k - 1 < n) /\ (k - 1) + 1 = k  BY <2>4, <4>2
        <5>. QED  BY <2>11, <5>1
      <4>. QED  BY <2>4, <4>1, <4>2
    <3>. QED  BY <2>10, <3>1 DEF Works
  <2>. QED  BY <2>10, <2>12, <2>13, <2>14
<1>. QED  BY <1>1, <1>2

\* What one write does to the record it names.
Touched(w, v, index, status, hash) ==
  /\ v.id = w.id /\ v.operationKey = w.operationKey /\ v.fromBlock = w.fromBlock /\ v.age = w.age
  /\ Len(v.steps) = Len(w.steps)
  /\ \A k \in 1 .. Len(w.steps) :
       /\ v.steps[k].kind = w.steps[k].kind /\ v.steps[k].amount = w.steps[k].amount
       /\ k # index => v.steps[k] = w.steps[k]
       /\ k = index => /\ v.steps[k].status = status
                       /\ v.steps[k].hash = IF hash = None THEN w.steps[k].hash ELSE hash
Rewritten(w, v, id, index, status, hash) ==
  IF w.id = id /\ index \in 1 .. Len(w.steps) THEN Touched(w, v, index, status, hash) ELSE v = w

LEMMA Rewriting ==
  ASSUME store \in Seq(WorkRecs), UniqueIds, NEW id, NEW index,
         NEW status \in {"waiting", "broadcast", "confirmed"}, NEW hash \in Nat \cup {None},
         Rewrite(id, index, status, hash)
  PROVE  /\ store' \in Seq(WorkRecs) /\ UniqueIds'
         /\ \A v \in Works' : \E w \in Works : Rewritten(w, v, id, index, status, hash)
         /\ \A w \in Works : \E v \in Works' : Rewritten(w, v, id, index, status, hash)
<1>1. DOMAIN store = 1 .. Len(store) /\ Len(store) \in Nat  OBVIOUS
<1>2. ASSUME NEW i \in 1 .. Len(store)
      PROVE  store'[i] \in WorkRecs /\ Rewritten(store[i], store'[i], id, index, status, hash)
  <2>1. store[i] \in WorkRecs /\ store[i].steps \in Seq(StepRecs)  BY WorkFields
  <2>2. DOMAIN store[i].steps = 1 .. Len(store[i].steps)  BY <2>1
  <2>3. CASE store[i].id = id /\ index \in 1 .. Len(store[i].steps)
    <3>1. PICK old : old = store[i].steps[index]  OBVIOUS
    <3>2. PICK new : new = [old EXCEPT !.status = status, !.hash = IF hash = None THEN @ ELSE hash]
      OBVIOUS
    <3>3. PICK steps : steps = [store[i].steps EXCEPT ![index] = new]  OBVIOUS
    <3>4. store'[i] = [store[i] EXCEPT !.steps = steps]
      BY <1>1, <2>2, <2>3, <3>1, <3>2, <3>3 DEF Rewrite
    <3>5. old \in StepRecs  BY <2>1, <2>3, <3>1
    <3>6. /\ new \in StepRecs /\ new.kind = old.kind /\ new.amount = old.amount
          /\ new.status = status /\ new.hash = IF hash = None THEN old.hash ELSE hash
      BY <3>2, <3>5 DEF StepRecs
    <3>7. /\ steps \in Seq(StepRecs) /\ Len(steps) = Len(store[i].steps) /\ steps[index] = new
          /\ \A k \in 1 .. Len(store[i].steps) : k # index => steps[k] = store[i].steps[k]
      BY <2>1, <2>3, <3>3, <3>6
    <3>8. /\ store'[i] \in WorkRecs /\ store'[i].steps = steps /\ store'[i].id = store[i].id
          /\ store'[i].operationKey = store[i].operationKey
          /\ store'[i].fromBlock = store[i].fromBlock /\ store'[i].age = store[i].age
      BY <2>1, <3>4, <3>7 DEF WorkRecs
    <3>9. Touched(store[i], store'[i], index, status, hash)
      BY <2>3, <3>1, <3>6, <3>7, <3>8 DEF Touched
    <3>. QED  BY <2>3, <3>8, <3>9 DEF Rewritten
  <2>4. CASE ~(store[i].id = id /\ index \in 1 .. Len(store[i].steps))
    BY <1>1, <2>1, <2>2, <2>4 DEF Rewrite, Rewritten
  <2>. QED  BY <2>3, <2>4
<1>3. store' \in Seq(WorkRecs) /\ Len(store') = Len(store)
  <2>1. store' = [i \in 1 .. Len(store) |-> store'[i]]  BY <1>1 DEF Rewrite
  <2>. QED  BY <1>1, <1>2, <2>1
<1>4. \A i \in 1 .. Len(store) : store'[i].id = store[i].id
  BY <1>2 DEF Rewritten, Touched
<1>5. UniqueIds'  BY <1>1, <1>3, <1>4 DEF UniqueIds
<1>6. \A v \in Works' : \E w \in Works : Rewritten(w, v, id, index, status, hash)
  BY <1>1, <1>2, <1>3 DEF Works
<1>7. \A w \in Works : \E v \in Works' : Rewritten(w, v, id, index, status, hash)
  BY <1>1, <1>2, <1>3 DEF Works
<1>. QED  BY <1>3, <1>5, <1>6, <1>7

LEMMA Opening ==
  ASSUME store \in Seq(WorkRecs), UniqueIds, FreeIds # {}, NEW key \in Amounts, NEW block \in Nat,
         NEW steps \in Seq(StepRecs), openWork(NewId, key, block, steps)
  PROVE  /\ store' \in Seq(WorkRecs) /\ UniqueIds' /\ NewId \in WorkIds
         /\ \A w \in Works : w.id # NewId
         /\ Works' = Works \cup {[id |-> NewId, operationKey |-> key, fromBlock |-> block,
                                  steps |-> steps, age |-> "young"]}
<1>1. PICK new : new = [id |-> NewId, operationKey |-> key, fromBlock |-> block,
                        steps |-> steps, age |-> "young"]
  OBVIOUS
<1>2. NewId \in WorkIds /\ NewId \notin Ids  BY DEF NewId, FreeIds
<1>3. new \in WorkRecs /\ new.id = NewId  BY <1>1, <1>2 DEF WorkRecs
<1>4. store' = Append(store, new)  BY <1>1 DEF openWork
<1>5. store' \in Seq(WorkRecs) /\ Len(store') = Len(store) + 1 /\ Len(store) \in Nat
  BY <1>3, <1>4
<1>6. store'[Len(store) + 1] = new /\ \A i \in 1 .. Len(store) : store'[i] = store[i]
  BY <1>4, <1>5
<1>7. \A w \in Works : w.id # NewId  BY <1>2 DEF Ids, Works
<1>8. UniqueIds'
  <2>. SUFFICES ASSUME NEW i \in 1 .. Len(store) + 1, NEW j \in 1 .. Len(store) + 1,
                       store'[i].id = store'[j].id
                PROVE  i = j
    BY <1>5 DEF UniqueIds
  <2>. QED  BY <1>3, <1>5, <1>6, <1>7 DEF UniqueIds, Works
<1>9. Works' = Works \cup {new}
  <2>1. \A v \in Works' : v \in Works \cup {new}
    <3>. SUFFICES ASSUME NEW i \in 1 .. Len(store) + 1  PROVE store'[i] \in Works \cup {new}
      BY <1>5 DEF Works
    <3>. QED  BY <1>5, <1>6 DEF Works
  <2>2. new \in Works'  BY <1>5, <1>6 DEF Works
  <2>3. \A w \in Works : w \in Works'
    <3>. SUFFICES ASSUME NEW i \in 1 .. Len(store)  PROVE store[i] \in Works'  BY DEF Works
    <3>. QED  BY <1>5, <1>6 DEF Works
  <2>. QED  BY <2>1, <2>2, <2>3
<1>. QED  BY <1>1, <1>2, <1>5, <1>7, <1>8, <1>9

\* A record that ages is otherwise the same.
Older(w, v) ==
  /\ v.id = w.id /\ v.operationKey = w.operationKey /\ v.fromBlock = w.fromBlock
  /\ v.steps = w.steps
  /\ v.age = w.age \/ (w.age = "young" /\ v.age = "stale") \/ (w.age = "stale" /\ v.age = "old")

LEMMA Ageing ==
  ASSUME store \in Seq(WorkRecs), UniqueIds, \E i \in DOMAIN store : Ages(i)
  PROVE  /\ store' \in Seq(WorkRecs) /\ UniqueIds'
         /\ \A v \in Works' : \E w \in Works : Older(w, v)
         /\ \A w \in Works : \E v \in Works' : Older(w, v)
<1>1. PICK n \in DOMAIN store, age \in {"stale", "old"} :
        /\ <<store[n].age, age>> \in {<<"young", "stale">>, <<"stale", "old">>}
        /\ store' = [store EXCEPT ![n].age = age]
  BY DEF Ages
<1>2. PICK new : new = [store[n] EXCEPT !.age = age]  OBVIOUS
<1>3. store' = [store EXCEPT ![n] = new]  BY <1>1, <1>2
<1>4. store[n] \in WorkRecs /\ n \in 1 .. Len(store)  BY <1>1
<1>5. /\ new \in WorkRecs /\ new.id = store[n].id /\ new.operationKey = store[n].operationKey
      /\ new.fromBlock = store[n].fromBlock /\ new.steps = store[n].steps /\ new.age = age
  BY <1>1, <1>2, <1>4 DEF WorkRecs
<1>6. /\ store' \in Seq(WorkRecs) /\ Len(store') = Len(store) /\ store'[n] = new
      /\ \A i \in 1 .. Len(store) : i # n => store'[i] = store[i]
  BY <1>3, <1>4, <1>5
<1>7. \A i \in 1 .. Len(store) : Older(store[i], store'[i])
  BY <1>1, <1>5, <1>6 DEF Older
<1>8. UniqueIds'  BY <1>6, <1>7 DEF UniqueIds, Older
<1>. QED  BY <1>6, <1>7, <1>8 DEF Works

-----------------------------------------------------------------------------
\* The record that locks the next attempt.

\* A set of numbers that is not empty has a first one; of positions, a last one.
LEMMA FirstOne ==
  ASSUME NEW S \in SUBSET Nat, S # {}
  PROVE  \E i \in S : \A k \in S : i <= k
<1>1. PICK R : R = OpToRel(<, Nat)  OBVIOUS
<1>2. IsWellFoundedOn(R, Nat)  BY <1>1, NatLessThanWellFounded
<1>3. \A x, y \in Nat : <<x, y>> \in R <=> x < y  BY <1>1 DEF OpToRel
<1>4. PICK i \in S : \A k \in S : ~(<<k, i>> \in R)  BY <1>2, WFMin
<1>5. ASSUME NEW k \in S  PROVE i <= k
  <2>1. i \in Nat /\ k \in Nat /\ ~(k < i)  BY <1>3, <1>4
  <2>. QED  BY <2>1
<1>. QED  BY <1>5

LEMMA LastOne ==
  ASSUME NEW n \in Nat, NEW S \in SUBSET (1 .. n), S # {}
  PROVE  \E i \in S : \A k \in S : i >= k
<1>1. PICK T : T = {n - i : i \in S}  OBVIOUS
<1>2. \A i \in S : i \in Nat /\ i <= n /\ n - i \in Nat  OBVIOUS
<1>3. T \in SUBSET Nat /\ T # {}  BY <1>1, <1>2
<1>4. PICK x \in T : \A y \in T : x <= y  BY <1>3, FirstOne
<1>5. PICK i \in S : x = n - i  BY <1>1
<1>6. ASSUME NEW k \in S  PROVE i >= k
  <2>1. n - k \in T /\ n - k \in Nat  BY <1>1, <1>2
  <2>. QED  BY <1>2, <1>4, <1>5, <2>1
<1>. QED  BY <1>6

\* A record that the next attempt may not pass.
Blocking(w) == Listed(w) /\ hasBroadcastStep(w)

LEMMA Found ==
  ASSUME store \in Seq(WorkRecs), UniqueIds
  PROVE  /\ findPendingBroadcast = None => \A w \in Works : ~Blocking(w)
         /\ findPendingBroadcast # None =>
              work(findPendingBroadcast) \in Works /\ Blocking(work(findPendingBroadcast))
<1>1. PICK S : S = {i \in DOMAIN store : Blocking(store[i])}  OBVIOUS
<1>2. S = {i \in DOMAIN store : Listed(store[i]) /\ hasBroadcastStep(store[i])}
  BY <1>1 DEF Blocking
<1>3. CASE S = {}
  BY <1>1, <1>2, <1>3 DEF findPendingBroadcast, Works
<1>4. CASE S # {}
  <2>1. S \in SUBSET (1 .. Len(store)) /\ Len(store) \in Nat  BY <1>1
  <2>2. PICK n : n = CHOOSE i \in S : \A other \in S : i >= other  OBVIOUS
  <2>3. n \in S  BY <1>4, <2>1, <2>2, LastOne
  <2>4. findPendingBroadcast = store[n].id  BY <1>2, <1>4, <2>2 DEF findPendingBroadcast
  <2>5. store[n] \in Works /\ store[n] \in WorkRecs /\ Blocking(store[n])  BY <1>1, <2>3 DEF Works
  <2>6. store[n].id # None  BY <2>5, WorkFields
  <2>7. work(store[n].id) = store[n]  BY <2>5, WorkOf
  <2>. QED  BY <2>4, <2>5, <2>6, <2>7
<1>. QED  BY <1>3, <1>4

-----------------------------------------------------------------------------
\* Sound: records, run and wallet.

HashFits(step) ==
  /\ step.hash # None => step.hash \in Hashes /\ txs[step.hash].kind = step.kind
  /\ step.status = "waiting" => step.hash = None
Shaped(steps) ==
  /\ Len(steps) > 0
  /\ \A k \in 1 .. Len(steps) : steps[k].kind = IF k = Len(steps) THEN "call" ELSE "approval"
ReachedStep(steps, index) ==
  \A k \in 1 .. Len(steps) :
    /\ k < index => steps[k].status = "confirmed"
    /\ k > index => steps[k].status = "waiting"

\* A record's steps were taken one after the other, the call last, and a hash is
\* that of a transaction of the step's kind.
WorkSound(w) ==
  /\ Shaped(w.steps)
  /\ \E index \in 1 .. Len(w.steps) : ReachedStep(w.steps, index)
  /\ \A k \in 1 .. Len(w.steps) : HashFits(w.steps[k])
  /\ w.fromBlock <= height
StoreSound == \A w \in Works : WorkSound(w)

\* The record that a run opened says where the run stands.
Owned(w) ==
  /\ Len(w.steps) = Len(page.planned) /\ w.operationKey = page.amount
  /\ ReachedStep(w.steps, page.index)
  /\ IF page.pc = "confirm"
     THEN w.steps[page.index].status = "broadcast" => w.steps[page.index].hash = page.hash
     ELSE w.steps[page.index].status = "waiting"
Approvals(planned) ==
  \A k \in 1 .. Len(planned) :
    planned[k].kind = "approval" /\ planned[k].status = "waiting" /\ planned[k].hash = None
Settling == {"settle", "effect", "nonces", "unresolved"}
PageSound ==
  /\ page.pc \in Preflight => page.work = None /\ page.index = 1 /\ Approvals(page.planned)
  /\ page.pc \in Settling => page.unresolved \in WorkRecs /\ WorkSound(page.unresolved)
  /\ page.pc \in WithWork =>
       /\ Shaped(page.planned) /\ page.index \in 1 .. Len(page.planned) /\ page.work \in WorkIds
       /\ page.planned[Len(page.planned)].amount = page.amount
       /\ \A w \in Works : w.id = page.work => Owned(w)
  /\ page.pc = "confirm" => page.hash \in Hashes /\ txs[page.hash].kind = Step.kind
WalletSound ==
  /\ wallet # None /\ wallet.state # "open" => page.pc = "wallet"
  /\ page.pc = "wallet" => wallet # None
  /\ wallet # None /\ page.pc \in {"wallet", "recover"} =>
       wallet.kind = Step.kind /\ wallet.amount = Step.amount
  /\ wallet # None /\ wallet.state = "signed" =>
       /\ wallet.hash \in Hashes
       /\ txs[wallet.hash].kind = wallet.kind /\ txs[wallet.hash].amount = wallet.amount
ToldSound == told => Paid # {}

Sound == TypesOK /\ StoreSound /\ PageSound /\ WalletSound /\ ToldSound

LEMMA PageFields ==
  ASSUME NEW p \in PageRecs
  PROVE  /\ p.pc \in Preflight \cup WithWork /\ p.amount \in Amounts /\ p.from \in Nat
         /\ p.planned \in Seq(StepRecs) /\ p.index \in Nat /\ p.work \in WorkIds \cup {None}
         /\ p.unresolved \in WorkRecs \cup {None} /\ p.hash \in Nat \cup {None}
BY DEF PageRecs

LEMMA WalletFields ==
  ASSUME NEW r \in WalletRecs
  PROVE  /\ r.kind \in Kinds /\ r.amount \in Quantities /\ r.hash \in Nat \cup {None}
         /\ r.state \in {"open", "signed", "rejected"}
BY DEF WalletRecs

LEMMA PageRuns ==
  ASSUME page \in PageRecs \cup Screens
  PROVE  /\ page.pc \in Preflight \cup WithWork <=> page \in PageRecs
         /\ page.pc \notin Preflight \cup WithWork => page.pc \in {"ready", "broadcast", "unknown"}
         /\ page = Idle => page.pc = "ready"
         /\ page.pc = "ready" => page = Idle
<1>1. \A s \in Screens : s.pc \in {"ready", "broadcast", "unknown"} /\ (s.pc = "ready" => s = Idle)
  BY DEF Screens, Idle
<1>2. \A p \in PageRecs : p.pc \in Preflight \cup WithWork  BY PageFields
<1>3. \A pc \in {"ready", "broadcast", "unknown"} : pc \notin Preflight \cup WithWork
  BY DEF Preflight, WithWork
<1>4. Idle.pc = "ready"  BY DEF Idle
<1>. QED  BY <1>1, <1>2, <1>3, <1>4

\* A step of the run moves one or two of its fields.
LEMMA Goes ==
  ASSUME page \in PageRecs, NEW pc \in Preflight \cup WithWork, Go(pc)
  PROVE  /\ page' \in PageRecs /\ page'.pc = pc /\ page'.amount = page.amount
         /\ page'.from = page.from /\ page'.planned = page.planned /\ page'.index = page.index
         /\ page'.work = page.work /\ page'.unresolved = page.unresolved /\ page'.hash = page.hash
BY DEF Go, PageRecs

-----------------------------------------------------------------------------
\* The chain: a transaction keeps what it is, and what settled stays.

Settles(tx, ty) ==
  /\ ty.kind = tx.kind /\ ty.amount = tx.amount
  /\ tx.state # "pending" => ty = tx
  /\ ty.state = "success" => tx.state = "success" \/ ty.block = height + 1
TxsFollow ==
  /\ txs' \in Seq(TxRecs) /\ height' \in Nat /\ height <= height'
  /\ Len(txs) <= Len(txs')
  /\ \A h \in 1 .. Len(txs) : Settles(txs[h], txs'[h])

LEMMA TxsStay == txs \in Seq(TxRecs) /\ height \in Nat /\ UNCHANGED chainVars => TxsFollow
BY DEF TxsFollow, Settles, chainVars

LEMMA MineFollows ==
  ASSUME txs \in Seq(TxRecs), height \in Nat, Mine
  PROVE  TxsFollow /\ Len(txs') = Len(txs) /\ height' = height + 1
<1>1. Hashes = 1 .. Len(txs) /\ Len(txs) \in Nat  BY DEF Hashes
<1>2. PICK h : h = CHOOSE x \in Pending : \A other \in Pending : x <= other  OBVIOUS
<1>3. PICK state \in {"success", "reverted"} :
        /\ txs' = [txs EXCEPT ![h].state = state, ![h].block = height + 1]
        /\ height' = height + 1
  BY <1>2 DEF Mine
<1>4. Pending # {} /\ Pending \in SUBSET Nat  BY <1>1 DEF Mine, Pending
<1>5. h \in Pending  BY <1>2, <1>4, FirstOne
<1>6. h \in 1 .. Len(txs) /\ txs[h] \in TxRecs /\ txs[h].state = "pending"
  BY <1>1, <1>5 DEF Pending
<1>7. PICK tx : tx = [txs[h] EXCEPT !.state = state, !.block = height + 1]  OBVIOUS
<1>8. txs' = [txs EXCEPT ![h] = tx]  BY <1>3, <1>7
<1>9. /\ tx \in TxRecs /\ tx.kind = txs[h].kind /\ tx.amount = txs[h].amount
      /\ tx.state = state /\ tx.block = height + 1
  <2>1. PICK old \in TxRecs : old = txs[h]  BY <1>6
  <2>2. tx = [old EXCEPT !.state = state, !.block = height + 1]  BY <1>7, <2>1
  <2>3. height + 1 \in Nat  OBVIOUS
  <2>. QED  BY <2>1, <2>2, <2>3 DEF TxRecs
<1>10. /\ txs' \in Seq(TxRecs) /\ Len(txs') = Len(txs) /\ txs'[h] = tx
       /\ \A i \in 1 .. Len(txs) : i # h => txs'[i] = txs[i]
  BY <1>6, <1>8, <1>9
<1>. QED  BY <1>1, <1>3, <1>6, <1>9, <1>10 DEF TxsFollow, Settles

LEMMA EvictionFollows ==
  ASSUME txs \in Seq(TxRecs), height \in Nat, Evicted
  PROVE  /\ TxsFollow /\ Len(txs') = Len(txs) /\ height' = height
         /\ \A h \in 1 .. Len(txs) : txs'[h].state = "success" => txs[h].state = "success"
<1>1. Hashes = 1 .. Len(txs) /\ Len(txs) \in Nat  BY DEF Hashes
<1>2. PICK h : h = CHOOSE x \in Pending : \A other \in Pending : x >= other  OBVIOUS
<1>3. txs' = [txs EXCEPT ![h].state = "dropped"] /\ height' = height  BY <1>2 DEF Evicted
<1>4. Pending # {} /\ Pending \in SUBSET (1 .. Len(txs))  BY <1>1 DEF Evicted, Pending
<1>5. h \in Pending  BY <1>1, <1>2, <1>4, LastOne
<1>6. h \in 1 .. Len(txs) /\ txs[h] \in TxRecs /\ txs[h].state = "pending"
  BY <1>1, <1>5 DEF Pending
<1>7. PICK tx : tx = [txs[h] EXCEPT !.state = "dropped"]  OBVIOUS
<1>8. txs' = [txs EXCEPT ![h] = tx]  BY <1>3, <1>7
<1>9. tx \in TxRecs /\ tx.kind = txs[h].kind /\ tx.amount = txs[h].amount /\ tx.state = "dropped"
  BY <1>6, <1>7 DEF TxRecs
<1>10. /\ txs' \in Seq(TxRecs) /\ Len(txs') = Len(txs) /\ txs'[h] = tx
       /\ \A i \in 1 .. Len(txs) : i # h => txs'[i] = txs[i]
  BY <1>6, <1>8, <1>9
<1>. QED  BY <1>1, <1>3, <1>6, <1>9, <1>10 DEF TxsFollow, Settles

LEMMA BroadcastFollows ==
  ASSUME txs \in Seq(TxRecs), height \in Nat, NEW kind \in Kinds, NEW amount \in Quantities,
         Broadcast(kind, amount)
  PROVE  /\ TxsFollow /\ Len(txs') = Len(txs) + 1 /\ height' = height
         /\ \A h \in 1 .. Len(txs) : txs'[h] = txs[h]
         /\ txs'[Len(txs) + 1].kind = kind /\ txs'[Len(txs) + 1].amount = amount
         /\ txs'[Len(txs) + 1].state = "pending"
<1>1. PICK tx : tx = [kind |-> kind, amount |-> amount, state |-> "pending", block |-> 0]  OBVIOUS
<1>2. tx \in TxRecs /\ tx.kind = kind /\ tx.amount = amount /\ tx.state = "pending"
  BY <1>1 DEF TxRecs
<1>3. txs' = Append(txs, tx) /\ height' = height  BY <1>1 DEF Broadcast
<1>4. /\ txs' \in Seq(TxRecs) /\ Len(txs') = Len(txs) + 1 /\ Len(txs) \in Nat
      /\ txs'[Len(txs) + 1] = tx /\ \A h \in 1 .. Len(txs) : txs'[h] = txs[h]
  BY <1>2, <1>3
<1>. QED  BY <1>2, <1>3, <1>4 DEF TxsFollow, Settles

LEMMA HashesAre == txs \in Seq(TxRecs) => Hashes = 1 .. Len(txs) /\ Len(txs) \in Nat
BY DEF Hashes

LEMMA PaidStays ==
  ASSUME txs \in Seq(TxRecs), TxsFollow
  PROVE  Paid \subseteq Paid' /\ Hashes \subseteq Hashes'
<1>1. /\ Hashes = 1 .. Len(txs) /\ Hashes' = 1 .. Len(txs')
      /\ Len(txs) \in Nat /\ Len(txs') \in Nat /\ Len(txs) <= Len(txs')
  BY HashesAre DEF TxsFollow, Hashes
<1>2. Hashes \subseteq Hashes'  BY <1>1
<1>3. ASSUME NEW h \in Paid  PROVE h \in Paid'
  <2>1. h \in 1 .. Len(txs) /\ txs[h].kind = "call" /\ txs[h].state = "success"  BY <1>1, <1>3 DEF Paid
  <2>2. txs'[h] = txs[h]  BY <2>1 DEF TxsFollow, Settles
  <2>. QED  BY <1>2, <2>1, <2>2, <1>1 DEF Paid
<1>. QED  BY <1>2, <1>3

LEMMA FitStays ==
  ASSUME txs \in Seq(TxRecs), TxsFollow, NEW h \in Hashes
  PROVE  h \in Hashes' /\ txs'[h].kind = txs[h].kind /\ txs'[h].amount = txs[h].amount
BY HashesAre, PaidStays DEF TxsFollow, Settles

LEMMA WorkStays ==
  ASSUME txs \in Seq(TxRecs), height \in Nat, TxsFollow, NEW w \in WorkRecs, WorkSound(w)
  PROVE  WorkSound(w)'
<1>1. w.steps \in Seq(StepRecs) /\ w.fromBlock \in Nat  BY WorkFields
<1>2. \A k \in 1 .. Len(w.steps) : HashFits(w.steps[k])'
  BY FitStays DEF WorkSound, HashFits
<1>3. w.fromBlock <= height'  BY <1>1 DEF TxsFollow, WorkSound
<1>. QED  BY <1>2, <1>3 DEF WorkSound

\* The record that is being settled is the one that was found.
LEMMA FoundStays ==
  ASSUME Sound, TxsFollow, page.pc \in Settling, page'.unresolved = page.unresolved
  PROVE  page'.unresolved \in WorkRecs /\ WorkSound(page.unresolved)'
<1>1. PICK u \in WorkRecs : u = page.unresolved /\ WorkSound(u)  BY DEF Sound, PageSound
<1>2. WorkSound(u)'  BY <1>1, WorkStays DEF Sound, TypesOK
<1>3. page'.unresolved = u  BY <1>1
<1>. QED  BY <1>2, <1>3 DEF WorkSound, HashFits, Shaped, ReachedStep, Hashes

LEMMA Assembled ==
  ASSUME Sound, TxsFollow, (store \in Seq(WorkRecs) /\ UniqueIds)',
         \A v \in Works' : WorkSound(v)',
         (page \in PageRecs \cup Screens /\ wallet \in WalletRecs \cup {None})',
         PageSound', WalletSound', told' => told \/ Paid' # {}
  PROVE  Sound'
BY PaidStays DEF Sound, TypesOK, StoreSound, ToldSound, TxsFollow

\* The records stay as they are.
LEMMA RecordsStay ==
  ASSUME Sound, TxsFollow, store' = store
  PROVE  /\ (store \in Seq(WorkRecs) /\ UniqueIds)' /\ Works' = Works
         /\ \A v \in Works' : WorkSound(v)'
<1>1. Works' = Works  BY DEF Works
<1>. QED  BY <1>1, WorkStays, WorksAre DEF Sound, TypesOK, StoreSound, UniqueIds

\* A record is closed.
LEMMA RecordCloses ==
  ASSUME Sound, TxsFollow, NEW id, closeWork(id)
  PROVE  /\ (store \in Seq(WorkRecs) /\ UniqueIds)' /\ Works' = {w \in Works : w.id # id}
         /\ \A v \in Works' : WorkSound(v)'
BY Closing, WorkStays, WorksAre DEF Sound, TypesOK, StoreSound

\* The page is left.
LEMMA PageLeft ==
  ASSUME page' \in Screens, wallet' \in WalletRecs \cup {None},
         wallet' # None => wallet'.state = "open"
  PROVE  (page \in PageRecs \cup Screens)' /\ PageSound' /\ WalletSound'
BY DEF Screens, Idle, PageSound, WalletSound, Preflight, WithWork, Settling

LEMMA OnScreen ==
  ASSUME NEW pc \in {"broadcast", "unknown"}, Shown(pc) \/ page' = Idle
  PROVE  page' \in Screens
BY DEF Shown, Screens

LEMMA WalletOpen ==
  ASSUME Sound, page.pc # "wallet", wallet # None
  PROVE  wallet.state = "open"
BY DEF Sound, WalletSound

-----------------------------------------------------------------------------
\* Steps that leave records and chain alone.

LEMMA PressSound == Sound /\ Press => Sound'
<1>. SUFFICES ASSUME Sound, Press  PROVE Sound'  OBVIOUS
<1>1. UNCHANGED <<store, chainVars, wallet, told>> /\ page = Idle  BY DEF Press, aside
<1>2. PICK amount \in Amounts : page' = Running(amount)  BY DEF Press
<1>3. page' \in PageRecs /\ page'.pc = "checking" /\ page'.planned = <<>> /\ page'.work = None
      /\ page'.index = 1
  BY <1>2 DEF Running, PageRecs, Preflight, Sound, TypesOK
<1>4. TxsFollow  BY <1>1, TxsStay DEF Sound, TypesOK
<1>5. PageSound'  BY <1>3 DEF PageSound, Preflight, WithWork, Settling, Approvals
<1>6. WalletSound'
  <2>1. wallet # None => wallet.state = "open"  BY <1>1, WalletOpen DEF Idle
  <2>. QED  BY <1>1, <1>3, <2>1 DEF WalletSound
<1>. QED  BY <1>1, <1>3, <1>4, <1>5, <1>6, Assembled, RecordsStay DEF Sound, TypesOK

\* The page is left with the chain as it is; a record may be closed.
LEMMA LeavesSound ==
  ASSUME Sound, UNCHANGED <<chainVars>>, store' = store \/ (\E id : closeWork(id)),
         told' => told \/ Paid # {}, page' \in Screens,
         wallet' \in WalletRecs \cup {None}, wallet' # None => wallet'.state = "open"
  PROVE  Sound'
<1>1. TxsFollow  BY TxsStay DEF Sound, TypesOK
<1>2. Paid' = Paid  BY DEF Paid, Hashes, chainVars
<1>. QED  BY <1>1, <1>2, PageLeft, RecordsStay, RecordCloses, Assembled

LEMMA ReloadSound == Sound /\ (Reload \/ PageEvicted \/ ReceiptWaitFails) => Sound'
<1>. SUFFICES ASSUME Sound, Reload \/ PageEvicted \/ ReceiptWaitFails  PROVE Sound'  OBVIOUS
<1>1. page' \in Screens /\ UNCHANGED <<store, chainVars, told>>
  BY DEF Reload, PageEvicted, ReceiptWaitFails, aside, Screens, Shown
<1>2. CASE PageEvicted
  <2>1. wallet' = IF wallet # None /\ wallet.state # "open" THEN None ELSE wallet
    BY <1>2 DEF PageEvicted
  <2>. QED  BY <1>1, <2>1, LeavesSound DEF Sound, TypesOK
<1>3. CASE Reload \/ ReceiptWaitFails
  <2>1. wallet' = wallet /\ page.pc # "wallet"  BY <1>3 DEF Reload, ReceiptWaitFails
  <2>. QED  BY <1>1, <2>1, WalletOpen, LeavesSound DEF Sound, TypesOK
<1>. QED  BY <1>2, <1>3

\* A record is closed and the page starts afresh, outside a wallet request.
LEMMA RefusedSound ==
  ASSUME Sound, page.pc # "wallet", NEW id, closeWork(id), page' = Idle, UNCHANGED <<chainVars, wallet>>,
         told' => told \/ Paid # {}
  PROVE  Sound'
<1>1. page' \in Screens  BY DEF Screens
<1>. QED  BY <1>1, WalletOpen, LeavesSound DEF Sound, TypesOK

-----------------------------------------------------------------------------
\* Before the wallet is asked: the run has no record of its own.

LEMMA PreflightGoes ==
  ASSUME Sound, page.pc \in Preflight, page' \in PageRecs, page'.pc \in Preflight,
         page'.work = None, page'.index = 1, Approvals(page'.planned),
         page'.pc \in Settling => page'.unresolved \in WorkRecs /\ WorkSound(page.unresolved)',
         UNCHANGED <<chainVars, wallet, told>>, store' = store \/ (\E id : closeWork(id))
  PROVE  Sound'
<1>1. page'.pc \notin WithWork /\ page.pc \notin {"wallet", "recover"}
      /\ page'.pc \notin {"wallet", "recover", "confirm"}
  BY DEF Preflight, WithWork
<1>2. PageSound'  BY <1>1 DEF PageSound, Approvals
<1>3. WalletSound'
  <2>1. wallet # None => wallet.state = "open"  BY <1>1, WalletOpen
  <2>. QED  BY <1>1, <2>1 DEF WalletSound
<1>4. TxsFollow  BY TxsStay DEF Sound, TypesOK
<1>. QED  BY <1>2, <1>3, <1>4, RecordsStay, RecordCloses, Assembled DEF Sound, TypesOK

LEMMA PreflightSettles ==
  ASSUME Sound, page.pc \in Preflight, NEW pc \in Preflight, Go(pc),
         pc \in Settling => page.pc \in Settling,
         UNCHANGED <<chainVars, wallet, told>>, store' = store \/ (\E id : closeWork(id))
  PROVE  Sound'
<1>1. page \in PageRecs  BY PageRuns DEF Sound, TypesOK
<1>2. /\ page' \in PageRecs /\ page'.pc = pc /\ page'.planned = page.planned
      /\ page'.index = page.index /\ page'.work = page.work /\ page'.unresolved = page.unresolved
  BY <1>1, Goes
<1>3. page.work = None /\ page.index = 1 /\ Approvals(page.planned)  BY DEF Sound, PageSound
<1>4. TxsFollow  BY TxsStay DEF Sound, TypesOK
<1>. QED  BY <1>2, <1>3, <1>4, FoundStays, PreflightGoes

LEMMA PlanSound == Sound /\ planApproval => Sound'
<1>. SUFFICES ASSUME Sound, planApproval  PROVE Sound'  OBVIOUS
<1>1. page.pc \in Preflight /\ UNCHANGED <<store, chainVars, wallet, told>>
  BY DEF planApproval, Preflight, aside
<1>2. page \in PageRecs  BY <1>1, PageRuns DEF Sound, TypesOK
<1>3. PICK approvals :
        /\ approvals = IF token THEN paymentApprovalAmounts(page.amount) ELSE <<>>
        /\ page' = [page EXCEPT !.pc = "look", !.plannedAt = height,
                      !.planned = [i \in DOMAIN approvals |-> PendingStep("approval", approvals[i])]]
  BY DEF planApproval
<1>4. approvals \in Seq(Quantities)
  <2>1. page.amount \in Quantities /\ 0 \in Quantities  BY <1>2, PageFields DEF Quantities
  <2>. QED  BY <1>3, <2>1 DEF paymentApprovalAmounts
<1>5. PICK planned : planned = [i \in DOMAIN approvals |-> PendingStep("approval", approvals[i])]
  OBVIOUS
<1>6. ASSUME NEW a \in Quantities
      PROVE  /\ PendingStep("approval", a) \in StepRecs /\ PendingStep("approval", a).kind = "approval"
             /\ PendingStep("approval", a).status = "waiting"
             /\ PendingStep("approval", a).hash = None
  BY DEF PendingStep, StepRecs, Kinds
<1>7. planned \in Seq(StepRecs) /\ Approvals(planned)
  <2>1. planned \in Seq(StepRecs) /\ Len(planned) = Len(approvals)  BY <1>4, <1>5, <1>6
  <2>. QED  BY <1>4, <1>5, <1>6, <2>1 DEF Approvals
<1>8. page' = [page EXCEPT !.pc = "look", !.plannedAt = height, !.planned = planned]
  BY <1>3, <1>5
<1>9. height \in Nat  BY DEF Sound, TypesOK
<1>10. /\ page' \in PageRecs /\ page'.pc = "look" /\ page'.planned = planned
       /\ page'.work = page.work /\ page'.index = page.index
  BY <1>2, <1>7, <1>8, <1>9 DEF PageRecs, Preflight
<1>11. page.work = None /\ page.index = 1  BY <1>1 DEF Sound, PageSound
<1>12. page'.pc \in Preflight /\ page'.pc \notin Settling  BY <1>10 DEF Preflight, Settling
<1>. QED  BY <1>1, <1>7, <1>10, <1>11, <1>12, PreflightGoes

LEMMA LookSound == Sound /\ LookForUnresolved => Sound'
<1>. SUFFICES ASSUME Sound, LookForUnresolved  PROVE Sound'  OBVIOUS
<1>1. page.pc \in Preflight /\ UNCHANGED <<store, chainVars, wallet, told>>
  BY DEF LookForUnresolved, Preflight, aside
<1>2. page \in PageRecs  BY <1>1, PageRuns DEF Sound, TypesOK
<1>3. page.work = None /\ page.index = 1 /\ Approvals(page.planned)  BY <1>1 DEF Sound, PageSound
<1>4. CASE findPendingBroadcast = None
  <2>1. Go("open")  BY <1>4 DEF LookForUnresolved, Go
  <2>2. "open" \in Preflight /\ "open" \notin Settling  BY DEF Preflight, Settling
  <2>. QED  BY <1>1, <2>1, <2>2, PreflightSettles
<1>5. CASE findPendingBroadcast # None
  <2>1. PICK u \in WorkRecs :
          u = work(findPendingBroadcast) /\ u \in Works
          /\ page' = [page EXCEPT !.pc = "settle", !.unresolved = u]
    BY <1>5, Found, WorksAre DEF Sound, TypesOK, LookForUnresolved
  <2>2. /\ page' \in PageRecs /\ page'.pc = "settle" /\ page'.planned = page.planned
        /\ page'.work = page.work /\ page'.index = page.index /\ page'.unresolved = u
    BY <1>2, <2>1 DEF PageRecs, Preflight
  <2>3. TxsFollow  BY <1>1, TxsStay DEF Sound, TypesOK
  <2>4. WorkSound(u)'  BY <2>1, <2>3, WorkStays DEF Sound, TypesOK, StoreSound
  <2>5. WorkSound(page.unresolved)'
    BY <2>2, <2>4 DEF WorkSound, HashFits, Shaped, ReachedStep, Hashes
  <2>6. page'.pc \in Preflight  BY <2>2 DEF Preflight
  <2>. QED  BY <1>1, <1>3, <2>2, <2>5, <2>6, PreflightGoes
<1>. QED  BY <1>4, <1>5

\* A payment that landed is told.
LEMMA LandedSound ==
  ASSUME Sound, page.pc # "wallet", NEW id, Landed(id), Paid # {}, UNCHANGED <<chainVars, wallet>>
  PROVE  Sound'
BY RefusedSound DEF Landed

LEMMA EffectsPay ==
  ASSUME NEW fromBlock, NEW key
  PROVE  reconcileBroadcast(fromBlock, key) \subseteq Paid
BY DEF reconcileBroadcast, Effects, Paid

LEMMA SettleSound == Sound /\ (Settle \/ SettleFails \/ Refused) => Sound'
<1>. SUFFICES ASSUME Sound, Settle \/ SettleFails \/ Refused  PROVE Sound'  OBVIOUS
<1>1. UNCHANGED <<chainVars, wallet>>
  BY DEF Settle, SettleByHash, SettleByEffect, SettleByNonce, Unresolved, SettleFails, Refused
<1>2. {"open", "nonces", "effect", "unresolved"} \subseteq Preflight
      /\ {"nonces", "effect", "unresolved"} \subseteq Settling
      /\ "open" \notin Settling
  BY DEF Preflight, Settling
<1>3. CASE SettleByHash
  <2>1. page.pc \in Preflight \cap Settling /\ page.pc # "wallet"
    BY <1>3 DEF SettleByHash, Preflight, Settling
  <2>2. CASE \E h \in HashesOf(SentAs("call")) : h \in Paid
    BY <1>1, <1>3, <2>1, <2>2, LandedSound DEF SettleByHash
  <2>3. CASE ~\E h \in HashesOf(SentAs("call")) : h \in Paid
    <3>1. UNCHANGED <<store, told>> /\ \E pc \in {"nonces", "effect", "unresolved"} : Go(pc)
      BY <1>3, <2>3 DEF SettleByHash, aside
    <3>. QED  BY <1>1, <1>2, <2>1, <3>1, PreflightSettles
  <2>. QED  BY <2>2, <2>3
<1>4. CASE SettleByEffect
  <2>1. page.pc \in Preflight \cap Settling /\ page.pc # "wallet"
    BY <1>4 DEF SettleByEffect, Preflight, Settling
  <2>2. CASE EffectSince # {}
    BY <1>1, <1>4, <2>1, <2>2, LandedSound, EffectsPay DEF SettleByEffect, EffectSince
  <2>3. CASE EffectSince = {}
    <3>1. UNCHANGED <<store, told>> /\ Go("nonces")  BY <1>4, <2>3 DEF SettleByEffect, aside
    <3>. QED  BY <1>1, <1>2, <2>1, <3>1, PreflightSettles
  <2>. QED  BY <2>2, <2>3
<1>5. CASE SettleByNonce
  <2>1. page.pc \in Preflight \cap Settling  BY <1>5 DEF SettleByNonce, Preflight, Settling
  <2>2. told' = told /\ \/ Go("unresolved") /\ store' = store
                        \/ Go("open") /\ closeWork(page.unresolved.id)
    BY <1>5 DEF SettleByNonce, aside
  <2>. QED  BY <1>1, <1>2, <2>1, <2>2, PreflightSettles
<1>6. CASE Unresolved
  <2>1. page.pc \in Preflight \cap Settling /\ page.pc # "wallet"
    BY <1>6 DEF Unresolved, Preflight, Settling
  <2>2. CASE told' = told /\ closeWork(page.unresolved.id) /\ Go("open")
    BY <1>1, <1>2, <2>1, <2>2, PreflightSettles
  <2>3. CASE EffectSince # {} /\ Landed(page.unresolved.id)
    BY <1>1, <2>1, <2>3, LandedSound, EffectsPay DEF EffectSince
  <2>4. CASE Shown("unknown") /\ UNCHANGED <<store, told>>
    BY <1>1, <2>1, <2>4, OnScreen, WalletOpen, LeavesSound DEF Sound, TypesOK
  <2>. QED  BY <1>6, <2>2, <2>3, <2>4 DEF Unresolved, aside
<1>7. CASE SettleFails
  <2>1. page.pc \in Preflight \cap Settling  BY <1>7 DEF SettleFails, Preflight, Settling
  <2>2. Go("unresolved") /\ UNCHANGED <<store, told>>  BY <1>7 DEF SettleFails, aside
  <2>. QED  BY <1>1, <1>2, <2>1, <2>2, PreflightSettles
<1>8. CASE Refused
  <2>1. page.pc # "wallet" /\ closeWork(page.work) /\ page' = Idle /\ told' = told
    BY <1>8 DEF Refused, aside
  <2>. QED  BY <1>1, <2>1, RefusedSound
<1>. QED  BY <1>3, <1>4, <1>5, <1>6, <1>7, <1>8 DEF Settle

-----------------------------------------------------------------------------
\* The run opens its record and takes its steps.

LEMMA OpenSound == Sound /\ OpenWork => Sound'
<1>. SUFFICES ASSUME Sound, OpenWork  PROVE Sound'  OBVIOUS
<1>1. page.pc \in Preflight /\ FreeIds # {} /\ UNCHANGED <<chainVars, wallet, told>>
  BY DEF OpenWork, Preflight, aside
<1>2. page \in PageRecs /\ page.amount \in Amounts /\ page.planned \in Seq(StepRecs)
  BY <1>1, PageRuns, PageFields DEF Sound, TypesOK
<1>3. page.index = 1 /\ Approvals(page.planned)  BY <1>1 DEF Sound, PageSound
<1>4. PICK call : call = PendingStep("call", page.amount)  OBVIOUS
<1>5. /\ call \in StepRecs /\ call.kind = "call" /\ call.amount = page.amount
      /\ call.status = "waiting" /\ call.hash = None
  BY <1>2, <1>4 DEF PendingStep, StepRecs, Kinds, Quantities
<1>6. PICK planned : planned = Append(page.planned, call)  OBVIOUS
<1>7. /\ planned \in Seq(StepRecs) /\ Len(planned) = Len(page.planned) + 1 /\ Len(page.planned) \in Nat
      /\ planned[Len(planned)] = call
      /\ \A k \in 1 .. Len(page.planned) : planned[k] = page.planned[k]
  BY <1>2, <1>5, <1>6
<1>8. /\ Shaped(planned)
      /\ \A k \in 1 .. Len(planned) : planned[k].status = "waiting" /\ planned[k].hash = None
  <2>. SUFFICES ASSUME NEW k \in 1 .. Len(planned)
                PROVE  /\ planned[k].kind = IF k = Len(planned) THEN "call" ELSE "approval"
                       /\ planned[k].status = "waiting" /\ planned[k].hash = None
    BY <1>7 DEF Shaped
  <2>1. CASE k = Len(planned)  BY <1>5, <1>7, <2>1
  <2>2. CASE k # Len(planned)
    <3>1. k \in 1 .. Len(page.planned)  BY <1>7, <2>2
    <3>. QED  BY <1>3, <1>7, <2>2, <3>1 DEF Approvals
  <2>. QED  BY <2>1, <2>2
<1>9. /\ openWork(NewId, page.amount, height, planned)
      /\ page' = [page EXCEPT !.pc = "prepare", !.work = NewId, !.planned = planned,
                              !.unresolved = None]
  BY <1>4, <1>6 DEF OpenWork
<1>10. PICK new : new = [id |-> NewId, operationKey |-> page.amount, fromBlock |-> height,
                         steps |-> planned, age |-> "young"]
  OBVIOUS
<1>11. /\ (store \in Seq(WorkRecs) /\ UniqueIds)' /\ NewId \in WorkIds
       /\ Works' = Works \cup {new} /\ \A w \in Works : w.id # NewId
  BY <1>1, <1>2, <1>7, <1>9, <1>10, Opening DEF Sound, TypesOK
<1>12. /\ page' \in PageRecs /\ page'.pc = "prepare" /\ page'.work = NewId
       /\ page'.planned = planned /\ page'.index = 1 /\ page'.amount = page.amount
  BY <1>2, <1>3, <1>7, <1>9, <1>11 DEF PageRecs, WithWork
<1>13. TxsFollow  BY <1>1, TxsStay DEF Sound, TypesOK
<1>14. /\ new.id = NewId /\ new.operationKey = page.amount /\ new.fromBlock = height
       /\ new.steps = planned
  BY <1>10
<1>15. WorkSound(new)'
  <2>1. ReachedStep(planned, 1)  BY <1>8 DEF ReachedStep
  <2>2. height' = height /\ height \in Nat  BY <1>1 DEF chainVars, Sound, TypesOK
  <2>3. 1 \in 1 .. Len(planned)  BY <1>7
  <2>4. \A k \in 1 .. Len(planned) : HashFits(planned[k])'  BY <1>8 DEF HashFits
  <2>. QED  BY <1>8, <1>14, <2>1, <2>2, <2>3, <2>4 DEF WorkSound
<1>16. \A v \in Works' : WorkSound(v)'
  <2>1. \A w \in Works : WorkSound(w)'
    BY <1>13, WorkStays, WorksAre DEF Sound, TypesOK, StoreSound
  <2>. QED  BY <1>11, <1>15, <2>1
<1>17. PageSound'
  <2>1. \A w \in Works' : w.id = NewId => w = new  BY <1>11
  <2>2. Len(planned) > 0 /\ planned[1].status = "waiting"  BY <1>7, <1>8
  <2>3. Owned(new)'  BY <1>8, <1>12, <1>14, <2>2 DEF Owned, ReachedStep
  <2>4. page'.pc \notin Preflight /\ page'.pc \notin Settling  BY <1>12 DEF Preflight, Settling
  <2>5. \A w \in Works' : w.id = page'.work => Owned(w)'  BY <1>12, <2>1, <2>3
  <2>. QED  BY <1>5, <1>7, <1>8, <1>11, <1>12, <2>2, <2>4, <2>5 DEF PageSound
<1>18. WalletSound'
  <2>1. wallet # None => wallet.state = "open"  BY <1>1, WalletOpen DEF Preflight
  <2>. QED  BY <1>1, <1>12, <2>1 DEF WalletSound
<1>. QED  BY <1>1, <1>11, <1>12, <1>13, <1>16, <1>17, <1>18, Assembled DEF Sound, TypesOK

\* What the page's run and its record are while a step is under way.
LEMMA InRun ==
  ASSUME Sound, page.pc \in WithWork
  PROVE  /\ page \in PageRecs /\ page.amount \in Amounts /\ page.planned \in Seq(StepRecs)
         /\ Shaped(page.planned) /\ page.index \in 1 .. Len(page.planned) /\ page.work \in WorkIds
         /\ page.planned[Len(page.planned)].amount = page.amount
         /\ Step \in StepRecs
         /\ \A w \in Works : w.id = page.work => Owned(w)
<1>1. page \in PageRecs /\ page.amount \in Amounts /\ page.planned \in Seq(StepRecs)
  BY PageRuns, PageFields DEF Sound, TypesOK
<1>. QED  BY <1>1 DEF Sound, PageSound, Step

\* The run goes on to another of its moments; records and chain stay as they are.
LEMMA RunGoes ==
  ASSUME Sound, page.pc \in WithWork \ {"confirm"}, NEW pc \in WithWork \ {"confirm"}, Go(pc),
         UNCHANGED <<store, chainVars, told>>, wallet' \in WalletRecs \cup {None}, WalletSound'
  PROVE  Sound'
<1>1. /\ page' \in PageRecs /\ page'.pc = pc /\ page'.amount = page.amount
      /\ page'.planned = page.planned /\ page'.index = page.index /\ page'.work = page.work
  BY InRun, Goes
<1>2. TxsFollow  BY TxsStay DEF Sound, TypesOK
<1>3. Works' = Works  BY DEF Works
<1>4. ASSUME NEW w \in Works, w.id = page.work  PROVE Owned(w)'
  <2>1. Owned(w)  BY <1>4, InRun
  <2>. QED  BY <1>1, <2>1 DEF Owned
<1>5. pc \notin Preflight \cup Settling /\ pc # "confirm" /\ pc \in WithWork
  BY DEF Preflight, Settling, WithWork
<1>6. PageSound'
  BY <1>1, <1>3, <1>4, <1>5, InRun DEF PageSound
<1>. QED  BY <1>1, <1>2, <1>6, RecordsStay, Assembled

LEMMA StepsSound == Sound /\ (Prepare \/ Tap \/ WalletConnectionLost) => Sound'
<1>. SUFFICES ASSUME Sound, Prepare \/ Tap \/ WalletConnectionLost  PROVE Sound'  OBVIOUS
<1>1. UNCHANGED <<store, chainVars, told>> /\ page.pc \in WithWork \ {"confirm"}
  BY DEF Prepare, Tap, WalletConnectionLost, aside, WithWork
<1>2. page \in PageRecs  BY <1>1, InRun
<1>3. CASE Prepare
  <2>1. Go("gesture") /\ page.pc # "wallet" /\ wallet' = wallet  BY <1>3 DEF Prepare
  <2>2. page'.pc = "gesture"  BY <1>2, <2>1, Goes DEF WithWork
  <2>3. WalletSound'  BY <2>1, <2>2, WalletOpen DEF WalletSound
  <2>. QED  BY <1>1, <2>1, <2>3, RunGoes DEF WithWork, Sound, TypesOK
<1>4. CASE Tap
  <2>1. Go("wallet") /\ wallet' = [kind |-> Step.kind, amount |-> Step.amount, state |-> "open", hash |-> None]
    BY <1>4 DEF Tap
  <2>2. page'.pc = "wallet" /\ page'.planned = page.planned /\ page'.index = page.index
    BY <1>2, <2>1, Goes DEF WithWork
  <2>3. /\ wallet' \in WalletRecs /\ wallet'.state = "open" /\ wallet'.kind = Step.kind
        /\ wallet'.amount = Step.amount
    BY <1>1, <2>1, InRun, StepFields DEF WalletRecs
  <2>4. wallet' # None  BY <2>3, NoneIsNoRequest DEF WalletRecs, Kinds, Quantities
  <2>5. WalletSound'  BY <2>2, <2>3, <2>4 DEF WalletSound, Step
  <2>. QED  BY <1>1, <2>1, <2>3, <2>5, RunGoes DEF WithWork
<1>5. CASE WalletConnectionLost
  <2>1. Go("recover") /\ page.pc = "wallet" /\ wallet' = IF wallet.state = "open" THEN wallet ELSE None
    BY <1>5 DEF WalletConnectionLost
  <2>2. page'.pc = "recover" /\ page'.planned = page.planned /\ page'.index = page.index
    BY <1>2, <2>1, Goes DEF WithWork
  <2>3. WalletSound'  BY <2>1, <2>2 DEF Sound, WalletSound, Step
  <2>. QED  BY <1>1, <2>1, <2>3, RunGoes DEF WithWork, Sound, TypesOK
<1>. QED  BY <1>3, <1>4, <1>5

\* One record's step is written; the others stay.
MayBeWritten(id, index, hash) ==
  \A w \in Works : w.id = id =>
    /\ index \in 1 .. Len(w.steps) /\ ReachedStep(w.steps, index)
    /\ hash # None => txs[hash].kind = w.steps[index].kind
AsWritten(w, v, id, index, status, hash) ==
  /\ v.id = w.id
  /\ w.id # id => v = w
  /\ w.id = id => Touched(w, v, index, status, hash)
LEMMA Written ==
  ASSUME Sound, TxsFollow, NEW id, NEW index \in Nat,
         NEW status \in {"broadcast", "confirmed"}, NEW hash \in Hashes \cup {None},
         Rewrite(id, index, status, hash), MayBeWritten(id, index, hash)
  PROVE  /\ (store \in Seq(WorkRecs) /\ UniqueIds)' /\ \A v \in Works' : WorkSound(v)'
         /\ \A v \in Works' : \E w \in Works : AsWritten(w, v, id, index, status, hash)
         /\ \A w \in Works : \E v \in Works' : AsWritten(w, v, id, index, status, hash)
<1>1. Hashes \subseteq Nat  BY HashesAre DEF Sound, TypesOK
<1>2. /\ (store \in Seq(WorkRecs) /\ UniqueIds)'
      /\ \A v \in Works' : \E w \in Works : Rewritten(w, v, id, index, status, hash)
      /\ \A w \in Works : \E v \in Works' : Rewritten(w, v, id, index, status, hash)
  BY <1>1, Rewriting DEF Sound, TypesOK
<1>3. ASSUME NEW w \in Works, NEW v, Rewritten(w, v, id, index, status, hash)
      PROVE  AsWritten(w, v, id, index, status, hash)
  <2>1. index \notin 1 .. Len(w.steps) => w.id # id  BY DEF MayBeWritten
  <2>. QED  BY <1>3, <2>1 DEF Rewritten, Touched, AsWritten
<1>4. ASSUME NEW v \in Works'  PROVE WorkSound(v)'
  <2>1. PICK w \in Works : Rewritten(w, v, id, index, status, hash)  BY <1>2
  <2>2. WorkSound(w)' /\ w \in WorkRecs
    BY WorkStays, WorksAre DEF Sound, TypesOK, StoreSound
  <2>3. CASE w.id # id  BY <1>3, <2>1, <2>2, <2>3 DEF AsWritten
  <2>4. CASE w.id = id
    <3>1. Touched(w, v, index, status, hash)  BY <1>3, <2>1, <2>4 DEF AsWritten
    <3>2. index \in 1 .. Len(w.steps) /\ ReachedStep(w.steps, index)  BY <2>4 DEF MayBeWritten
    <3>3. Shaped(v.steps) /\ v.fromBlock <= height'
      BY <2>2, <3>1 DEF WorkSound, Touched, Shaped
    <3>4. ReachedStep(v.steps, index) /\ index \in 1 .. Len(v.steps)
      BY <3>1, <3>2 DEF Touched, ReachedStep
    <3>5. ASSUME NEW k \in 1 .. Len(v.steps)  PROVE HashFits(v.steps[k])'
      <4>1. k \in 1 .. Len(w.steps) /\ HashFits(w.steps[k])'
        BY <2>2, <3>1 DEF WorkSound, Touched
      <4>2. CASE k # index  BY <3>1, <4>1, <4>2 DEF Touched
      <4>3. CASE k = index
        <5>1. /\ v.steps[k].kind = w.steps[k].kind /\ v.steps[k].status = status
              /\ v.steps[k].hash = IF hash = None THEN w.steps[k].hash ELSE hash
          BY <3>1, <4>1, <4>3 DEF Touched
        <5>2. hash # None => hash \in Hashes' /\ txs'[hash].kind = w.steps[k].kind
          BY <2>4, <4>3, FitStays DEF Sound, TypesOK, MayBeWritten
        <5>. QED  BY <4>1, <5>1, <5>2 DEF HashFits
      <4>. QED  BY <4>2, <4>3
    <3>. QED  BY <3>3, <3>4, <3>5 DEF WorkSound
  <2>. QED  BY <2>3, <2>4
<1>. QED  BY <1>2, <1>3, <1>4

\* The run writes the step it is at.
LEMMA RunWrites ==
  ASSUME Sound, UNCHANGED chainVars, page.pc \in WithWork, NEW status \in {"broadcast", "confirmed"},
         NEW hash \in Hashes \cup {None}, Rewrite(page.work, page.index, status, hash),
         hash # None => txs[hash].kind = Step.kind
  PROVE  /\ TxsFollow
         /\ (store \in Seq(WorkRecs) /\ UniqueIds)' /\ \A v \in Works' : WorkSound(v)'
         /\ \A v \in Works' : \E w \in Works : AsWritten(w, v, page.work, page.index, status, hash)
         /\ \A w \in Works : \E v \in Works' : AsWritten(w, v, page.work, page.index, status, hash)
<1>1. TxsFollow  BY TxsStay DEF Sound, TypesOK
<1>2. page.index \in Nat  BY InRun
<1>3. ASSUME NEW w \in Works, w.id = page.work
      PROVE  /\ page.index \in 1 .. Len(w.steps) /\ ReachedStep(w.steps, page.index)
             /\ hash # None => txs[hash].kind = w.steps[page.index].kind
  <2>1. Owned(w) /\ Shaped(w.steps)  BY <1>3, InRun DEF Sound, StoreSound, WorkSound
  <2>2. page.index \in 1 .. Len(page.planned) /\ Shaped(page.planned)  BY InRun
  <2>3. w.steps[page.index].kind = page.planned[page.index].kind
    BY <2>1, <2>2 DEF Owned, Shaped
  <2>. QED  BY <2>1, <2>2, <2>3 DEF Owned, Step
<1>4. MayBeWritten(page.work, page.index, hash)  BY <1>3 DEF MayBeWritten
<1>. QED  BY <1>1, <1>2, <1>4, Written

LEMMA ConfirmingSound ==
  ASSUME Sound, page.pc \in {"wallet", "recover"}, NEW hash \in Hashes, txs[hash].kind = Step.kind,
         Confirming(hash), UNCHANGED <<chainVars, told>>,
         wallet' = None \/ (wallet' = wallet /\ page.pc = "recover")
  PROVE  Sound'
<1>1. page.pc \in WithWork /\ "confirm" \in WithWork  BY DEF WithWork
<1>2. hash \in Nat /\ hash # None  BY HashesAre, NoneIsNothing DEF Sound, TypesOK
<1>3. /\ TxsFollow /\ (store \in Seq(WorkRecs) /\ UniqueIds)' /\ \A v \in Works' : WorkSound(v)'
      /\ \A v \in Works' : \E w \in Works :
           AsWritten(w, v, page.work, page.index, "broadcast", hash)
  BY <1>1, RunWrites DEF Confirming, recordBroadcast
<1>4. page \in PageRecs /\ page' = [page EXCEPT !.pc = "confirm", !.hash = hash]
  BY <1>1, InRun DEF Confirming
<1>5. /\ page' \in PageRecs /\ page'.pc = "confirm" /\ page'.hash = hash
      /\ page'.amount = page.amount /\ page'.planned = page.planned /\ page'.index = page.index
      /\ page'.work = page.work
  BY <1>1, <1>2, <1>4 DEF PageRecs
<1>6. ASSUME NEW v \in Works', v.id = page.work  PROVE Owned(v)'
  <2>1. PICK w \in Works : Owned(w) /\ Touched(w, v, page.index, "broadcast", hash)
    BY <1>1, <1>3, <1>6, InRun DEF AsWritten
  <2>2. page.index \in 1 .. Len(w.steps)  BY <1>1, <2>1, InRun DEF Owned
  <2>. QED  BY <1>2, <1>5, <2>1, <2>2 DEF Owned, Touched, ReachedStep
<1>7. PageSound'
  <2>1. page'.pc \notin Preflight \cup Settling  BY <1>5 DEF Preflight, Settling
  <2>2. hash \in Hashes' /\ txs'[hash].kind = txs[hash].kind  BY <1>3, FitStays DEF Sound, TypesOK
  <2>3. Step' = Step  BY <1>5 DEF Step
  <2>. QED  BY <1>1, <1>5, <1>6, <2>1, <2>2, <2>3, InRun DEF PageSound
<1>8. WalletSound'  BY <1>5, WalletOpen DEF WalletSound
<1>. QED  BY <1>3, <1>5, <1>7, <1>8, Assembled DEF Sound, TypesOK

LEMMA UnknownSound ==
  ASSUME Sound, page.pc \in WithWork, OutcomeUnknown, UNCHANGED <<chainVars, told>>,
         wallet' \in WalletRecs \cup {None}, wallet' # None => wallet'.state = "open"
  PROVE  Sound'
<1>1. /\ TxsFollow /\ (store \in Seq(WorkRecs) /\ UniqueIds)' /\ \A v \in Works' : WorkSound(v)'
  BY RunWrites DEF OutcomeUnknown, recordUnknownBroadcast, recordStepStatus
<1>2. page' \in Screens  BY DEF OutcomeUnknown, Shown, Screens
<1>. QED  BY <1>1, <1>2, PageLeft, Assembled

LEMMA AnswersSound ==
  Sound /\ (WalletAnswers \/ WalletTimeout \/ RecoverBroadcast \/ RecoveryEnds) => Sound'
<1>. SUFFICES ASSUME Sound, WalletAnswers \/ WalletTimeout \/ RecoverBroadcast \/ RecoveryEnds
              PROVE  Sound'
  OBVIOUS
<1>1. UNCHANGED <<chainVars, told>>
  BY DEF WalletAnswers, WalletTimeout, RecoverBroadcast, RecoveryEnds, aside
<1>2. {"wallet", "recover"} \subseteq WithWork  BY DEF WithWork
<1>3. CASE WalletAnswers
  <2>1. page.pc = "wallet" /\ wallet # None /\ wallet' = None
    BY <1>3 DEF WalletAnswers, Sound, WalletSound
  <2>2. CASE wallet.state = "signed"
    <3>1. Confirming(wallet.hash)  BY <1>3, <2>2 DEF WalletAnswers
    <3>2. wallet.hash \in Hashes /\ txs[wallet.hash].kind = Step.kind
      BY <2>1, <2>2 DEF Sound, WalletSound
    <3>. QED  BY <1>1, <2>1, <3>1, <3>2, ConfirmingSound
  <2>3. CASE wallet.state # "signed"
    <3>1. closeWork(page.work) /\ page' = Idle  BY <1>3, <2>3 DEF WalletAnswers
    <3>2. page' \in Screens  BY <3>1 DEF Screens
    <3>. QED  BY <1>1, <2>1, <3>1, <3>2, LeavesSound
  <2>. QED  BY <2>2, <2>3
<1>4. CASE WalletTimeout
  <2>1. page.pc = "wallet" /\ OutcomeUnknown /\ wallet' = IF wallet.state = "open" THEN wallet ELSE None
    BY <1>4 DEF WalletTimeout
  <2>. QED  BY <1>1, <1>2, <2>1, UnknownSound DEF Sound, TypesOK
<1>5. CASE RecoverBroadcast
  <2>1. PICK hash \in StepEffect : page.pc = "recover" /\ Confirming(hash) /\ wallet' = wallet
    BY <1>5 DEF RecoverBroadcast
  <2>2. hash \in Hashes /\ txs[hash].kind = Step.kind
    <3>1. Step.kind \in Kinds  BY <1>2, <2>1, InRun, StepFields
    <3>. QED  BY <2>1, <3>1 DEF StepEffect, reconcileBroadcast, Effects, Kinds
  <2>. QED  BY <1>1, <2>1, <2>2, ConfirmingSound
<1>6. CASE RecoveryEnds
  <2>1. page.pc = "recover" /\ OutcomeUnknown /\ wallet' = wallet  BY <1>6 DEF RecoveryEnds
  <2>. QED  BY <1>1, <1>2, <2>1, WalletOpen, UnknownSound DEF Sound, TypesOK
<1>. QED  BY <1>3, <1>4, <1>5, <1>6

\* A transaction with a receipt that did not revert went through.
LEMMA Receipts ==
  ASSUME NEW h, Receipt(h)
  PROVE  /\ h \in Hashes /\ txs[h].state \in {"success", "reverted"}
         /\ txs[h].state = "success" /\ txs[h].kind = "call" => h \in Paid
BY DEF Receipt, Mined, Paid

LEMMA ConfirmSound == Sound /\ Confirm => Sound'
<1>. SUFFICES ASSUME Sound, Confirm  PROVE Sound'  OBVIOUS
<1>1. page.pc = "confirm" /\ Receipt(page.hash) /\ UNCHANGED <<chainVars, wallet>>  BY DEF Confirm
<1>2. page.pc \in WithWork /\ page.pc # "wallet"  BY <1>1 DEF WithWork
<1>3. CASE txs[page.hash].state = "reverted"
  <2>1. closeWork(page.work) /\ page' = Idle /\ told' = told  BY <1>3 DEF Confirm, aside
  <2>. QED  BY <1>1, <1>2, <2>1, RefusedSound
<1>4. CASE txs[page.hash].state # "reverted" /\ page.index = Len(page.planned)
  <2>1. Landed(page.work)  BY <1>4 DEF Confirm
  <2>2. txs[page.hash].kind = "call"
    BY <1>1, <1>2, <1>4, InRun DEF Sound, PageSound, Step, Shaped
  <2>3. Paid # {}  BY <1>1, <1>4, <2>2, Receipts
  <2>. QED  BY <1>1, <1>2, <2>1, <2>3, LandedSound
<1>5. CASE txs[page.hash].state # "reverted" /\ page.index # Len(page.planned)
  <2>1. /\ Rewrite(page.work, page.index, "confirmed", None) /\ told' = told
        /\ page' = [page EXCEPT !.pc = "prepare", !.index = @ + 1, !.hash = None]
    BY <1>5 DEF Confirm, recordStepStatus, aside
  <2>2. /\ TxsFollow /\ (store \in Seq(WorkRecs) /\ UniqueIds)' /\ \A v \in Works' : WorkSound(v)'
        /\ \A v \in Works' : \E w \in Works :
             AsWritten(w, v, page.work, page.index, "confirmed", None)
    BY <1>1, <1>2, <2>1, RunWrites
  <2>3. /\ page \in PageRecs /\ page.index \in 1 .. Len(page.planned) /\ Len(page.planned) \in Nat
    BY <1>2, InRun
  <2>4. /\ page' \in PageRecs /\ page'.pc = "prepare" /\ page'.amount = page.amount
        /\ page'.planned = page.planned /\ page'.index = page.index + 1 /\ page'.work = page.work
    <3>1. PICK n \in Nat : n = page.index + 1  BY <2>3
    <3>2. page' = [page EXCEPT !.pc = "prepare", !.index = n, !.hash = None]  BY <2>1, <3>1
    <3>. QED  BY <2>3, <3>1, <3>2 DEF PageRecs, WithWork
  <2>5. page'.index \in 1 .. Len(page'.planned)  BY <1>5, <2>3, <2>4
  <2>6. ASSUME NEW v \in Works', v.id = page.work  PROVE Owned(v)'
    <3>1. PICK w \in Works : Owned(w) /\ Touched(w, v, page.index, "confirmed", None)
      BY <1>2, <2>2, <2>6, InRun DEF AsWritten
    <3>2. Len(v.steps) = Len(page.planned) /\ v.operationKey = page.amount
          /\ Len(w.steps) = Len(page.planned)
      BY <3>1 DEF Owned, Touched
    <3>3. ASSUME NEW k \in 1 .. Len(v.steps)
          PROVE  /\ k < page.index + 1 => v.steps[k].status = "confirmed"
                 /\ k > page.index => v.steps[k].status = "waiting"
      <4>1. CASE k = page.index  BY <2>3, <3>1, <3>2, <4>1 DEF Touched
      <4>2. CASE k # page.index
        <5>1. v.steps[k] = w.steps[k]  BY <3>1, <3>2, <4>2 DEF Touched
        <5>2. /\ k < page.index => w.steps[k].status = "confirmed"
              /\ k > page.index => w.steps[k].status = "waiting"
          BY <3>1, <3>2 DEF Owned, ReachedStep
        <5>. QED  BY <2>3, <4>2, <5>1, <5>2
      <4>. QED  BY <4>1, <4>2
    <3>4. ReachedStep(v.steps, page.index + 1)  BY <2>3, <3>3 DEF ReachedStep
    <3>5. v.steps[page.index + 1].status = "waiting"  BY <2>3, <2>4, <2>5, <3>2, <3>3
    <3>. QED  BY <2>4, <3>2, <3>4, <3>5 DEF Owned
  <2>7. PageSound'
    <3>1. page'.pc \notin Preflight \cup Settling  BY <2>4 DEF Preflight, Settling
    <3>. QED  BY <1>2, <2>4, <2>5, <2>6, <3>1, InRun DEF PageSound
  <2>8. WalletSound'  BY <1>1, <2>4, WalletOpen DEF WalletSound
  <2>. QED  BY <1>1, <2>1, <2>2, <2>4, <2>7, <2>8, Assembled DEF Sound, TypesOK
<1>. QED  BY <1>3, <1>4, <1>5

-----------------------------------------------------------------------------
\* Steps of others: the page stays where it is.

LEMMA PageStays ==
  ASSUME Sound, TxsFollow, page' = page, page.pc \in WithWork => \A v \in Works' : v.id = page.work => Owned(v)
  PROVE  PageSound'
<1>1. page.pc \in Settling => page.unresolved \in WorkRecs /\ WorkSound(page.unresolved)'
  BY FoundStays
<1>2. page.pc = "confirm" => page.hash \in Hashes' /\ txs'[page.hash].kind = Step.kind
  BY FitStays DEF Sound, TypesOK, PageSound
<1>3. page.pc \in WithWork => \A v \in Works' : v.id = page.work => Owned(v)'
  BY DEF Owned
<1>. QED  BY <1>1, <1>2, <1>3 DEF Sound, PageSound, Step

LEMMA WalletStays ==
  ASSUME Sound, TxsFollow, UNCHANGED <<page, wallet>>
  PROVE  WalletSound'
<1>1. wallet # None /\ wallet.state = "signed" =>
        /\ wallet.hash \in Hashes'
        /\ txs'[wallet.hash].kind = wallet.kind /\ txs'[wallet.hash].amount = wallet.amount
  BY FitStays DEF Sound, TypesOK, WalletSound
<1>. QED  BY <1>1 DEF Sound, WalletSound, Step

LEMMA ChainSound == Sound /\ Chain => Sound'
<1>. SUFFICES ASSUME Sound, Chain  PROVE Sound'  OBVIOUS
<1>1. UNCHANGED <<store, page, wallet, told>>  BY DEF Chain, aside
<1>2. TxsFollow  BY MineFollows, EvictionFollows DEF Chain, Sound, TypesOK
<1>3. Works' = Works  BY <1>1 DEF Works
<1>4. PageSound' /\ WalletSound'
  BY <1>1, <1>2, <1>3, PageStays, WalletStays DEF Sound, PageSound
<1>. QED  BY <1>1, <1>2, <1>4, RecordsStay, Assembled DEF Sound, TypesOK

LEMMA WalletAppSound == Sound /\ Wallet => Sound'
<1>. SUFFICES ASSUME Sound, Wallet  PROVE Sound'  OBVIOUS
<1>1. UNCHANGED <<store, page, told>> /\ wallet # None /\ wallet.state = "open"
  BY DEF Wallet, Sign, Reject, aside
<1>2. wallet \in WalletRecs  BY <1>1 DEF Sound, TypesOK
<1>3. Works' = Works  BY <1>1 DEF Works
<1>4. CASE Sign
  <2>1. TxsFollow /\ Len(txs') = Len(txs) + 1 /\ txs'[Len(txs) + 1].kind = wallet.kind
        /\ txs'[Len(txs) + 1].amount = wallet.amount
    BY <1>2, <1>4, WalletFields, BroadcastFollows DEF Sign, Sound, TypesOK
  <2>2. Len(txs) + 1 \in Hashes' /\ Len(txs) + 1 \in Nat
    BY <2>1 DEF Hashes, Sound, TypesOK, TxsFollow
  <2>3. PICK answer : answer = [wallet EXCEPT !.state = "signed", !.hash = Len(txs) + 1]  OBVIOUS
  <2>4. /\ answer \in WalletRecs /\ answer.kind = wallet.kind /\ answer.amount = wallet.amount
        /\ answer.state = "signed" /\ answer.hash = Len(txs) + 1
    BY <1>2, <2>2, <2>3 DEF WalletRecs
  <2>5. wallet' = IF page.pc = "wallet" THEN answer ELSE None  BY <1>4, <2>3 DEF Sign, Answered
  <2>6. answer # None  BY <2>4, NoneIsNoRequest DEF WalletRecs, Kinds, Quantities
  <2>7. WalletSound'
    BY <1>1, <2>1, <2>2, <2>4, <2>5, <2>6 DEF Sound, WalletSound, Step
  <2>8. PageSound'  BY <1>1, <1>3, <2>1, PageStays DEF Sound, PageSound
  <2>. QED  BY <1>1, <2>1, <2>4, <2>5, <2>7, <2>8, RecordsStay, Assembled DEF Sound, TypesOK
<1>5. CASE Reject
  <2>1. TxsFollow  BY <1>5, TxsStay DEF Reject, Sound, TypesOK
  <2>2. PICK answer : answer = [wallet EXCEPT !.state = "rejected"]  OBVIOUS
  <2>3. /\ answer \in WalletRecs /\ answer.kind = wallet.kind /\ answer.amount = wallet.amount
        /\ answer.state = "rejected"
    BY <1>2, <2>2 DEF WalletRecs
  <2>4. wallet' = IF page.pc = "wallet" THEN answer ELSE None  BY <1>5, <2>2 DEF Reject, Answered
  <2>5. answer # None  BY <2>3, NoneIsNoRequest DEF WalletRecs, Kinds, Quantities
  <2>6. WalletSound'  BY <1>1, <2>3, <2>4, <2>5 DEF Sound, WalletSound, Step
  <2>7. PageSound'  BY <1>1, <1>3, <2>1, PageStays DEF Sound, PageSound
  <2>. QED  BY <1>1, <2>1, <2>3, <2>4, <2>6, <2>7, RecordsStay, Assembled DEF Sound, TypesOK
<1>. QED  BY <1>4, <1>5 DEF Wallet

LEMMA TimeSound == Sound /\ TimePasses => Sound'
<1>. SUFFICES ASSUME Sound, TimePasses  PROVE Sound'  OBVIOUS
<1>1. UNCHANGED <<chainVars, page, wallet, told>>  BY DEF TimePasses, aside
<1>2. TxsFollow  BY <1>1, TxsStay DEF Sound, TypesOK
<1>3. /\ (store \in Seq(WorkRecs) /\ UniqueIds)' /\ \A v \in Works' : \E w \in Works : Older(w, v)
  BY Ageing DEF TimePasses, Sound, TypesOK
<1>4. ASSUME NEW v \in Works'  PROVE WorkSound(v)'
  <2>1. PICK w \in Works : Older(w, v)  BY <1>3
  <2>2. WorkSound(w)'  BY <1>2, WorkStays, WorksAre DEF Sound, TypesOK, StoreSound
  <2>. QED  BY <2>1, <2>2 DEF WorkSound, Older
<1>5. ASSUME NEW v \in Works', v.id = page.work, page.pc \in WithWork  PROVE Owned(v)
  <2>1. PICK w \in Works : Older(w, v)  BY <1>3
  <2>2. Owned(w)  BY <1>5, <2>1, InRun DEF Older
  <2>. QED  BY <2>1, <2>2 DEF Owned, Older
<1>. QED  BY <1>1, <1>2, <1>3, <1>4, <1>5, PageStays, WalletStays, Assembled DEF Sound, TypesOK

\* A step that broadcast a transaction is the one its record had reached.
LEMMA Reached ==
  ASSUME NEW w \in WorkRecs, WorkSound(w), NEW j \in 1 .. Len(w.steps),
         w.steps[j].status = "broadcast"
  PROVE  /\ ReachedStep(w.steps, j)
         /\ \A k \in 1 .. Len(w.steps) : w.steps[k].status = "broadcast" => k = j
         /\ j # Len(w.steps) => w.steps[Len(w.steps)].status = "waiting"
<1>1. PICK n \in 1 .. Len(w.steps) : ReachedStep(w.steps, n)  BY DEF WorkSound
<1>2. \A k \in 1 .. Len(w.steps) : w.steps[k].status = "broadcast" => k = n
  BY <1>1 DEF ReachedStep
<1>3. Len(w.steps) \in Nat  BY WorkFields
<1>. QED  BY <1>1, <1>2, <1>3 DEF ReachedStep

LEMMA ReconcileSound == Sound /\ ReconcileWork => Sound'
<1>. SUFFICES ASSUME Sound, ReconcileWork  PROVE Sound'  OBVIOUS
<1>0. PICK w \in Works : \E j \in DOMAIN w.steps, last \in BOOLEAN :
        /\ last = \A k \in DOMAIN w.steps \ {j} : w.steps[k].status # "waiting"
        /\ w.steps[j].status = "broadcast" /\ w.steps[j].hash # None /\ Receipt(w.steps[j].hash)
        /\ IF txs[w.steps[j].hash].state = "reverted" \/ last
           THEN closeWork(w.id) ELSE recordStepStatus(w.id, j, "confirmed")
        /\ told' = (told \/ (txs[w.steps[j].hash].state = "success" /\ last))
        /\ UNCHANGED <<chainVars, page, wallet, reconciles>>
  BY DEF ReconcileWork, listPendingWork, Works
<1>1. PICK j \in DOMAIN w.steps, last \in BOOLEAN :
        /\ last = \A k \in DOMAIN w.steps \ {j} : w.steps[k].status # "waiting"
        /\ w.steps[j].status = "broadcast" /\ w.steps[j].hash # None /\ Receipt(w.steps[j].hash)
        /\ IF txs[w.steps[j].hash].state = "reverted" \/ last
           THEN closeWork(w.id) ELSE recordStepStatus(w.id, j, "confirmed")
        /\ told' = (told \/ (txs[w.steps[j].hash].state = "success" /\ last))
        /\ UNCHANGED <<chainVars, page, wallet, reconciles>>
  BY <1>0
<1>2. TxsFollow  BY <1>1, TxsStay DEF Sound, TypesOK
<1>3. w \in WorkRecs /\ WorkSound(w)  BY WorksAre DEF Sound, TypesOK, StoreSound
<1>4. w.steps \in Seq(StepRecs) /\ DOMAIN w.steps = 1 .. Len(w.steps) /\ Len(w.steps) \in Nat
  BY <1>3, WorkFields
<1>5. ReachedStep(w.steps, j) /\ (j # Len(w.steps) => w.steps[Len(w.steps)].status = "waiting")
  BY <1>1, <1>3, <1>4, Reached
<1>6. last => j = Len(w.steps)
  <2>1. SUFFICES ASSUME last, j # Len(w.steps)  PROVE FALSE  OBVIOUS
  <2>2. Len(w.steps) \in DOMAIN w.steps \ {j}  BY <1>4, <2>1
  <2>3. w.steps[Len(w.steps)].status # "waiting"  BY <1>1, <2>1, <2>2
  <2>. QED  BY <1>5, <2>1, <2>3
<1>7. told' => told \/ Paid # {}
  <2>1. SUFFICES ASSUME txs[w.steps[j].hash].state = "success", last  PROVE Paid # {}
    BY <1>1
  <2>2. txs[w.steps[j].hash].kind = "call"
    BY <1>1, <1>3, <1>4, <1>6, <2>1 DEF WorkSound, HashFits, Shaped
  <2>. QED  BY <1>1, <2>1, <2>2, Receipts
<1>8. Paid' = Paid  BY <1>1 DEF Paid, Hashes, chainVars
<1>9. CASE closeWork(w.id)
  <2>1. /\ (store \in Seq(WorkRecs) /\ UniqueIds)' /\ Works' \subseteq Works
        /\ \A v \in Works' : WorkSound(v)'
    BY <1>2, <1>9, RecordCloses
  <2>2. PageSound' /\ WalletSound'
    BY <1>1, <1>2, <2>1, PageStays, WalletStays, InRun
  <2>. QED  BY <1>1, <1>2, <1>7, <1>8, <2>1, <2>2, Assembled DEF Sound, TypesOK
<1>10. CASE Rewrite(w.id, j, "confirmed", None)
  <2>1. \A v \in Works : v.id = w.id => v = w  BY OneWork DEF Sound, TypesOK
  <2>2. /\ (store \in Seq(WorkRecs) /\ UniqueIds)' /\ \A v \in Works' : WorkSound(v)'
        /\ \A v \in Works' : \E u \in Works : AsWritten(u, v, w.id, j, "confirmed", None)
    <3>1. j \in Nat  BY <1>4
    <3>2. MayBeWritten(w.id, j, None)  BY <1>4, <1>5, <2>1 DEF MayBeWritten
    <3>. QED  BY <1>2, <1>10, <3>1, <3>2, Written
  <2>3. ASSUME NEW v \in Works', v.id = page.work, page.pc \in WithWork  PROVE Owned(v)
    <3>1. PICK u \in Works : /\ v.id = u.id /\ (u.id # w.id => v = u)
                             /\ u.id = w.id => Touched(u, v, j, "confirmed", None)
      BY <2>2 DEF AsWritten
    <3>2. Owned(u)  BY <2>3, <3>1, InRun
    <3>3. CASE u.id # w.id  BY <3>1, <3>2, <3>3
    <3>4. CASE u.id = w.id
      <4>1. u = w /\ Touched(w, v, j, "confirmed", None)  BY <2>1, <3>1, <3>4
      <4>2. page.index \in 1 .. Len(w.steps)  BY <2>3, <3>2, <4>1, InRun DEF Owned
      <4>3. j = page.index /\ page.pc = "confirm"
        BY <1>1, <1>4, <3>2, <4>1, <4>2 DEF Owned, ReachedStep
      <4>. QED  BY <1>4, <3>2, <4>1, <4>2, <4>3 DEF Owned, Touched, ReachedStep
    <3>. QED  BY <3>3, <3>4
  <2>4. PageSound' /\ WalletSound'
    BY <1>1, <1>2, <2>3, PageStays, WalletStays
  <2>. QED  BY <1>1, <1>2, <1>7, <1>8, <2>2, <2>4, Assembled DEF Sound, TypesOK
<1>. QED  BY <1>1, <1>9, <1>10 DEF recordStepStatus

LEMMA InitSound == Init => Sound
<1>. SUFFICES ASSUME Init  PROVE Sound  OBVIOUS
<1>1. store = <<>> /\ txs = <<>> /\ height = 0 /\ page = Idle /\ wallet = None /\ ~told
  BY DEF Init, ChainInit
<1>2. Works = {}  BY <1>1 DEF Works
<1>3. TypesOK  BY <1>1 DEF TypesOK, UniqueIds, Screens
<1>4. PageSound /\ WalletSound
  BY <1>1 DEF PageSound, WalletSound, Idle, Preflight, WithWork, Settling
<1>. QED  BY <1>1, <1>2, <1>3, <1>4 DEF Sound, StoreSound, ToldSound

LEMMA StutterSound == Sound /\ UNCHANGED browserVars => Sound'
<1>. SUFFICES ASSUME Sound, UNCHANGED browserVars  PROVE Sound'  OBVIOUS
<1>1. UNCHANGED <<store, chainVars, page, wallet, told>>  BY DEF browserVars
<1>2. TxsFollow  BY <1>1, TxsStay DEF Sound, TypesOK
<1>3. Works' = Works  BY <1>1 DEF Works
<1>4. PageSound' /\ WalletSound'
  BY <1>1, <1>2, <1>3, PageStays, WalletStays DEF Sound, PageSound
<1>. QED  BY <1>1, <1>2, <1>4, RecordsStay, Assembled DEF Sound, TypesOK

LEMMA SoundStays == Sound /\ [Next]_browserVars => Sound'
BY PressSound, ReloadSound, SettleSound, PlanSound, LookSound, OpenSound, StepsSound, AnswersSound,
   ConfirmSound, WalletAppSound, ReconcileSound, TimeSound, ChainSound, StutterSound
   DEF Next, RunStep

\* The page says the payment is made only if it is, whatever the person, the
\* phone and the clocks do (settleStaleWork, reconcilePendingWork, runStep).
THEOREM ToldIsPaidAlways == Spec => []ToldIsPaid
<1>1. Sound => ToldIsPaid  BY DEF Sound, ToldSound, ToldIsPaid
<1>. QED  BY InitSound, SoundStays, <1>1, PTL DEF Spec

-----------------------------------------------------------------------------
\* Guarded: the calls that pay, or still may.

Calls == {h \in Hashes : txs[h].kind = "call" /\ txs[h].state \in {"pending", "success"}}
LastOf(steps) == steps[Len(steps)]
CallSent(w) == LastOf(w.steps).status = "broadcast"
Fits(w, h) ==
  w.operationKey = txs[h].amount /\ (txs[h].state = "success" => w.fromBlock <= txs[h].block)
StandsFor(w, h) == CallSent(w) /\ LastOf(w.steps).hash \in {h, None} /\ Fits(w, h)
AtWallet == {"wallet", "recover"}

\* There is one at most, and none before the last step's request is answered.
OneCall == \A g, h \in Calls : g = h
NoCallYet ==
  \/ page.pc \in {"open", "prepare", "gesture"}
  \/ wallet # None /\ wallet.state # "signed"
  \/ page.pc \in WithWork /\ page.index # Len(page.planned)
  => Calls = {}
CallIsOwn ==
  /\ page.pc = "wallet" /\ wallet.state = "signed" => Calls \subseteq {wallet.hash}
  /\ page.pc = "confirm" => Calls \subseteq {page.hash}

\* The page or a record stands for it until the person is told.
CallIsHeld ==
  \A h \in Calls :
    /\ page.pc \in AtWallet => \E w \in Works : w.id = page.work /\ Fits(w, h)
    /\ page.pc \notin AtWallet /\ ~told => \E w \in Works : Listed(w) /\ StandsFor(w, h)
RecordIsKept ==
  \/ page.pc \in WithWork \ {"confirm"}
  \/ page.pc = "confirm" /\ page.index # Len(page.planned) /\ txs[page.hash].state # "reverted"
  => \E w \in Works : w.id = page.work /\ w.age # "old"

\* One record locks, and whoever settles it looks at the call it stands for.
LockIsFound ==
  /\ \A v, w \in Works : Blocking(v) /\ Blocking(w) => v.id = w.id
  /\ page.pc = "open" \/ page.pc \in WithWork =>
       \A w \in Works : Blocking(w) => page.pc = "confirm" /\ w.id = page.work
  /\ page.pc \in Settling => \A w \in Works : Blocking(w) => w.id = page.unresolved.id
SettlesCall ==
  /\ page.pc \in {"checking", "look"} => ~told
  /\ page.pc \in Settling => \A h \in Calls :
       /\ StandsFor(page.unresolved, h)
       /\ page.pc = "effect" => LastOf(page.unresolved.steps).hash = None
       /\ page.pc = "nonces" => txs[h].state = "pending"

\* A request that the wallet still shows is the run's, or is on record.
RequestIsKnown ==
  /\ page.pc \in Preflight => wallet = None
  /\ wallet # None /\ wallet.kind = "call" /\ page.pc \notin AtWallet =>
       /\ page.pc \notin WithWork
       /\ \E w \in Works :
            CallSent(w) /\ LastOf(w.steps).hash = None /\ w.operationKey = wallet.amount

Guarded ==
  /\ OneCall /\ NoCallYet /\ CallIsOwn /\ CallIsHeld /\ RecordIsKept /\ LockIsFound
  /\ SettlesCall /\ RequestIsKnown

\* What settles keeps its amount, and what executes does so after its record.
LEMMA CallsAre ==
  ASSUME txs \in Seq(TxRecs)
  PROVE  /\ \A h \in Calls : h \in Hashes /\ h \in Nat /\ h # None /\ txs[h].kind = "call"
                             /\ txs[h].state \in {"pending", "success"}
         /\ Paid \subseteq Calls
         /\ \A h \in Calls : txs[h].state = "success" <=> h \in Paid
BY HashesAre, NoneIsNothing DEF Calls, Paid

LEMMA CallsStay ==
  ASSUME UNCHANGED chainVars
  PROVE  /\ Calls' = Calls /\ Paid' = Paid /\ txs' = txs
         /\ \A w, h : Fits(w, h)' <=> Fits(w, h)
         /\ \A w, h : StandsFor(w, h)' <=> StandsFor(w, h)
BY DEF Calls, Paid, Hashes, Fits, StandsFor, chainVars

LEMMA FitsStays ==
  ASSUME txs \in Seq(TxRecs), height \in Nat, TxsFollow, NEW h \in Hashes, NEW w, w.fromBlock \in Nat,
         w.fromBlock <= height, Fits(w, h)
  PROVE  Fits(w, h)'
<1>1. h \in 1 .. Len(txs)  BY HashesAre
<1>2. Settles(txs[h], txs'[h])  BY <1>1 DEF TxsFollow
<1>3. txs'[h].amount = txs[h].amount  BY <1>2 DEF Settles
<1>4. ASSUME txs'[h].state = "success"  PROVE w.fromBlock <= txs'[h].block
  <2>1. CASE txs[h].state = "success"  BY <1>2, <2>1 DEF Settles, Fits
  <2>2. CASE txs'[h].block = height + 1  BY <2>2
  <2>. QED  BY <1>2, <1>4, <2>1, <2>2 DEF Settles
<1>. QED  BY <1>3, <1>4 DEF Fits

LEMMA SentBlocks ==
  ASSUME NEW w \in WorkRecs, WorkSound(w), CallSent(w)
  PROVE  /\ hasBroadcastStep(w) /\ (Listed(w) => Blocking(w))
         /\ LastOf(w.steps).hash = None => Listed(w)
<1>1. w.steps \in Seq(StepRecs) /\ Len(w.steps) > 0  BY WorkFields DEF WorkSound, Shaped
<1>2. Len(w.steps) \in DOMAIN w.steps  BY <1>1
<1>. QED  BY <1>2 DEF CallSent, LastOf, hasBroadcastStep, Blocking, Listed, Hashless

\* Before its request is answered, the run's own record is no lock.
LEMMA OwnWaits ==
  ASSUME Sound, page.pc \in WithWork \ {"confirm"}, NEW w \in Works, w.id = page.work
  PROVE  ~hasBroadcastStep(w)
<1>1. Owned(w) /\ page.index \in 1 .. Len(page.planned)  BY InRun
<1>2. w.steps \in Seq(StepRecs)  BY WorksAre, WorkFields DEF Sound, TypesOK
<1>3. Len(w.steps) = Len(page.planned) /\ DOMAIN w.steps = 1 .. Len(w.steps)  BY <1>1, <1>2 DEF Owned
<1>4. page.index \in Nat /\ \A k \in 1 .. Len(w.steps) : k \in Nat  BY <1>1
<1>5. \A k \in 1 .. Len(w.steps) : k < page.index \/ k = page.index \/ k > page.index  BY <1>4
<1>. QED  BY <1>1, <1>3, <1>5 DEF Owned, ReachedStep, hasBroadcastStep

LEMMA OwnWaitsNext ==
  ASSUME Sound', (page.pc \in WithWork \ {"confirm"})', NEW w \in Works', w.id = page'.work
  PROVE  ~hasBroadcastStep(w)
<1>1. Owned(w)' /\ page'.index \in 1 .. Len(page'.planned)  BY DEF Sound, PageSound
<1>2. w.steps \in Seq(StepRecs)  BY WorkFields DEF Sound, TypesOK, Works
<1>3. Len(w.steps) = Len(page'.planned) /\ DOMAIN w.steps = 1 .. Len(w.steps)  BY <1>1, <1>2 DEF Owned
<1>4. page'.index \in Nat /\ \A k \in 1 .. Len(w.steps) : k \in Nat  BY <1>1
<1>5. \A k \in 1 .. Len(w.steps) : k < page'.index \/ k = page'.index \/ k > page'.index  BY <1>4
<1>. QED  BY <1>1, <1>3, <1>5 DEF Owned, ReachedStep, hasBroadcastStep

-----------------------------------------------------------------------------
\* The page is left: nobody asks any more, and what may execute is on record.

LEMMA LeavesGuarded ==
  ASSUME Sound, Guarded, UNCHANGED chainVars, page' \in Screens, Works' \subseteq Works,
         told' \/ \A h \in Calls : \E w \in Works' : Listed(w) /\ StandsFor(w, h),
         wallet' # None => /\ wallet' = wallet
                           /\ wallet.kind = "call" =>
                                \E w \in Works' : CallSent(w) /\ LastOf(w.steps).hash = None
                                                  /\ w.operationKey = wallet.amount,
         wallet' # None => wallet'.state = "open"
  PROVE  Guarded'
<1>1. page'.pc \in {"ready", "broadcast", "unknown"}  BY DEF Screens, Idle
<1>2. page'.pc \notin Preflight \cup Settling \cup WithWork \cup AtWallet
      /\ page'.pc \notin {"wallet", "confirm", "open", "checking", "look", "prepare", "gesture"}
  BY <1>1 DEF Preflight, Settling, WithWork, AtWallet
<1>3. OneCall' /\ CallIsOwn' /\ RecordIsKept' /\ SettlesCall'
  BY <1>2, CallsStay DEF Guarded, OneCall, CallIsOwn, RecordIsKept, SettlesCall
<1>4. NoCallYet'  BY <1>2, CallsStay DEF Guarded, NoCallYet
<1>5. CallIsHeld'  BY <1>2, CallsStay DEF CallIsHeld
<1>6. LockIsFound'  BY <1>2 DEF Guarded, LockIsFound
<1>7. RequestIsKnown'  BY <1>2 DEF RequestIsKnown
<1>. QED  BY <1>3, <1>4, <1>5, <1>6, <1>7 DEF Guarded

\* Nothing else changes, and the page awaited no answer.
LEMMA ScreenGuarded ==
  ASSUME Sound, Guarded, UNCHANGED <<chainVars, store, told>>, page' \in Screens,
         page.pc \notin AtWallet, wallet' = wallet
  PROVE  Guarded'
<1>1. Works' = Works  BY DEF Works
<1>2. wallet # None => wallet.state = "open"  BY WalletOpen DEF AtWallet
<1>3. told' \/ \A h \in Calls : \E w \in Works' : Listed(w) /\ StandsFor(w, h)
  BY <1>1 DEF Guarded, CallIsHeld
<1>4. wallet # None /\ wallet.kind = "call" =>
        \E w \in Works' : CallSent(w) /\ LastOf(w.steps).hash = None /\ w.operationKey = wallet.amount
  BY <1>1 DEF Guarded, RequestIsKnown
<1>. QED  BY <1>1, <1>2, <1>3, <1>4, LeavesGuarded

\* A record goes when its payment is told, or when nothing may execute.
LEMMA ClosesGuarded ==
  ASSUME Sound, Guarded, UNCHANGED chainVars, page.pc \in Preflight \cup WithWork, NEW id, closeWork(id),
         page' = Idle, told' \/ Calls = {}, wallet' = None \/ (wallet' = wallet /\ page.pc \notin AtWallet)
  PROVE  Guarded'
<1>1. page' \in Screens  BY DEF Screens
<1>2. Works' \subseteq Works  BY Closing DEF Sound, TypesOK
<1>3. CASE wallet' = None  BY <1>1, <1>2, <1>3, LeavesGuarded
<1>4. CASE wallet' = wallet /\ page.pc \notin AtWallet
  <2>1. wallet # None => wallet.state = "open"  BY <1>4, WalletOpen DEF AtWallet
  <2>2. wallet # None => wallet.kind # "call"
    BY <1>4 DEF Guarded, RequestIsKnown
  <2>. QED  BY <1>1, <1>2, <1>4, <2>1, <2>2, LeavesGuarded
<1>. QED  BY <1>3, <1>4

LEMMA ReloadGuarded ==
  Sound /\ Guarded /\ (Reload \/ ReceiptWaitFails \/ (PageEvicted /\ KeptWhileAway)) => Guarded'
<1>. SUFFICES ASSUME Sound, Guarded, Reload \/ ReceiptWaitFails \/ (PageEvicted /\ KeptWhileAway)
              PROVE  Guarded'
  OBVIOUS
<1>1. page' \in Screens /\ UNCHANGED <<store, chainVars, told>> /\ page.pc \notin AtWallet
  BY DEF Reload, PageEvicted, ReceiptWaitFails, KeptWhileAway, aside, Screens, Shown, AtWallet
<1>2. wallet # None => wallet.state = "open"  BY <1>1, WalletOpen DEF AtWallet
<1>3. wallet' = wallet  BY <1>2 DEF Reload, PageEvicted, ReceiptWaitFails
<1>. QED  BY <1>1, <1>3, ScreenGuarded

LEMMA RefusedGuarded == Sound /\ Guarded /\ Refused => Guarded'
<1>. SUFFICES ASSUME Sound, Guarded, Refused  PROVE Guarded'  OBVIOUS
<1>1. /\ page.pc \in {"checking", "open", "prepare", "gesture"} /\ page' = Idle
      /\ closeWork(page.work) /\ UNCHANGED <<chainVars, wallet, told>>
  BY DEF Refused, aside
<1>2. page.pc \in Preflight \cup WithWork /\ page.pc \notin AtWallet
  BY <1>1 DEF Preflight, WithWork, AtWallet
<1>3. CASE page.pc = "checking"
  <2>1. page.work = None  BY <1>3 DEF Sound, PageSound, Preflight
  <2>2. None \notin Ids  BY WorksAre, WorkFields DEF Sound, TypesOK
  <2>3. store' = store  BY <1>1, <2>1, <2>2 DEF closeWork
  <2>4. page' \in Screens  BY <1>1 DEF Screens
  <2>. QED  BY <1>1, <1>2, <2>3, <2>4, ScreenGuarded
<1>4. CASE page.pc # "checking"
  <2>1. Calls = {}  BY <1>1, <1>4 DEF Guarded, NoCallYet
  <2>. QED  BY <1>1, <1>2, <2>1, ClosesGuarded
<1>. QED  BY <1>3, <1>4

-----------------------------------------------------------------------------
\* Before the wallet is asked: the lock of an earlier attempt is found and settled.

LEMMA PreflightGuarded ==
  ASSUME Sound, Guarded, UNCHANGED chainVars, page'.pc \in Preflight, wallet' = None,
         page.pc \notin AtWallet, told' = told, Works' \subseteq Works,
         Works' = Works \/ Calls = {},
         page'.pc = "open" => Calls = {} /\ \A w \in Works' : ~Blocking(w),
         page'.pc \in Settling => \A w \in Works' : Blocking(w) => w.id = page'.unresolved.id,
         SettlesCall'
  PROVE  Guarded'
<1>1. page'.pc \notin WithWork \cup AtWallet
      /\ page'.pc \notin {"wallet", "confirm", "prepare", "gesture"}
  BY DEF Preflight, WithWork, AtWallet
<1>2. OneCall' /\ CallIsOwn' /\ RecordIsKept'
  BY <1>1, CallsStay DEF Guarded, OneCall, CallIsOwn, RecordIsKept
<1>3. NoCallYet'  BY <1>1, CallsStay DEF NoCallYet
<1>4. CallIsHeld'  BY <1>1, CallsStay DEF Guarded, CallIsHeld
<1>5. LockIsFound'  BY <1>1 DEF Guarded, LockIsFound
<1>6. RequestIsKnown'  BY <1>1 DEF RequestIsKnown
<1>. QED  BY <1>2, <1>3, <1>4, <1>5, <1>6 DEF Guarded

LEMMA PressGuarded == Sound /\ Guarded /\ Press /\ Attentive => Guarded'
<1>. SUFFICES ASSUME Sound, Guarded, Press, Attentive  PROVE Guarded'  OBVIOUS
<1>1. page = Idle /\ ~told /\ UNCHANGED <<store, chainVars, wallet, told>>  BY DEF Press, aside
<1>2. page'.pc = "checking"  BY DEF Press, Running
<1>3. wallet = None  BY <1>1, <1>2 DEF Attentive, Idle
<1>4. page.pc \notin AtWallet  BY <1>1 DEF Idle, AtWallet
<1>5. page'.pc \in Preflight /\ page'.pc \notin Settling  BY <1>2 DEF Preflight, Settling
<1>6. SettlesCall'  BY <1>1, <1>2, <1>5 DEF SettlesCall
<1>7. Works' = Works  BY <1>1 DEF Works
<1>. QED  BY <1>1, <1>2, <1>3, <1>4, <1>5, <1>6, <1>7, PreflightGuarded

LEMMA PlanGuarded == Sound /\ Guarded /\ planApproval => Guarded'
<1>. SUFFICES ASSUME Sound, Guarded, planApproval  PROVE Guarded'  OBVIOUS
<1>1. page.pc = "checking" /\ UNCHANGED <<store, chainVars, wallet, told>>  BY DEF planApproval, aside
<1>2. page \in PageRecs  BY <1>1, PageRuns DEF Preflight, Sound, TypesOK
<1>3. page'.pc = "look"  BY <1>2 DEF planApproval, PageRecs
<1>4. wallet = None /\ ~told  BY <1>1 DEF Guarded, RequestIsKnown, SettlesCall, Preflight
<1>5. page'.pc \in Preflight /\ page'.pc \notin Settling /\ page.pc \notin AtWallet
  BY <1>1, <1>3 DEF Preflight, Settling, AtWallet
<1>6. SettlesCall'  BY <1>1, <1>3, <1>4, <1>5 DEF SettlesCall
<1>7. Works' = Works  BY <1>1 DEF Works
<1>. QED  BY <1>1, <1>3, <1>4, <1>5, <1>6, <1>7, PreflightGuarded

LEMMA LookGuarded == Sound /\ Guarded /\ LookForUnresolved => Guarded'
<1>. SUFFICES ASSUME Sound, Guarded, LookForUnresolved  PROVE Guarded'  OBVIOUS
<1>1. page.pc = "look" /\ UNCHANGED <<store, chainVars, wallet, told>>
  BY DEF LookForUnresolved, aside
<1>2. page.pc \in Preflight /\ page.pc \notin AtWallet  BY <1>1 DEF Preflight, AtWallet
<1>3. page \in PageRecs  BY <1>2, PageRuns DEF Sound, TypesOK
<1>4. wallet = None /\ ~told  BY <1>1, <1>2 DEF Guarded, RequestIsKnown, SettlesCall
<1>5. Works' = Works  BY <1>1 DEF Works
<1>6. ASSUME NEW h \in Calls  PROVE \E w \in Works : Blocking(w) /\ StandsFor(w, h)
  <2>1. PICK w \in Works : Listed(w) /\ StandsFor(w, h)
    BY <1>2, <1>4 DEF Guarded, CallIsHeld
  <2>2. w \in WorkRecs /\ WorkSound(w)  BY WorksAre DEF Sound, TypesOK, StoreSound
  <2>. QED  BY <2>1, <2>2, SentBlocks DEF StandsFor
<1>7. CASE findPendingBroadcast = None
  <2>1. page'.pc = "open"  BY <1>3, <1>7 DEF LookForUnresolved, PageRecs
  <2>2. \A w \in Works : ~Blocking(w)  BY <1>7, Found DEF Sound, TypesOK
  <2>3. Calls = {}  BY <1>6, <2>2
  <2>4. page'.pc \in Preflight /\ page'.pc \notin Settling  BY <2>1 DEF Preflight, Settling
  <2>5. SettlesCall'  BY <2>1, <2>4 DEF SettlesCall
  <2>. QED  BY <1>1, <1>2, <1>4, <1>5, <2>1, <2>2, <2>3, <2>4, <2>5, PreflightGuarded
<1>8. CASE findPendingBroadcast # None
  <2>1. PICK u \in Works :
          Blocking(u) /\ page' = [page EXCEPT !.pc = "settle", !.unresolved = u]
    BY <1>8, Found DEF Sound, TypesOK, LookForUnresolved
  <2>2. page'.pc = "settle" /\ page'.unresolved = u  BY <1>3, <2>1 DEF PageRecs
  <2>3. \A w \in Works : Blocking(w) => w.id = u.id  BY <2>1 DEF Guarded, LockIsFound
  <2>4. \A h \in Calls : StandsFor(u, h)
    BY <1>6, <2>3, OneWork DEF Sound, TypesOK
  <2>5. page'.pc \in Preflight /\ page'.pc \in Settling /\ page'.pc # "open"
    BY <2>2 DEF Preflight, Settling
  <2>6. SettlesCall'
    <3>1. Calls' = Calls  BY <1>1, CallsStay
    <3>2. \A h \in Calls : StandsFor(u, h)'  BY <1>1, <2>4, CallsStay
    <3>3. \A h \in Calls' : StandsFor(page.unresolved, h)'
      BY <2>2, <3>1, <3>2 DEF StandsFor, CallSent, Fits, LastOf
    <3>. QED  BY <2>2, <3>3 DEF SettlesCall
  <2>. QED  BY <1>1, <1>2, <1>4, <1>5, <2>2, <2>3, <2>5, <2>6, PreflightGuarded
<1>. QED  BY <1>7, <1>8

\* What the settlement sees of the record that it looks at.
LEMMA SentLast ==
  ASSUME Sound, page.pc \in Settling
  PROVE  /\ CallSent(page.unresolved) => ~UnknownSend("approval")
         /\ CallSent(page.unresolved) /\ LastOf(page.unresolved.steps).hash = None => UnknownSend("call")
         /\ CallSent(page.unresolved) /\ LastOf(page.unresolved.steps).hash # None =>
              LastOf(page.unresolved.steps).hash \in HashesOf(SentAs("call"))
         /\ UnknownSend("call") => LastOf(page.unresolved.steps).hash = None
<1>1. PICK u \in WorkRecs : u = page.unresolved /\ WorkSound(u)  BY DEF Sound, PageSound
<1>2. u.steps \in Seq(StepRecs) /\ Len(u.steps) > 0
      /\ \A k \in 1 .. Len(u.steps) : u.steps[k].kind = IF k = Len(u.steps) THEN "call" ELSE "approval"
  BY <1>1, WorkFields DEF WorkSound, Shaped
<1>3. DOMAIN u.steps = 1 .. Len(u.steps) /\ Len(u.steps) \in 1 .. Len(u.steps)  BY <1>2
<1>4. \A i \in SentAs("call") : i = Len(u.steps) /\ i \in 1 .. Len(u.steps)
  BY <1>1, <1>2, <1>3 DEF SentAs, Sent
<1>5. ASSUME CallSent(u)
      PROVE  Len(u.steps) \in SentAs("call") /\ SentAs("approval") = {}
  <2>1. u.steps[Len(u.steps)].status = "broadcast"  BY <1>5 DEF CallSent, LastOf
  <2>2. Len(u.steps) \in SentAs("call")  BY <1>1, <1>2, <1>3, <2>1 DEF SentAs, Sent
  <2>3. ASSUME NEW i \in SentAs("approval")  PROVE FALSE
    <3>1. i \in 1 .. Len(u.steps) /\ u.steps[i].status = "broadcast" /\ u.steps[i].kind = "approval"
      BY <1>1, <1>3, <2>3 DEF SentAs, Sent
    <3>2. i = Len(u.steps)  BY <1>1, <1>3, <2>1, <3>1, Reached
    <3>. QED  BY <1>2, <1>3, <3>1, <3>2
  <2>. QED  BY <2>2, <2>3
<1>6. CallSent(u) => ~UnknownSend("approval")  BY <1>5 DEF UnknownSend
<1>7. CallSent(u) /\ LastOf(u.steps).hash = None => UnknownSend("call")
  BY <1>1, <1>5 DEF UnknownSend, Hashless, LastOf, CallSent
<1>8. CallSent(u) /\ LastOf(u.steps).hash # None => LastOf(u.steps).hash \in HashesOf(SentAs("call"))
  BY <1>1, <1>5 DEF HashesOf, LastOf
<1>9. UnknownSend("call") => LastOf(u.steps).hash = None
  BY <1>1, <1>4 DEF UnknownSend, Hashless, LastOf
<1>. QED  BY <1>1, <1>6, <1>7, <1>8, <1>9

\* The settlement goes on with the record as it is.
LEMMA SettlesOn ==
  ASSUME Sound, Guarded, UNCHANGED <<store, chainVars, wallet, told>>, page.pc \in Settling,
         NEW pc \in Settling, Go(pc),
         \A h \in Calls : /\ pc = "effect" => LastOf(page.unresolved.steps).hash = None
                          /\ pc = "nonces" => txs[h].state = "pending"
  PROVE  Guarded'
<1>1. page.pc \in Preflight /\ pc \in Preflight /\ page.pc \notin AtWallet /\ pc # "open"
      /\ pc \notin {"checking", "look"} /\ pc \in Preflight \cup WithWork
  BY DEF Preflight, Settling, AtWallet
<1>2. page \in PageRecs  BY <1>1, PageRuns DEF Sound, TypesOK
<1>3. page'.pc = pc /\ page'.unresolved = page.unresolved  BY <1>1, <1>2, Goes
<1>4. wallet = None  BY <1>1 DEF Guarded, RequestIsKnown
<1>5. Works' = Works  BY DEF Works
<1>6. Calls' = Calls /\ txs' = txs  BY CallsStay
<1>7. SettlesCall'
  <2>1. \A h \in Calls : StandsFor(page.unresolved, h)  BY DEF Guarded, SettlesCall
  <2>2. \A h \in Calls' : StandsFor(page.unresolved, h)'
    BY <1>3, <1>6, <2>1 DEF StandsFor, CallSent, Fits, LastOf
  <2>. QED  BY <1>1, <1>3, <1>6, <2>2 DEF SettlesCall
<1>8. \A w \in Works' : Blocking(w) => w.id = page'.unresolved.id
  BY <1>3, <1>5 DEF Guarded, LockIsFound
<1>. QED  BY <1>1, <1>3, <1>4, <1>5, <1>7, <1>8, PreflightGuarded

\* The settlement lets the person through: nothing may execute any more.
LEMMA SettlesOpen ==
  ASSUME Sound, Guarded, UNCHANGED <<chainVars, wallet, told>>, page.pc \in Settling, Go("open"),
         closeWork(page.unresolved.id), Calls = {}
  PROVE  Guarded'
<1>1. page.pc \in Preflight /\ page.pc \notin AtWallet /\ "open" \in Preflight \ Settling
      /\ "open" \in Preflight \cup WithWork
  BY DEF Preflight, Settling, AtWallet
<1>2. page \in PageRecs  BY <1>1, PageRuns DEF Sound, TypesOK
<1>3. page'.pc = "open"  BY <1>1, <1>2, Goes
<1>4. wallet = None  BY <1>1 DEF Guarded, RequestIsKnown
<1>5. Works' = {w \in Works : w.id # page.unresolved.id}  BY Closing DEF Sound, TypesOK
<1>6. \A w \in Works' : ~Blocking(w)  BY <1>5 DEF Guarded, LockIsFound
<1>7. SettlesCall'  BY <1>1, <1>3 DEF SettlesCall
<1>. QED  BY <1>1, <1>3, <1>4, <1>5, <1>6, <1>7, PreflightGuarded

\* The account's two nonces are the same only if nothing is pending.
LEMMA NoncesTell ==
  ASSUME txs \in Seq(TxRecs), ~(PendingNonce > LatestNonce)
  PROVE  Pending = {}
<1>1. Hashes = 1 .. Len(txs) /\ Len(txs) \in Nat  BY HashesAre
<1>2. IsFiniteSet(Hashes)  BY <1>1, FS_Interval
<1>3. IsFiniteSet(Mined \cup Pending) /\ Mined \subseteq Mined \cup Pending
  <2>1. Mined \cup Pending \subseteq Hashes  BY DEF Mined, Pending
  <2>. QED  BY <1>2, <2>1, FS_Subset
<1>4. IsFiniteSet(Mined) /\ LatestNonce <= PendingNonce
      /\ (LatestNonce = PendingNonce => Mined = Mined \cup Pending)
  BY <1>3, FS_Subset DEF LatestNonce, PendingNonce
<1>5. LatestNonce \in Nat /\ PendingNonce \in Nat
  BY <1>3, <1>4, FS_CardinalityType DEF LatestNonce, PendingNonce
<1>6. Mined = Mined \cup Pending  BY <1>4, <1>5
<1>7. Mined \cap Pending = {}  BY DEF Mined, Pending
<1>. QED  BY <1>6, <1>7

LEMMA SettleGuarded == Sound /\ reconciles /\ Guarded /\ (Settle \/ SettleFails) => Guarded'
<1>. SUFFICES ASSUME Sound, reconciles, Guarded, Settle \/ SettleFails  PROVE Guarded'  OBVIOUS
<1>1. UNCHANGED <<chainVars, wallet>> /\ page.pc \in Settling
  BY DEF Settle, SettleByHash, SettleByEffect, SettleByNonce, Unresolved, SettleFails, Settling
<1>2. page.pc \in Preflight \cup WithWork /\ page.pc \notin AtWallet
      /\ {"nonces", "effect", "unresolved"} \subseteq Settling
      /\ page.pc \in Preflight
  BY <1>1 DEF Preflight, Settling, AtWallet
<1>3. ASSUME NEW h \in Calls
      PROVE  /\ CallSent(page.unresolved) /\ LastOf(page.unresolved.steps).hash \in {h, None}
             /\ Fits(page.unresolved, h)
  BY <1>1 DEF Guarded, SettlesCall, StandsFor
<1>4. \A h \in Calls : /\ h \in Hashes /\ h # None /\ txs[h].kind = "call"
                       /\ txs[h].state # "pending" => h \in Paid /\ txs[h].state = "success"
  BY CallsAre DEF Sound, TypesOK
<1>5. ASSUME Landed(page.unresolved.id)  PROVE Guarded'
  BY <1>1, <1>2, <1>5, ClosesGuarded DEF Landed
<1>6. ASSUME Go("unresolved"), UNCHANGED <<store, told>>  PROVE Guarded'
  BY <1>1, <1>2, <1>6, SettlesOn
<1>7. CASE SettleByHash
  <2>1. CASE \E h \in HashesOf(SentAs("call")) : h \in Paid
    BY <1>5, <1>7, <2>1 DEF SettleByHash
  <2>2. CASE ~\E h \in HashesOf(SentAs("call")) : h \in Paid
    <3>1. /\ UNCHANGED <<store, told>>
          /\ Go("unresolved") \/ Go(IF UnknownSend("call") /\ reconciles THEN "effect" ELSE "nonces")
      BY <1>7, <2>2 DEF SettleByHash, aside
    <3>2. CASE UnknownSend("call") /\ Go("effect")
      <4>1. LastOf(page.unresolved.steps).hash = None  BY <1>1, <3>2, SentLast
      <4>. QED  BY <1>1, <1>2, <3>1, <3>2, <4>1, SettlesOn
    <3>3. CASE ~UnknownSend("call") /\ Go("nonces")
      <4>1. \A h \in Calls : LastOf(page.unresolved.steps).hash = h
                             /\ h \in HashesOf(SentAs("call"))
        BY <1>1, <1>3, <1>4, <3>3, SentLast
      <4>2. \A h \in Calls : txs[h].state = "pending"  BY <1>4, <2>2, <4>1
      <4>. QED  BY <1>1, <1>2, <3>1, <3>3, <4>2, SettlesOn
    <3>. QED  BY <1>6, <3>1, <3>2, <3>3
  <2>. QED  BY <2>1, <2>2
<1>8. CASE SettleByEffect
  <2>1. CASE EffectSince # {}  BY <1>5, <1>8, <2>1 DEF SettleByEffect
  <2>2. CASE EffectSince = {}
    <3>1. UNCHANGED <<store, told>> /\ Go("nonces")  BY <1>8, <2>2 DEF SettleByEffect, aside
    <3>2. ASSUME NEW h \in Calls, txs[h].state = "success"  PROVE FALSE
      <4>1. /\ page.unresolved.operationKey = txs[h].amount
            /\ txs[h].block >= page.unresolved.fromBlock
        <5>1. page.unresolved.fromBlock <= txs[h].block  BY <1>3, <3>2 DEF Fits
        <5>2. page.unresolved.fromBlock \in Nat /\ txs[h].block \in Nat
          BY <1>1, <1>4, WorkFields, TxFields DEF Sound, PageSound, TypesOK, Hashes
        <5>. QED  BY <1>3, <5>1, <5>2 DEF Fits
      <4>2. h \in EffectSince
        BY <1>4, <3>2, <4>1 DEF EffectSince, reconcileBroadcast, Effects
      <4>. QED  BY <2>2, <4>2
    <3>3. \A h \in Calls : txs[h].state = "pending"  BY <1>4, <3>2
    <3>. QED  BY <1>1, <1>2, <3>1, <3>3, SettlesOn
  <2>. QED  BY <2>1, <2>2
<1>9. CASE SettleByNonce
  <2>1. page.pc = "nonces" /\ told' = told  BY <1>9 DEF SettleByNonce, aside
  <2>2. CASE PendingNonce > LatestNonce  BY <1>6, <1>9, <2>1, <2>2 DEF SettleByNonce
  <2>3. CASE ~(PendingNonce > LatestNonce)
    <3>1. Go("open") /\ closeWork(page.unresolved.id)  BY <1>9, <2>3 DEF SettleByNonce
    <3>2. Pending = {}  BY <2>3, NoncesTell DEF Sound, TypesOK
    <3>3. \A h \in Calls : txs[h].state = "pending"  BY <1>1, <2>1 DEF Guarded, SettlesCall
    <3>4. Calls = {}  BY <1>4, <3>2, <3>3 DEF Pending
    <3>. QED  BY <1>1, <2>1, <3>1, <3>4, SettlesOpen
  <2>. QED  BY <2>2, <2>3
<1>10. CASE Unresolved
  <2>1. CASE UnknownSend("approval") /\ closeWork(page.unresolved.id) /\ Go("open") /\ told' = told
    <3>1. Calls = {}  BY <1>1, <1>3, <2>1, SentLast
    <3>. QED  BY <1>1, <2>1, <3>1, SettlesOpen
  <2>2. CASE Landed(page.unresolved.id)  BY <1>5, <2>2
  <2>3. CASE Shown("unknown") /\ UNCHANGED <<store, told>>
    BY <1>1, <1>2, <2>3, OnScreen, ScreenGuarded
  <2>. QED  BY <1>10, <2>1, <2>2, <2>3 DEF Unresolved, aside
<1>11. CASE SettleFails
  BY <1>6, <1>11 DEF SettleFails, aside
<1>. QED  BY <1>7, <1>8, <1>9, <1>10, <1>11 DEF Settle

-----------------------------------------------------------------------------
\* The run opens its record and takes its steps.

LEMMA OpenGuarded == Sound /\ Guarded /\ OpenWork => Guarded'
<1>. SUFFICES ASSUME Sound, Guarded, OpenWork  PROVE Guarded'  OBVIOUS
<1>1. page.pc = "open" /\ FreeIds # {} /\ UNCHANGED <<chainVars, wallet, told>>
  BY DEF OpenWork, aside
<1>2. page.pc \in Preflight  BY <1>1 DEF Preflight
<1>3. page \in PageRecs /\ page.amount \in Amounts  BY <1>2, PageRuns, PageFields DEF Sound, TypesOK
<1>4. wallet = None /\ Calls = {} /\ \A w \in Works : ~Blocking(w)
  BY <1>1, <1>2 DEF Guarded, RequestIsKnown, NoCallYet, LockIsFound
<1>5. Sound'  BY OpenSound
<1>6. PICK planned : /\ openWork(NewId, page.amount, height, planned)
                     /\ page' = [page EXCEPT !.pc = "prepare", !.work = NewId, !.planned = planned,
                                             !.unresolved = None]
                     /\ planned = Append(page.planned, PendingStep("call", page.amount))
  BY DEF OpenWork
<1>7. page'.pc = "prepare" /\ page'.work = NewId  BY <1>3, <1>6 DEF PageRecs
<1>8. planned \in Seq(StepRecs)
  <2>1. PendingStep("call", page.amount) \in StepRecs
    BY <1>3 DEF PendingStep, StepRecs, Kinds, Quantities
  <2>. QED  BY <1>3, <1>6, <2>1, PageFields
<1>9. PICK new : /\ new = [id |-> NewId, operationKey |-> page.amount, fromBlock |-> height,
                           steps |-> planned, age |-> "young"]
                 /\ Works' = Works \cup {new}
  BY <1>1, <1>3, <1>6, <1>8, Opening DEF Sound, TypesOK
<1>10. new.id = page'.work /\ new.age # "old" /\ new \in Works'  BY <1>7, <1>9
<1>11. page'.pc \in WithWork /\ page'.pc \notin Preflight \cup Settling \cup AtWallet
       /\ page'.pc \notin {"wallet", "confirm", "checking", "look"}
  BY <1>7 DEF WithWork, Preflight, Settling, AtWallet
<1>12. ~Blocking(new)
  <2>1. ~hasBroadcastStep(new)  BY <1>5, <1>10, <1>11, OwnWaitsNext
  <2>. QED  BY <2>1 DEF Blocking
<1>13. LockIsFound'  BY <1>4, <1>9, <1>11, <1>12 DEF LockIsFound
<1>14. Calls' = {}  BY <1>1, <1>4, CallsStay
<1>15. OneCall' /\ NoCallYet' /\ CallIsOwn' /\ CallIsHeld' /\ SettlesCall'
  BY <1>11, <1>14 DEF OneCall, NoCallYet, CallIsOwn, CallIsHeld, SettlesCall
<1>16. RecordIsKept' /\ RequestIsKnown'
  BY <1>1, <1>4, <1>10 DEF RecordIsKept, RequestIsKnown
<1>. QED  BY <1>13, <1>15, <1>16 DEF Guarded

LEMMA PrepareGuarded == Sound /\ Guarded /\ (Prepare \/ Tap) => Guarded'
<1>. SUFFICES ASSUME Sound, Guarded, Prepare \/ Tap  PROVE Guarded'  OBVIOUS
<1>1. PICK pc \in {"gesture", "wallet"} :
        /\ page.pc \in {"prepare", "gesture"} /\ Go(pc) /\ UNCHANGED <<store, chainVars, told>>
        /\ wallet' = wallet \/ pc = "wallet"
        /\ wallet' = wallet \/ wallet'.state = "open"
  BY DEF Prepare, Tap, aside
<1>2. page.pc \in WithWork \ {"confirm"} /\ pc \in WithWork \ {"confirm"} /\ page.pc \notin AtWallet
      /\ pc \notin Preflight \cup Settling /\ pc \notin {"confirm", "checking", "look", "open"}
  BY <1>1 DEF WithWork, AtWallet, Preflight, Settling
<1>3. page \in PageRecs  BY <1>2, InRun
<1>4. page'.pc = pc /\ page'.work = page.work  BY <1>1, <1>2, <1>3, Goes
<1>5. Works' = Works  BY <1>1 DEF Works
<1>6. Calls = {} /\ Calls' = {}  BY <1>1, CallsStay DEF Guarded, NoCallYet
<1>7. wallet # None => wallet.kind # "call" /\ wallet.state = "open"
  BY <1>2, WalletOpen DEF Guarded, RequestIsKnown, AtWallet
<1>8. OneCall' /\ NoCallYet' /\ CallIsOwn' /\ CallIsHeld'
  BY <1>6 DEF OneCall, NoCallYet, CallIsOwn, CallIsHeld
<1>9. RecordIsKept' /\ LockIsFound'
  BY <1>1, <1>2, <1>4, <1>5 DEF Guarded, RecordIsKept, LockIsFound
<1>10. SettlesCall'  BY <1>2, <1>4 DEF SettlesCall
<1>11. RequestIsKnown'
  <2>1. "wallet" \in AtWallet  BY DEF AtWallet
  <2>. QED  BY <1>1, <1>2, <1>4, <1>7, <2>1 DEF RequestIsKnown
<1>. QED  BY <1>8, <1>9, <1>10, <1>11 DEF Guarded

LEMMA LostGuarded == Sound /\ Guarded /\ WalletConnectionLost => Guarded'
<1>. SUFFICES ASSUME Sound, Guarded, WalletConnectionLost  PROVE Guarded'  OBVIOUS
<1>1. page.pc = "wallet" /\ Go("recover") /\ UNCHANGED <<store, chainVars, told>>
      /\ wallet' = IF wallet.state = "open" THEN wallet ELSE None
  BY DEF WalletConnectionLost, aside
<1>2. page.pc \in WithWork \ {"confirm"} /\ "recover" \in WithWork \ {"confirm"}
      /\ page.pc \in AtWallet /\ "recover" \in AtWallet
      /\ "recover" \notin Preflight \cup Settling
  BY <1>1 DEF WithWork, AtWallet, Preflight, Settling
<1>3. page \in PageRecs  BY <1>2, InRun
<1>4. page'.pc = "recover" /\ page'.work = page.work /\ page'.index = page.index
      /\ page'.planned = page.planned
  BY <1>1, <1>2, <1>3, Goes
<1>5. Works' = Works  BY <1>1 DEF Works
<1>6. Calls' = Calls /\ \A w, h : Fits(w, h)' <=> Fits(w, h)  BY <1>1, CallsStay
<1>7. OneCall' /\ NoCallYet'
  BY <1>1, <1>2, <1>4, <1>6 DEF Guarded, OneCall, NoCallYet
<1>8. CallIsOwn' /\ SettlesCall' /\ RequestIsKnown'
  BY <1>2, <1>4 DEF CallIsOwn, SettlesCall, RequestIsKnown
<1>9. CallIsHeld'  BY <1>2, <1>4, <1>5, <1>6 DEF Guarded, CallIsHeld
<1>10. RecordIsKept' /\ LockIsFound'
  BY <1>1, <1>2, <1>4, <1>5 DEF Guarded, RecordIsKept, LockIsFound
<1>. QED  BY <1>7, <1>8, <1>9, <1>10 DEF Guarded

\* The step that the run's record gains by a write, with the call that the page held.
LEMMA OwnRecord ==
  ASSUME Sound, Guarded, UNCHANGED chainVars, page.pc \in AtWallet, NEW hash \in Hashes \cup {None},
         Rewrite(page.work, page.index, "broadcast", hash), hash # None => txs[hash].kind = Step.kind
  PROVE  \E v \in Works' :
           /\ v.id = page.work /\ Listed(v) /\ v.age # "old"
           /\ v.operationKey = page.amount
           /\ page.index = Len(page.planned) => CallSent(v) /\ LastOf(v.steps).hash = hash
           /\ \A h \in Calls : Fits(v, h)'
<1>1. page.pc \in WithWork \ {"confirm"}  BY DEF WithWork, AtWallet
<1>2. PICK w \in Works : w.id = page.work /\ w.age # "old"  BY <1>1 DEF Guarded, RecordIsKept
<1>3. PICK v \in Works' : AsWritten(w, v, page.work, page.index, "broadcast", hash)
  BY <1>1, RunWrites
<1>4. v.id = w.id /\ Touched(w, v, page.index, "broadcast", hash)  BY <1>2, <1>3 DEF AsWritten
<1>5. Owned(w) /\ page.index \in 1 .. Len(page.planned)  BY <1>1, <1>2, InRun
<1>6. w \in WorkRecs /\ WorkSound(w)  BY WorksAre DEF Sound, TypesOK, StoreSound
<1>7. Len(w.steps) = Len(page.planned) /\ page.index \in 1 .. Len(w.steps) /\ page.pc # "confirm"
  BY <1>1, <1>5 DEF Owned
<1>8. w.steps[page.index].hash = None
  BY <1>5, <1>6, <1>7 DEF Owned, WorkSound, HashFits
<1>9. /\ v.age = w.age /\ v.operationKey = w.operationKey /\ Len(v.steps) = Len(w.steps)
      /\ v.fromBlock = w.fromBlock
      /\ v.steps[page.index].status = "broadcast" /\ v.steps[page.index].hash = hash
  BY <1>4, <1>7, <1>8 DEF Touched
<1>10. ASSUME NEW h \in Calls  PROVE Fits(v, h)'
  <2>1. PICK u \in Works : u.id = page.work /\ Fits(u, h)  BY DEF Guarded, CallIsHeld
  <2>2. u = w  BY <1>2, <2>1, OneWork DEF Sound, TypesOK
  <2>3. Fits(v, h)  BY <1>9, <2>1, <2>2 DEF Fits
  <2>. QED  BY <2>3, CallsStay
<1>11. v.operationKey = page.amount  BY <1>5, <1>9 DEF Owned
<1>12. page.index = Len(page.planned) => CallSent(v) /\ LastOf(v.steps).hash = hash
  BY <1>7, <1>9 DEF CallSent, LastOf
<1>. QED  BY <1>2, <1>4, <1>9, <1>10, <1>11, <1>12 DEF Listed

\* A write makes no lock but of the run's own record.
LEMMA OneLockMore ==
  ASSUME Sound, Guarded, page.pc \in WithWork,
         \A v \in Works' : \E w \in Works : v.id = w.id /\ (w.id # page.work => v = w)
  PROVE  \A v \in Works' : Blocking(v) => v.id = page.work
BY DEF Guarded, LockIsFound

LEMMA ConfirmingGuarded ==
  ASSUME Sound, Guarded, page.pc \in AtWallet, NEW hash \in Hashes, txs[hash].kind = Step.kind,
         Confirming(hash), UNCHANGED <<chainVars, told>>, Calls \subseteq {hash},
         wallet' # None => wallet' = wallet /\ wallet.kind # "call" /\ wallet.state = "open"
  PROVE  Guarded'
<1>1. page.pc \in WithWork \ {"confirm"}  BY DEF WithWork, AtWallet
<1>2. page \in PageRecs /\ hash \in Nat /\ hash # None
  BY <1>1, InRun, HashesAre, NoneIsNothing DEF Sound, TypesOK
<1>3. page' = [page EXCEPT !.pc = "confirm", !.hash = hash]
      /\ Rewrite(page.work, page.index, "broadcast", hash)
  BY DEF Confirming, recordBroadcast
<1>4. /\ page'.pc = "confirm" /\ page'.hash = hash /\ page'.index = page.index
      /\ page'.planned = page.planned /\ page'.work = page.work
  BY <1>2, <1>3 DEF PageRecs
<1>5. \A v \in Works' : \E w \in Works : AsWritten(w, v, page.work, page.index, "broadcast", hash)
  BY <1>1, <1>3, RunWrites
<1>6. PICK v \in Works' :
        /\ v.id = page.work /\ Listed(v) /\ v.age # "old"
        /\ page.index = Len(page.planned) => CallSent(v) /\ LastOf(v.steps).hash = hash
        /\ \A h \in Calls : Fits(v, h)'
  BY <1>3, OwnRecord
<1>7. Calls' = Calls  BY CallsStay
<1>8. page.index # Len(page.planned) => Calls = {}  BY <1>1 DEF Guarded, NoCallYet
<1>9. "confirm" \in WithWork /\ "confirm" \notin Preflight \cup Settling \cup AtWallet
  BY DEF WithWork, Preflight, Settling, AtWallet
<1>10. OneCall' /\ CallIsOwn'
  BY <1>4, <1>7 DEF Guarded, OneCall, CallIsOwn
<1>11. NoCallYet'
  BY <1>4, <1>7, <1>8 DEF Guarded, NoCallYet
<1>12. CallIsHeld'
  <2>. SUFFICES ASSUME NEW h \in Calls  PROVE Listed(v) /\ StandsFor(v, h)'
    BY <1>4, <1>7, <1>9 DEF CallIsHeld
  <2>1. h = hash /\ page.index = Len(page.planned)  BY <1>8
  <2>2. CallSent(v) /\ LastOf(v.steps).hash = h /\ Fits(v, h)'  BY <1>6, <2>1
  <2>. QED  BY <1>6, <2>2 DEF StandsFor, CallSent, LastOf
<1>13. RecordIsKept'  BY <1>4, <1>6 DEF RecordIsKept
<1>14. LockIsFound'
  <2>1. \A u \in Works' : Blocking(u) => u.id = page.work
    BY <1>1, <1>5, OneLockMore DEF AsWritten
  <2>. QED  BY <1>4, <1>9, <2>1 DEF LockIsFound
<1>15. SettlesCall'  BY <1>4, <1>9 DEF SettlesCall
<1>16. RequestIsKnown'  BY <1>4, <1>9 DEF RequestIsKnown
<1>. QED  BY <1>10, <1>11, <1>12, <1>13, <1>14, <1>15, <1>16 DEF Guarded

LEMMA UnknownGuarded ==
  ASSUME Sound, Guarded, page.pc \in AtWallet, OutcomeUnknown, UNCHANGED <<chainVars, told>>,
         wallet' # None => wallet' = wallet /\ wallet.state = "open"
  PROVE  Guarded'
<1>1. page.pc \in WithWork \ {"confirm"}  BY DEF WithWork, AtWallet
<1>2. Rewrite(page.work, page.index, "broadcast", None) /\ page' = [pc |-> "unknown"]
  BY DEF OutcomeUnknown, recordUnknownBroadcast, recordStepStatus, Shown
<1>3. page'.pc = "unknown"  BY <1>2
<1>4. "unknown" \notin Preflight \cup Settling \cup WithWork \cup AtWallet
  BY DEF Preflight, Settling, WithWork, AtWallet
<1>5. \A v \in Works' : \E w \in Works : AsWritten(w, v, page.work, page.index, "broadcast", None)
  BY <1>1, <1>2, RunWrites
<1>6. PICK v \in Works' :
        /\ v.id = page.work /\ Listed(v) /\ v.operationKey = page.amount
        /\ page.index = Len(page.planned) => CallSent(v) /\ LastOf(v.steps).hash = None
        /\ \A h \in Calls : Fits(v, h)'
  BY <1>2, OwnRecord
<1>7. Calls' = Calls  BY CallsStay
<1>8. OneCall' /\ CallIsOwn' /\ RecordIsKept' /\ SettlesCall'
  BY <1>3, <1>4, <1>7 DEF Guarded, OneCall, CallIsOwn, RecordIsKept, SettlesCall
<1>9. NoCallYet'  BY <1>3, <1>4, <1>7 DEF Guarded, NoCallYet
<1>10. CallIsHeld'
  <2>. SUFFICES ASSUME NEW h \in Calls  PROVE Listed(v) /\ StandsFor(v, h)'
    BY <1>3, <1>4, <1>7 DEF CallIsHeld
  <2>1. page.index = Len(page.planned)  BY <1>1 DEF Guarded, NoCallYet
  <2>2. CallSent(v) /\ LastOf(v.steps).hash = None /\ Fits(v, h)'  BY <1>6, <2>1
  <2>. QED  BY <1>6, <2>2 DEF StandsFor, CallSent, LastOf
<1>11. LockIsFound'
  <2>1. \A u \in Works' : Blocking(u) => u.id = page.work
    BY <1>1, <1>5, OneLockMore DEF AsWritten
  <2>. QED  BY <1>3, <1>4, <2>1 DEF LockIsFound
<1>12. RequestIsKnown'
  <2>1. SUFFICES ASSUME wallet' # None, wallet'.kind = "call"
                 PROVE  CallSent(v) /\ LastOf(v.steps).hash = None /\ v.operationKey = wallet'.amount
    BY <1>3, <1>4 DEF RequestIsKnown
  <2>2. wallet # None /\ wallet.kind = "call" /\ wallet' = wallet  BY <2>1
  <2>3. Step.kind = "call" /\ wallet.amount = Step.amount
    BY <2>2 DEF Sound, WalletSound, AtWallet
  <2>4. page.index = Len(page.planned) /\ Step.amount = page.amount
    BY <1>1, <2>3, InRun DEF Step, Shaped
  <2>. QED  BY <1>6, <2>2, <2>3, <2>4
<1>. QED  BY <1>8, <1>9, <1>10, <1>11, <1>12 DEF Guarded

LEMMA AnswersGuarded ==
  Sound /\ reconciles /\ Guarded /\ (WalletAnswers \/ WalletTimeout \/ RecoverBroadcast \/ RecoveryEnds)
  => Guarded'
<1>. SUFFICES ASSUME Sound, reconciles, Guarded,
                     WalletAnswers \/ WalletTimeout \/ RecoverBroadcast \/ RecoveryEnds
              PROVE  Guarded'
  OBVIOUS
<1>1. UNCHANGED <<chainVars, told>> /\ page.pc \in AtWallet
  BY DEF WalletAnswers, WalletTimeout, RecoverBroadcast, RecoveryEnds, aside, AtWallet
<1>2. page.pc \in WithWork  BY <1>1 DEF WithWork, AtWallet
<1>3. CASE WalletAnswers
  <2>1. page.pc = "wallet" /\ wallet # None /\ wallet' = None /\ wallet.state # "open"
    BY <1>3 DEF WalletAnswers, Sound, WalletSound
  <2>2. CASE wallet.state = "signed"
    <3>1. Confirming(wallet.hash)  BY <1>3, <2>2 DEF WalletAnswers
    <3>2. wallet.hash \in Hashes /\ txs[wallet.hash].kind = Step.kind
      BY <2>1, <2>2 DEF Sound, WalletSound
    <3>3. Calls \subseteq {wallet.hash}  BY <2>1, <2>2 DEF Guarded, CallIsOwn
    <3>. QED  BY <1>1, <2>1, <3>1, <3>2, <3>3, ConfirmingGuarded
  <2>3. CASE wallet.state # "signed"
    <3>1. closeWork(page.work) /\ page' = Idle  BY <1>3, <2>3 DEF WalletAnswers
    <3>2. Calls = {}  BY <2>1, <2>3 DEF Guarded, NoCallYet
    <3>. QED  BY <1>1, <1>2, <2>1, <3>1, <3>2, ClosesGuarded
  <2>. QED  BY <2>2, <2>3
<1>4. CASE WalletTimeout
  <2>1. OutcomeUnknown /\ wallet' = IF wallet.state = "open" THEN wallet ELSE None
    BY <1>4 DEF WalletTimeout
  <2>. QED  BY <1>1, <2>1, UnknownGuarded
<1>5. CASE RecoverBroadcast
  <2>1. PICK hash \in StepEffect : page.pc = "recover" /\ Confirming(hash) /\ wallet' = wallet
    BY <1>5 DEF RecoverBroadcast
  <2>2. Step.kind \in Kinds  BY <1>2, InRun, StepFields
  <2>3. hash \in Hashes /\ txs[hash].kind = Step.kind
    BY <2>1, <2>2 DEF StepEffect, reconcileBroadcast, Effects, Kinds
  <2>4. Step.kind = "call" => hash \in Calls
    BY <2>1, EffectsPay, CallsAre DEF StepEffect, Sound, TypesOK
  <2>5. Step.kind # "call" => page.index # Len(page.planned)
    BY <1>2, InRun DEF Step, Shaped
  <2>6. Calls \subseteq {hash}
    BY <1>2, <2>4, <2>5 DEF Guarded, OneCall, NoCallYet
  <2>7. wallet # None => wallet.state = "open"  BY <2>1, WalletOpen
  <2>8. wallet # None => wallet.kind # "call"
    <3>1. SUFFICES ASSUME wallet # None, wallet.kind = "call"  PROVE FALSE  OBVIOUS
    <3>2. Step.kind = "call"  BY <2>1, <3>1 DEF Sound, WalletSound
    <3>3. Calls = {}  BY <2>7, <3>1 DEF Guarded, NoCallYet
    <3>. QED  BY <2>4, <3>2, <3>3
  <2>. QED  BY <1>1, <2>1, <2>3, <2>6, <2>7, <2>8, ConfirmingGuarded
<1>6. CASE RecoveryEnds
  <2>1. page.pc = "recover" /\ OutcomeUnknown /\ wallet' = wallet  BY <1>6 DEF RecoveryEnds
  <2>. QED  BY <1>1, <2>1, WalletOpen, UnknownGuarded
<1>. QED  BY <1>3, <1>4, <1>5, <1>6

LEMMA ConfirmGuarded == Sound /\ Guarded /\ Confirm => Guarded'
<1>. SUFFICES ASSUME Sound, Guarded, Confirm  PROVE Guarded'  OBVIOUS
<1>1. page.pc = "confirm" /\ UNCHANGED <<chainVars, wallet>>  BY DEF Confirm
<1>2. page.pc \in WithWork /\ page.pc \notin AtWallet  BY <1>1 DEF WithWork, AtWallet
<1>3. CASE txs[page.hash].state = "reverted"
  <2>1. closeWork(page.work) /\ page' = Idle  BY <1>3 DEF Confirm
  <2>2. Calls = {}
    <3>1. Calls \subseteq {page.hash}  BY <1>1 DEF Guarded, CallIsOwn
    <3>2. page.hash \notin Calls  BY <1>3, CallsAre DEF Sound, TypesOK
    <3>. QED  BY <3>1, <3>2
  <2>. QED  BY <1>1, <1>2, <2>1, <2>2, ClosesGuarded
<1>4. CASE txs[page.hash].state # "reverted" /\ page.index = Len(page.planned)
  <2>1. Landed(page.work)  BY <1>4 DEF Confirm
  <2>. QED  BY <1>1, <1>2, <2>1, ClosesGuarded DEF Landed
<1>5. CASE txs[page.hash].state # "reverted" /\ page.index # Len(page.planned)
  <2>1. /\ Rewrite(page.work, page.index, "confirmed", None) /\ told' = told
        /\ page' = [page EXCEPT !.pc = "prepare", !.index = @ + 1, !.hash = None]
    BY <1>5 DEF Confirm, recordStepStatus, aside
  <2>2. Sound'  BY ConfirmSound
  <2>3. page \in PageRecs  BY <1>2, InRun
  <2>4. page'.pc = "prepare" /\ page'.work = page.work  BY <2>1, <2>3 DEF PageRecs
  <2>5. /\ \A v \in Works' : \E w \in Works : AsWritten(w, v, page.work, page.index, "confirmed", None)
        /\ \A w \in Works : \E v \in Works' : AsWritten(w, v, page.work, page.index, "confirmed", None)
    BY <1>1, <1>2, <2>1, RunWrites
  <2>6. PICK w \in Works : w.id = page.work /\ w.age # "old"
    BY <1>1, <1>5 DEF Guarded, RecordIsKept
  <2>7. PICK v \in Works' : v.id = page.work /\ v.age # "old"
    BY <2>5, <2>6 DEF AsWritten, Touched
  <2>8. Calls = {} /\ Calls' = {}  BY <1>1, <1>2, <1>5, CallsStay DEF Guarded, NoCallYet
  <2>9. "prepare" \in WithWork \ {"confirm"} /\ "prepare" \notin Preflight \cup Settling
    BY DEF WithWork, Preflight, Settling
  <2>10. \A u \in Works' : ~Blocking(u)
    <3>. SUFFICES ASSUME NEW u \in Works', Blocking(u)  PROVE FALSE  OBVIOUS
    <3>1. u.id = page.work  BY <1>2, <2>5, OneLockMore DEF AsWritten
    <3>2. ~hasBroadcastStep(u)  BY <2>2, <2>4, <2>9, <3>1, OwnWaitsNext
    <3>. QED  BY <3>2 DEF Blocking
  <2>11. OneCall' /\ NoCallYet' /\ CallIsOwn' /\ CallIsHeld'
    BY <2>8 DEF OneCall, NoCallYet, CallIsOwn, CallIsHeld
  <2>12. RecordIsKept' /\ LockIsFound' /\ SettlesCall'
    BY <2>4, <2>7, <2>9, <2>10 DEF RecordIsKept, LockIsFound, SettlesCall
  <2>13. RequestIsKnown'
    BY <1>1, <1>2, <2>4, <2>9 DEF Guarded, RequestIsKnown
  <2>. QED  BY <2>11, <2>12, <2>13 DEF Guarded
<1>. QED  BY <1>3, <1>4, <1>5

-----------------------------------------------------------------------------
\* Steps of others: the wallet app, a second look at the records, the clock, the chain.

LEMMA WalletAppGuarded == Sound /\ Guarded /\ Wallet => Guarded'
<1>. SUFFICES ASSUME Sound, Guarded, Wallet  PROVE Guarded'  OBVIOUS
<1>1. UNCHANGED <<store, page, told>> /\ wallet # None /\ wallet.state = "open"
  BY DEF Wallet, Sign, Reject, aside
<1>2. wallet \in WalletRecs  BY <1>1 DEF Sound, TypesOK
<1>3. Works' = Works  BY <1>1 DEF Works
<1>4. Calls = {}  BY <1>1 DEF Guarded, NoCallYet
<1>5. LockIsFound'  BY <1>1, <1>3 DEF Guarded, LockIsFound
<1>6. PICK new : new = Len(txs) + 1  OBVIOUS
<1>7. /\ wallet' # None => page.pc = "wallet" /\ wallet'.state \in {"signed", "rejected"}
      /\ wallet' # None /\ wallet'.state = "signed" => Sign /\ wallet'.hash = new
  <2>1. PICK signed : signed = [wallet EXCEPT !.state = "signed", !.hash = new]  OBVIOUS
  <2>2. PICK rejected : rejected = [wallet EXCEPT !.state = "rejected"]  OBVIOUS
  <2>3. signed.state = "signed" /\ signed.hash = new /\ rejected.state = "rejected"
    BY <1>2, <2>1, <2>2 DEF WalletRecs
  <2>4. \/ Sign /\ wallet' = (IF page.pc = "wallet" THEN signed ELSE None)
        \/ wallet' = (IF page.pc = "wallet" THEN rejected ELSE None)
    BY <1>6, <2>1, <2>2 DEF Wallet, Sign, Reject, Answered
  <2>. QED  BY <2>3, <2>4
<1>8. Calls' # {} => /\ Sign /\ wallet.kind = "call" /\ Calls' = {new}
                     /\ txs'[new].amount = wallet.amount /\ txs'[new].state = "pending"
  <2>1. CASE Sign
    <3>1. /\ Len(txs') = Len(txs) + 1 /\ \A h \in 1 .. Len(txs) : txs'[h] = txs[h]
          /\ txs'[Len(txs) + 1].kind = wallet.kind /\ txs'[Len(txs) + 1].amount = wallet.amount
          /\ txs'[Len(txs) + 1].state = "pending" /\ txs' \in Seq(TxRecs)
      BY <1>2, <2>1, WalletFields, BroadcastFollows DEF Sign, Sound, TypesOK, TxsFollow
    <3>2. Hashes = 1 .. Len(txs) /\ Hashes' = 1 .. Len(txs) + 1 /\ Len(txs) \in Nat
      BY <3>1, HashesAre DEF Sound, TypesOK, Hashes
    <3>3. \A h \in Calls' : h = new /\ wallet.kind = "call"
      <4>. SUFFICES ASSUME NEW h \in Calls'  PROVE h = new /\ wallet.kind = "call"  OBVIOUS
      <4>1. h \in 1 .. Len(txs) + 1 /\ txs'[h].kind = "call" /\ txs'[h].state \in {"pending", "success"}
        BY <3>2 DEF Calls
      <4>2. CASE h \in 1 .. Len(txs)
        <5>1. h \in Calls  BY <3>1, <3>2, <4>1, <4>2 DEF Calls
        <5>. QED  BY <1>4, <5>1
      <4>3. CASE h = Len(txs) + 1  BY <1>6, <3>1, <4>1, <4>3
      <4>. QED  BY <3>2, <4>1, <4>2, <4>3
    <3>. QED  BY <1>6, <2>1, <3>1, <3>3
  <2>2. CASE ~Sign
    <3>1. Calls' = Calls  BY <2>2, CallsStay DEF Wallet, Reject
    <3>. QED  BY <1>4, <3>1
  <2>. QED  BY <2>1, <2>2
<1>9. OneCall'  BY <1>8 DEF OneCall
<1>10. page.pc \in Preflight => FALSE  BY <1>1 DEF Guarded, RequestIsKnown
<1>11. page.pc \in WithWork \ AtWallet => wallet.kind # "call"
  BY <1>1 DEF Guarded, RequestIsKnown
<1>12. page.pc \in AtWallet /\ wallet.kind = "call" =>
         /\ page.pc \in WithWork \ {"confirm"} /\ page.index = Len(page.planned)
         /\ wallet.amount = page.amount
  <2>1. SUFFICES ASSUME page.pc \in AtWallet, wallet.kind = "call"
                 PROVE  /\ page.pc \in WithWork \ {"confirm"} /\ page.index = Len(page.planned)
                        /\ wallet.amount = page.amount
    OBVIOUS
  <2>2. page.pc \in WithWork \ {"confirm"}  BY <2>1 DEF WithWork, AtWallet
  <2>3. Step.kind = "call" /\ wallet.amount = Step.amount
    BY <1>1, <2>1 DEF Sound, WalletSound, AtWallet
  <2>. QED  BY <2>2, <2>3, InRun DEF Step, Shaped
<1>13. {"prepare", "gesture", "confirm"} \subseteq WithWork \ AtWallet
       /\ "open" \in Preflight /\ {"checking", "look"} \subseteq Preflight
       /\ Settling \subseteq Preflight /\ "wallet" \in AtWallet
  BY DEF WithWork, AtWallet, Preflight, Settling
<1>14. NoCallYet'
  <2>. SUFFICES ASSUME Calls' # {},
                       \/ page.pc \in {"open", "prepare", "gesture"}
                       \/ wallet' # None /\ wallet'.state # "signed"
                       \/ page.pc \in WithWork /\ page.index # Len(page.planned)
                PROVE  FALSE
    BY <1>1 DEF NoCallYet
  <2>1. Sign /\ wallet.kind = "call"  BY <1>8
  <2>2. ~(page.pc \in {"open", "prepare", "gesture"})  BY <1>10, <1>11, <1>13, <2>1
  <2>3. ~(wallet' # None /\ wallet'.state # "signed")
    <3>1. PICK signed : signed = [wallet EXCEPT !.state = "signed", !.hash = new]  OBVIOUS
    <3>2. signed.state = "signed"  BY <1>2, <3>1 DEF WalletRecs
    <3>3. wallet' = IF page.pc = "wallet" THEN signed ELSE None
      BY <1>6, <2>1, <3>1 DEF Sign, Answered
    <3>. QED  BY <3>2, <3>3
  <2>. QED  BY <1>11, <1>12, <2>1, <2>2, <2>3
<1>15. CallIsOwn'
  <2>1. page.pc = "confirm" => Calls' = {}  BY <1>8, <1>11, <1>13
  <2>2. page.pc = "wallet" /\ wallet'.state = "signed" => Calls' \subseteq {wallet'.hash}
    <3>. SUFFICES ASSUME page.pc = "wallet", Calls' # {}  PROVE wallet'.hash = new
      BY <1>8
    <3>1. PICK signed : signed = [wallet EXCEPT !.state = "signed", !.hash = new]  OBVIOUS
    <3>2. signed.hash = new  BY <1>2, <3>1 DEF WalletRecs
    <3>. QED  BY <1>6, <1>8, <3>1, <3>2 DEF Sign, Answered
  <2>. QED  BY <1>1, <2>1, <2>2 DEF CallIsOwn
<1>16. CallIsHeld'
  <2>. SUFFICES ASSUME NEW h \in Calls'
                PROVE  /\ page.pc \in AtWallet => \E w \in Works : w.id = page.work /\ Fits(w, h)'
                       /\ page.pc \notin AtWallet => \E w \in Works : Listed(w) /\ StandsFor(w, h)'
    BY <1>1, <1>3 DEF CallIsHeld
  <2>1. h = new /\ wallet.kind = "call" /\ txs'[h].amount = wallet.amount /\ txs'[h].state = "pending"
    BY <1>8
  <2>2. CASE page.pc \in AtWallet
    <3>1. page.pc \in WithWork \ {"confirm"} /\ wallet.amount = page.amount  BY <1>12, <2>1, <2>2
    <3>2. PICK w \in Works : w.id = page.work  BY <3>1 DEF Guarded, RecordIsKept
    <3>3. w.operationKey = page.amount  BY <3>1, <3>2, InRun DEF Owned
    <3>. QED  BY <2>1, <2>2, <3>1, <3>2, <3>3 DEF Fits
  <2>3. CASE page.pc \notin AtWallet
    <3>1. PICK w \in Works : CallSent(w) /\ LastOf(w.steps).hash = None /\ w.operationKey = wallet.amount
      BY <1>1, <2>1, <2>3 DEF Guarded, RequestIsKnown
    <3>2. w \in WorkRecs /\ WorkSound(w)  BY WorksAre DEF Sound, TypesOK, StoreSound
    <3>3. Listed(w)  BY <3>1, <3>2, SentBlocks
    <3>4. Fits(w, h)'  BY <2>1, <3>1 DEF Fits
    <3>5. StandsFor(w, h)'  BY <3>1, <3>4 DEF StandsFor, CallSent, LastOf
    <3>. QED  BY <2>3, <3>3, <3>5
  <2>. QED  BY <2>2, <2>3
<1>17. RecordIsKept'
  <2>1. page.pc = "confirm" /\ txs'[page.hash].state # "reverted" => txs[page.hash].state # "reverted"
    <3>. SUFFICES ASSUME page.pc = "confirm"  PROVE txs'[page.hash] = txs[page.hash]  OBVIOUS
    <3>1. page.hash \in Hashes  BY DEF Sound, PageSound
    <3>2. CASE Sign
      <4>1. page.hash \in 1 .. Len(txs)  BY <3>1, HashesAre DEF Sound, TypesOK
      <4>. QED  BY <1>2, <3>2, <4>1, WalletFields, BroadcastFollows DEF Sign, Sound, TypesOK
    <3>3. CASE Reject  BY <3>3, CallsStay DEF Reject
    <3>. QED  BY <3>2, <3>3 DEF Wallet
  <2>. QED  BY <1>1, <1>3, <2>1 DEF Guarded, RecordIsKept
<1>18. SettlesCall'  BY <1>1, <1>10, <1>13 DEF SettlesCall
<1>19. RequestIsKnown'  BY <1>1, <1>7, <1>10, <1>13 DEF RequestIsKnown
<1>. QED  BY <1>5, <1>9, <1>14, <1>15, <1>16, <1>17, <1>18, <1>19 DEF Guarded

LEMMA TimeGuarded == Sound /\ Guarded /\ TimePasses /\ WithinADay => Guarded'
<1>. SUFFICES ASSUME Sound, Guarded, TimePasses, WithinADay  PROVE Guarded'  OBVIOUS
<1>1. UNCHANGED <<chainVars, page, wallet, told>>  BY DEF TimePasses, aside
<1>2. /\ (store \in Seq(WorkRecs))' /\ \A v \in Works' : \E w \in Works : Older(w, v)
      /\ \A w \in Works : \E v \in Works' : Older(w, v)
  BY Ageing DEF TimePasses, Sound, TypesOK
<1>3. Calls' = Calls /\ (\A w, h : Fits(w, h)' <=> Fits(w, h)) /\ txs' = txs
      /\ (\A w, h : StandsFor(w, h)' <=> StandsFor(w, h))
  BY <1>1, CallsStay
<1>4. ASSUME NEW w, NEW v, Older(w, v)
      PROVE  /\ v.id = w.id /\ v.operationKey = w.operationKey
             /\ Listed(v) => Listed(w)
             /\ hasBroadcastStep(v) <=> hasBroadcastStep(w)
             /\ CallSent(v) <=> CallSent(w)
             /\ LastOf(v.steps) = LastOf(w.steps)
             /\ \A h : Fits(w, h) => Fits(v, h)
             /\ \A h : StandsFor(w, h) => StandsFor(v, h)
  BY <1>4 DEF Older, Listed, hasBroadcastStep, CallSent, LastOf, Fits, StandsFor
<1>5. ASSUME NEW w \in Works, NEW v \in Works', Older(w, v), w.age # "old", v.age = "old"
      PROVE  page = Idle /\ wallet = None /\ (Calls = {} \/ told)
  <2>1. w.age = "stale"  BY <1>5 DEF Older
  <2>2. PICK i \in DOMAIN store : store[i] = w  BY DEF Works
  <2>3. PICK j \in DOMAIN store' : store'[j] = v  BY DEF Works
  <2>4. page = Idle /\ wallet = None /\ Pending = {} /\ (Paid = {} \/ told)
    BY <1>4, <1>5, <2>1, <2>2, <2>3 DEF WithinADay
  <2>5. Paid = {} => Calls = {}  BY <2>4 DEF Calls, Paid, Pending
  <2>. QED  BY <2>4, <2>5
<1>6. OneCall' /\ NoCallYet' /\ CallIsOwn'
  BY <1>1, <1>3 DEF Guarded, OneCall, NoCallYet, CallIsOwn
<1>7. SettlesCall'
  BY <1>1, <1>3 DEF Guarded, SettlesCall, StandsFor, CallSent, Fits, LastOf
<1>8. LockIsFound'
  <2>1. \A v \in Works' : Blocking(v) => \E w \in Works : Blocking(w) /\ v.id = w.id
    BY <1>2, <1>4 DEF Blocking
  <2>. QED  BY <1>1, <2>1 DEF Guarded, LockIsFound
<1>9. CallIsHeld'
  <2>. SUFFICES ASSUME NEW h \in Calls
                PROVE  /\ page.pc \in AtWallet => \E v \in Works' : v.id = page.work /\ Fits(v, h)
                       /\ page.pc \notin AtWallet /\ ~told =>
                            \E v \in Works' : Listed(v) /\ StandsFor(v, h)
    BY <1>1, <1>3 DEF CallIsHeld
  <2>1. CASE page.pc \in AtWallet
    <3>1. PICK w \in Works : w.id = page.work /\ Fits(w, h)  BY <2>1 DEF Guarded, CallIsHeld
    <3>2. PICK v \in Works' : Older(w, v)  BY <1>2
    <3>. QED  BY <1>4, <2>1, <3>1, <3>2
  <2>2. CASE page.pc \notin AtWallet /\ ~told
    <3>1. PICK w \in Works : Listed(w) /\ StandsFor(w, h)  BY <2>2 DEF Guarded, CallIsHeld
    <3>2. PICK v \in Works' : Older(w, v)  BY <1>2
    <3>3. v.age = "old" => w.age = "old"  BY <1>5, <2>2, <3>2
    <3>4. v.steps = w.steps  BY <3>2 DEF Older
    <3>5. Listed(v)  BY <3>1, <3>3, <3>4 DEF Listed
    <3>. QED  BY <1>4, <2>2, <3>1, <3>2, <3>5
  <2>. QED  BY <2>1, <2>2
<1>10. RecordIsKept'
  <2>. SUFFICES ASSUME NEW w \in Works, w.id = page.work, w.age # "old", page.pc \in WithWork
                PROVE  \E v \in Works' : v.id = page.work /\ v.age # "old"
    BY <1>1, <1>3 DEF Guarded, RecordIsKept, WithWork
  <2>1. PICK v \in Works' : Older(w, v)  BY <1>2
  <2>2. page # Idle  BY DEF Idle, WithWork
  <2>3. v.age # "old"  BY <1>5, <2>1, <2>2
  <2>. QED  BY <1>4, <2>1, <2>3
<1>11. RequestIsKnown'
  <2>1. \A w \in Works : CallSent(w) /\ LastOf(w.steps).hash = None /\ w.operationKey = wallet.amount =>
          \E v \in Works' : CallSent(v) /\ LastOf(v.steps).hash = None /\ v.operationKey = wallet.amount
    BY <1>2, <1>4
  <2>. QED  BY <1>1, <2>1 DEF Guarded, RequestIsKnown
<1>. QED  BY <1>6, <1>7, <1>8, <1>9, <1>10, <1>11 DEF Guarded

LEMMA ChainGuarded == Sound /\ Guarded /\ Chain /\ BetweenBlocks => Guarded'
<1>. SUFFICES ASSUME Sound, Guarded, Chain, BetweenBlocks  PROVE Guarded'  OBVIOUS
<1>1. UNCHANGED <<store, page, wallet, told>>  BY DEF Chain, aside
<1>2. TxsFollow /\ Len(txs') = Len(txs)
      /\ (page.pc = "nonces" => \A h \in 1 .. Len(txs) : txs'[h].state = "success" => txs[h].state = "success")
  <2>1. CASE Mine
    <3>1. height' # height /\ TxsFollow /\ Len(txs') = Len(txs)
      BY <2>1, MineFollows DEF Sound, TypesOK
    <3>. QED  BY <3>1 DEF BetweenBlocks
  <2>2. CASE Evicted  BY <2>2, EvictionFollows DEF Sound, TypesOK
  <2>. QED  BY <2>1, <2>2 DEF Chain
<1>3. Works' = Works  BY <1>1 DEF Works
<1>4. Hashes = 1 .. Len(txs) /\ Hashes' = 1 .. Len(txs)
  BY <1>2, HashesAre DEF Sound, TypesOK, Hashes, TxsFollow
<1>5. \A h \in Hashes : txs'[h].kind = txs[h].kind /\ (txs[h].state # "pending" => txs'[h] = txs[h])
  BY <1>2, <1>4 DEF TxsFollow, Settles
<1>6. Calls' \subseteq Calls
  <2>. SUFFICES ASSUME NEW h \in Calls'  PROVE h \in Calls  OBVIOUS
  <2>1. h \in Hashes /\ txs'[h].kind = "call" /\ txs'[h].state \in {"pending", "success"}
    BY <1>4 DEF Calls
  <2>. QED  BY <1>5, <2>1 DEF Calls
<1>7. ASSUME NEW h \in Calls, NEW w \in WorkRecs, WorkSound(w)
      PROVE  Fits(w, h) => Fits(w, h)'
  <2>1. w.fromBlock \in Nat /\ w.fromBlock <= height /\ h \in Hashes
    BY <1>7, WorkFields DEF WorkSound, Calls
  <2>. QED  BY <1>2, <2>1, FitsStays DEF Sound, TypesOK
<1>8. ASSUME NEW h \in Calls, NEW w \in WorkRecs, WorkSound(w), StandsFor(w, h)
      PROVE  StandsFor(w, h)'
  BY <1>7, <1>8 DEF StandsFor, CallSent, LastOf
<1>9. \A w \in Works : w \in WorkRecs /\ WorkSound(w)
  BY WorksAre DEF Sound, TypesOK, StoreSound
<1>10. OneCall' /\ NoCallYet' /\ CallIsOwn'
  BY <1>1, <1>6 DEF Guarded, OneCall, NoCallYet, CallIsOwn
<1>11. CallIsHeld'
  BY <1>1, <1>3, <1>6, <1>7, <1>8, <1>9 DEF Guarded, CallIsHeld
<1>12. RecordIsKept'
  <2>1. page.pc = "confirm" /\ txs'[page.hash].state # "reverted" => txs[page.hash].state # "reverted"
    BY <1>5 DEF Sound, PageSound
  <2>. QED  BY <1>1, <1>3, <2>1 DEF Guarded, RecordIsKept
<1>13. LockIsFound' /\ RequestIsKnown'
  BY <1>1, <1>3 DEF Guarded, LockIsFound, RequestIsKnown
<1>14. SettlesCall'
  <2>1. page.pc \in {"checking", "look"} => ~told'  BY <1>1 DEF Guarded, SettlesCall
  <2>. SUFFICES ASSUME page.pc \in Settling, NEW h \in Calls'
                PROVE  /\ StandsFor(page.unresolved, h)'
                       /\ page.pc = "effect" => LastOf(page.unresolved.steps).hash = None
                       /\ page.pc = "nonces" => txs'[h].state = "pending"
    BY <1>1, <2>1 DEF SettlesCall, LastOf
  <2>2. PICK u \in WorkRecs : u = page.unresolved /\ WorkSound(u)  BY DEF Sound, PageSound
  <2>3. h \in Calls  BY <1>6
  <2>4. /\ StandsFor(u, h)
        /\ page.pc = "effect" => LastOf(page.unresolved.steps).hash = None
        /\ page.pc = "nonces" => txs[h].state = "pending"
    BY <2>2, <2>3 DEF Guarded, SettlesCall
  <2>5. StandsFor(page.unresolved, h)'
    <3>1. StandsFor(u, h)'  BY <1>8, <2>2, <2>3, <2>4
    <3>2. page'.unresolved = u  BY <1>1, <2>2
    <3>. QED  BY <3>1, <3>2 DEF StandsFor, CallSent, Fits, LastOf
  <2>6. page.pc = "nonces" => txs'[h].state = "pending"
    <3>1. h \in 1 .. Len(txs) /\ txs'[h].state \in {"pending", "success"}  BY <1>4 DEF Calls
    <3>. QED  BY <1>2, <2>4, <3>1
  <2>. QED  BY <2>4, <2>5, <2>6
<1>. QED  BY <1>10, <1>11, <1>12, <1>13, <1>14 DEF Guarded

\* A second look at the records tells before it closes what stands for a call.
LEMMA ReconcileGuarded == Sound /\ Guarded /\ ReconcileWork /\ Patient => Guarded'
<1>. SUFFICES ASSUME Sound, Guarded, ReconcileWork, Patient  PROVE Guarded'  OBVIOUS
<1>0. PICK w \in Works : \E j \in DOMAIN w.steps, last \in BOOLEAN :
        /\ Listed(w) /\ last = \A k \in DOMAIN w.steps \ {j} : w.steps[k].status # "waiting"
        /\ w.steps[j].status = "broadcast" /\ w.steps[j].hash # None /\ Receipt(w.steps[j].hash)
        /\ IF txs[w.steps[j].hash].state = "reverted" \/ last
           THEN closeWork(w.id) ELSE recordStepStatus(w.id, j, "confirmed")
        /\ told' = (told \/ (txs[w.steps[j].hash].state = "success" /\ last))
        /\ UNCHANGED <<chainVars, page, wallet, reconciles>>
  BY DEF ReconcileWork, listPendingWork, Works
<1>1. PICK j \in DOMAIN w.steps, last \in BOOLEAN :
        /\ Listed(w) /\ last = \A k \in DOMAIN w.steps \ {j} : w.steps[k].status # "waiting"
        /\ w.steps[j].status = "broadcast" /\ w.steps[j].hash # None /\ Receipt(w.steps[j].hash)
        /\ IF txs[w.steps[j].hash].state = "reverted" \/ last
           THEN closeWork(w.id) ELSE recordStepStatus(w.id, j, "confirmed")
        /\ told' = (told \/ (txs[w.steps[j].hash].state = "success" /\ last))
        /\ UNCHANGED <<chainVars, page, wallet, reconciles>>
  BY <1>0
<1>2. w \in WorkRecs /\ WorkSound(w)  BY WorksAre DEF Sound, TypesOK, StoreSound
<1>3. w.steps \in Seq(StepRecs) /\ DOMAIN w.steps = 1 .. Len(w.steps) /\ Len(w.steps) \in Nat
  BY <1>2, WorkFields
<1>4. ReachedStep(w.steps, j) /\ (j # Len(w.steps) => w.steps[Len(w.steps)].status = "waiting")
  BY <1>1, <1>2, <1>3, Reached
<1>5. Blocking(w)  BY <1>1 DEF Blocking, hasBroadcastStep
<1>6. last <=> j = Len(w.steps)
  <2>1. CASE j = Len(w.steps)
    <3>1. \A k \in DOMAIN w.steps \ {j} : w.steps[k].status = "confirmed"
      <4>1. \A k \in 1 .. Len(w.steps) : k # j => k < j  BY <1>3, <2>1
      <4>. QED  BY <1>3, <1>4, <4>1 DEF ReachedStep
    <3>2. \A k \in DOMAIN w.steps \ {j} : w.steps[k].status # "waiting"  BY <3>1
    <3>. QED  BY <1>1, <2>1, <3>2
  <2>2. CASE j # Len(w.steps)
    <3>1. Len(w.steps) \in DOMAIN w.steps \ {j}  BY <1>1, <1>3, <2>2
    <3>2. ~\A k \in DOMAIN w.steps \ {j} : w.steps[k].status # "waiting"  BY <1>4, <2>2, <3>1
    <3>. QED  BY <1>1, <2>2, <3>2
  <2>. QED  BY <2>1, <2>2
<1>7. Calls' = Calls /\ (\A v, h : Fits(v, h)' <=> Fits(v, h)) /\ txs' = txs
      /\ (\A v, h : StandsFor(v, h)' <=> StandsFor(v, h))
  BY <1>1, CallsStay
<1>8. \A v \in Works : v.id = w.id => v = w  BY OneWork DEF Sound, TypesOK
\* The other records stay; this one is closed, or has its step confirmed.
<1>9. /\ \A v \in Works : v.id # w.id => v \in Works'
      /\ \A v \in Works' : v \in Works \/ v.id = w.id
      /\ ~(txs[w.steps[j].hash].state = "reverted" \/ last) =>
           \E v \in Works' : v.id = w.id /\ v.age = w.age
  <2>1. CASE closeWork(w.id) /\ (txs[w.steps[j].hash].state = "reverted" \/ last)
    <3>1. Works' = {v \in Works : v.id # w.id}  BY <2>1, Closing DEF Sound, TypesOK
    <3>. QED  BY <2>1, <3>1
  <2>2. CASE Rewrite(w.id, j, "confirmed", None)
    <3>1. j \in Nat /\ MayBeWritten(w.id, j, None)  BY <1>3, <1>4, <1>8 DEF MayBeWritten
    <3>2. TxsFollow  BY <1>1, TxsStay DEF Sound, TypesOK
    <3>3. /\ \A v \in Works' : \E u \in Works : AsWritten(u, v, w.id, j, "confirmed", None)
          /\ \A u \in Works : \E v \in Works' : AsWritten(u, v, w.id, j, "confirmed", None)
      BY <2>2, <3>1, <3>2, Written
    <3>. QED  BY <3>3 DEF AsWritten, Touched
  <2>. QED  BY <1>1, <2>1, <2>2 DEF recordStepStatus
<1>10. page.pc \in WithWork \ {"confirm"} => page.work # w.id
  BY <1>5, OwnWaits DEF Blocking
<1>11. told => told'  BY <1>1
<1>12. OneCall' /\ NoCallYet' /\ CallIsOwn'
  BY <1>1, <1>7 DEF Guarded, OneCall, NoCallYet, CallIsOwn
<1>13. CallIsHeld'
  <2>. SUFFICES ASSUME NEW h \in Calls
                PROVE  /\ page.pc \in AtWallet => \E v \in Works' : v.id = page.work /\ Fits(v, h)
                       /\ page.pc \notin AtWallet /\ ~told' =>
                            \E v \in Works' : Listed(v) /\ StandsFor(v, h)
    BY <1>1, <1>7 DEF CallIsHeld
  <2>1. CASE page.pc \in AtWallet
    <3>1. PICK v \in Works : v.id = page.work /\ Fits(v, h)  BY <2>1 DEF Guarded, CallIsHeld
    <3>2. page.pc \in WithWork \ {"confirm"}  BY <2>1 DEF WithWork, AtWallet
    <3>. QED  BY <1>9, <1>10, <2>1, <3>1, <3>2
  <2>2. CASE page.pc \notin AtWallet /\ ~told'
    <3>1. PICK v \in Works : Listed(v) /\ StandsFor(v, h)
      BY <1>11, <2>2 DEF Guarded, CallIsHeld
    <3>2. ASSUME v.id = w.id  PROVE FALSE
      <4>1. v = w  BY <1>8, <3>2
      <4>2. w.steps[Len(w.steps)].status = "broadcast" /\ w.steps[Len(w.steps)].hash \in {h, None}
        BY <3>1, <4>1 DEF StandsFor, CallSent, LastOf
      <4>3. j = Len(w.steps)  BY <1>4, <4>2
      <4>4. w.steps[j].hash = h /\ last  BY <1>1, <1>6, <4>2, <4>3
      <4>5. txs[h].state \in {"success", "reverted"}  BY <1>1, <4>4, Receipts
      <4>6. txs[h].state = "success"  BY <4>5 DEF Calls
      <4>. QED  BY <1>1, <2>2, <4>4, <4>6
    <3>. QED  BY <1>9, <2>2, <3>1, <3>2
  <2>. QED  BY <2>1, <2>2
<1>14. RecordIsKept'
  <2>1. CASE page.pc \in WithWork \ {"confirm"}
    <3>1. PICK v \in Works : v.id = page.work /\ v.age # "old"  BY <2>1 DEF Guarded, RecordIsKept
    <3>. QED  BY <1>1, <1>9, <1>10, <2>1, <3>1 DEF RecordIsKept
  <2>2. CASE page.pc = "confirm" /\ page.index # Len(page.planned) /\ txs[page.hash].state # "reverted"
    <3>1. PICK v \in Works : v.id = page.work /\ v.age # "old"  BY <2>2 DEF Guarded, RecordIsKept
    <3>2. CASE v.id # w.id  BY <1>1, <1>9, <3>1, <3>2 DEF RecordIsKept
    <3>3. CASE v.id = w.id
      <4>1. v = w /\ Owned(w) /\ page.index \in 1 .. Len(page.planned) /\ Len(w.steps) = Len(page.planned)
        BY <1>8, <2>2, <3>1, <3>3, InRun DEF WithWork, Owned
      <4>2. j = page.index
        <5>1. page.index \in 1 .. Len(w.steps) /\ ReachedStep(w.steps, page.index)
          BY <4>1 DEF Owned
        <5>2. j < page.index \/ j = page.index \/ j > page.index  BY <1>3, <5>1
        <5>. QED  BY <1>1, <1>3, <5>1, <5>2 DEF ReachedStep
      <4>3. w.steps[j].hash = page.hash  BY <1>1, <2>2, <4>1, <4>2 DEF Owned
      <4>4. ~last  BY <1>6, <2>2, <4>1, <4>2
      <4>. QED  BY <1>1, <1>9, <2>2, <3>1, <4>1, <4>3, <4>4 DEF RecordIsKept
    <3>. QED  BY <3>2, <3>3
  <2>. QED  BY <1>1, <1>7, <2>1, <2>2 DEF RecordIsKept
<1>15. LockIsFound'
  <2>1. \A v \in Works' : Blocking(v) => \E u \in Works : Blocking(u) /\ u.id = v.id
    BY <1>5, <1>9
  <2>. QED  BY <1>1, <2>1 DEF Guarded, LockIsFound
<1>16. SettlesCall'
  <2>1. page.pc \in {"checking", "look"} => ~told'  BY DEF Guarded, SettlesCall, Patient
  <2>. QED  BY <1>1, <1>7, <2>1 DEF Guarded, SettlesCall, StandsFor, CallSent, Fits, LastOf
<1>17. RequestIsKnown'
  <2>1. \A v \in Works : CallSent(v) /\ LastOf(v.steps).hash = None => v.id # w.id
    <3>. SUFFICES ASSUME CallSent(w), LastOf(w.steps).hash = None  PROVE FALSE
      BY <1>8
    <3>1. j = Len(w.steps)  BY <1>4 DEF CallSent, LastOf
    <3>. QED  BY <1>1, <3>1 DEF LastOf
  <2>. QED  BY <1>1, <1>9, <2>1 DEF Guarded, RequestIsKnown
<1>. QED  BY <1>12, <1>13, <1>14, <1>15, <1>16, <1>17 DEF Guarded

-----------------------------------------------------------------------------
\* Together.

LEMMA InitGuarded == Init => Guarded
<1>. SUFFICES ASSUME Init  PROVE Guarded  OBVIOUS
<1>1. store = <<>> /\ txs = <<>> /\ page = Idle /\ wallet = None /\ ~told
  BY DEF Init, ChainInit
<1>2. Works = {} /\ Calls = {} /\ page.pc = "ready"  BY <1>1 DEF Works, Calls, Hashes, Idle
<1>3. "ready" \notin Preflight \cup Settling \cup WithWork \cup AtWallet
  BY DEF Preflight, Settling, WithWork, AtWallet
<1>. QED  BY <1>1, <1>2, <1>3 DEF Guarded, OneCall, NoCallYet, CallIsOwn, CallIsHeld, RecordIsKept,
              LockIsFound, SettlesCall, RequestIsKnown

LEMMA StutterGuarded == Guarded /\ UNCHANGED browserVars => Guarded'
<1>. SUFFICES ASSUME Guarded, UNCHANGED browserVars  PROVE Guarded'  OBVIOUS
<1>1. UNCHANGED <<store, chainVars, page, wallet, told>>  BY DEF browserVars
<1>2. Works' = Works  BY <1>1 DEF Works
<1>3. Calls' = Calls /\ txs' = txs  BY <1>1, CallsStay
<1>. QED  BY <1>1, <1>2, <1>3 DEF Guarded, OneCall, NoCallYet, CallIsOwn, CallIsHeld, RecordIsKept,
              LockIsFound, SettlesCall, RequestIsKnown, StandsFor, CallSent, Fits, LastOf

LEMMA ReconcilesStays == [Next]_browserVars => reconciles' = reconciles
BY DEF Next, RunStep, Settle, Wallet, Chain, browserVars, aside, Landed, Press, Reload, PageEvicted,
       Refused, planApproval, LookForUnresolved, SettleByHash, SettleByEffect, SettleByNonce, Unresolved,
       SettleFails, OpenWork, Prepare, Tap, WalletAnswers, WalletConnectionLost, WalletTimeout,
       RecoverBroadcast, RecoveryEnds, Confirm, ReceiptWaitFails, Sign, Reject, ReconcileWork, TimePasses

LEMMA GuardedStays == Sound /\ reconciles /\ Guarded /\ [Next /\ Prudent]_browserVars => Guarded'
BY PressGuarded, ReloadGuarded, RefusedGuarded, PlanGuarded, LookGuarded, SettleGuarded, OpenGuarded,
   PrepareGuarded, LostGuarded, AnswersGuarded, ConfirmGuarded, WalletAppGuarded, ReconcileGuarded,
   TimeGuarded, ChainGuarded, StutterGuarded
   DEF Next, RunStep, Prudent

\* Of one call at most the account's money is gone once.
LEMMA GuardedPays ==
  ASSUME Sound, Guarded
  PROVE  Cardinality(Paid) <= 1
<1>1. \A g, h \in Paid : g = h  BY CallsAre DEF Guarded, OneCall, Sound, TypesOK
<1>2. CASE Paid = {}  BY <1>2, FS_EmptySet
<1>3. CASE Paid # {}
  <2>1. PICK h : Paid = {h}  BY <1>1, <1>3
  <2>. QED  BY <2>1, FS_Singleton
<1>. QED  BY <1>2, <1>3

LEMMA GuardedLocks ==
  ASSUME Sound, Guarded, reconciles
  PROVE  InFlightIsLocked
<1>. SUFFICES ASSUME NEW h \in Hashes, txs[h].kind = "call", h \in Pending \/ (h \in Paid /\ ~told),
                     page.pc \notin AtWallet
              PROVE  Locking(h)
  BY DEF InFlightIsLocked, AtWallet
<1>1. h \in Calls  BY DEF Calls, Pending, Paid
<1>2. ~told
  <2>1. SUFFICES ASSUME told  PROVE FALSE  OBVIOUS
  <2>2. PICK g : g \in Paid  BY <2>1 DEF Sound, ToldSound
  <2>3. g = h  BY <1>1, <2>2, CallsAre DEF Guarded, OneCall, Sound, TypesOK
  <2>. QED  BY <2>1, <2>2, <2>3 DEF Pending, Paid
<1>3. PICK w \in Works : Listed(w) /\ StandsFor(w, h)  BY <1>1, <1>2 DEF Guarded, CallIsHeld
<1>4. w \in WorkRecs /\ WorkSound(w)  BY WorksAre DEF Sound, TypesOK, StoreSound
<1>5. w.steps \in Seq(StepRecs) /\ Len(w.steps) \in DOMAIN w.steps
      /\ w.steps[Len(w.steps)].kind = "call"
  BY <1>4, WorkFields DEF WorkSound, Shaped
<1>6. w \in listPendingWork  BY <1>3 DEF listPendingWork, Works
<1>. QED  BY <1>3, <1>5, <1>6 DEF Locking, StandsFor, CallSent, LastOf

LEMMA PrudentInvariant == PrudentSpec => [](Sound /\ (reconciles => Guarded))
<1>1. Init => Sound /\ (reconciles => Guarded)  BY InitSound, InitGuarded
<1>2. Sound /\ (reconciles => Guarded) /\ [Next /\ Prudent]_browserVars
      => (Sound /\ (reconciles => Guarded))'
  <2>. SUFFICES ASSUME Sound, reconciles => Guarded, [Next /\ Prudent]_browserVars
                PROVE  Sound' /\ (reconciles' => Guarded')
    OBVIOUS
  <2>1. [Next]_browserVars  OBVIOUS
  <2>2. Sound' /\ reconciles' = reconciles  BY <2>1, SoundStays, ReconcilesStays
  <2>. QED  BY <2>2, GuardedStays
<1>. QED  BY <1>1, <1>2, PTL DEF PrudentSpec

\* A prudent person pays once, whatever replies are lost, transactions dropped or
\* locks settled (settleStaleWork, recoverAmbiguousWalletBroadcast).
THEOREM PaidOnceByPrudence == PrudentSpec => []PaidOnce
<1>1. Sound /\ (reconciles => Guarded) => PaidOnce  BY GuardedPays DEF PaidOnce
<1>. QED  BY PrudentInvariant, <1>1, PTL

\* What may still execute, or did and nobody was told, is behind a lock that the
\* next attempt finds (pendingWork.ts, findPendingBroadcast).
THEOREM InFlightIsLockedByPrudence == PrudentSpec => []InFlightIsLocked
<1>1. Sound /\ (reconciles => Guarded) => InFlightIsLocked
  BY GuardedLocks DEF InFlightIsLocked
<1>. QED  BY PrudentInvariant, <1>1, PTL
=============================================================================
