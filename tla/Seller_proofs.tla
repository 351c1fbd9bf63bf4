---------------------------- MODULE Seller_proofs ----------------------------
(***************************************************************************)
(* The intake, the registry and the auctions, for any stones, workers and  *)
(* limits.  Of any behaviour: what reaches the registry was received, the  *)
(* day's limit holds, and rounds are counted only after they were opened   *)
(* (SellerInv).  When a claim outlives its run (KeptSpec): the package of  *)
(* the row is what is registered (KeptAndNamed).  When what nobody         *)
(* recorded is settled before the next attempt as well (SettledSpec): a    *)
(* stone is registered once, and its row follows its sale (OnceAndSold).   *)
(***************************************************************************)
EXTENDS AuctionRefresh, FiniteSetTheorems, WellFoundedInduction, TLAPS

-----------------------------------------------------------------------------
(* The inductive invariant. *)

RowFields ==
  {"status", "activation", "started", "stale", "attempts", "pkg", "floor", "hash", "gem", "appraised", "bank",
   "mode", "minted"}
PackageOf(s) == {s} \X Nat
Packages == Submissions \X Nat

\* A registration may be out only with a package.
RowSound(s, r) ==
  /\ DOMAIN r = RowFields /\ r.appraised \in BOOLEAN /\ r.bank \in BOOLEAN
  /\ r.pkg = None \/ r.pkg \in PackageOf(s)
  /\ registrationMayHaveBeenSent(r) => r.pkg \in PackageOf(s)
RowsSound == row = [s \in Submissions |-> row[s]] /\ \A s \in Submissions : RowSound(s, row[s])

Values(q) == {q[i] : i \in DOMAIN q}
IsSeq(q) == q \in Seq(Values(q))
TypesOf(l) == {l.events[i].type : i \in DOMAIN l.events}
\* The row says received and appraised exactly when the log does.
LogsAgree ==
  /\ log = [s \in Submissions |-> log[s]] /\ \A s \in Submissions : IsSeq(log[s].events)
  /\ \A s \in Submissions : /\ row[s].appraised <=> "gem_appraised" \in TypesOf(log[s])
                            /\ row[s].bank <=> "bank_receipt_recorded" \in TypesOf(log[s])

\* Each appraisal of the day is of a stone of its own.
AppraisalsCounted ==
  /\ IsFiniteSet(appraisals) /\ Cardinality(appraisals) <= DailyLimit
  /\ \A a \in appraisals : a = <<a[1], a[2]>> /\ a[1] \in Submissions /\ row[a[1]].appraised
  /\ \A a, b \in appraisals : a[1] = b[1] => a = b

\* Every registered gem took one of the registrations that were sent.
Registering == {tx \in pending : tx.fn = "registerGem"}
OtherFns ==
  {"setSellerApproval", "confirmCustody", "verifyGem", "listGem", "createDailyAuction", "cancelAuction",
   "settleAuction", "setPrimarySaleMode", "mintToSeller"}
RegistryCounted ==
  /\ IsSeq(gems) /\ opened \in Seq(Nat) /\ Len(opened) = Len(gems)
  /\ \A g \in DOMAIN gems : "pkg" \in DOMAIN gems[g]
  /\ IsFiniteSet(pending) /\ sent \in 0..MaxSent /\ \A tx \in pending : tx.fn \in OtherFns \cup {"registerGem"}
  /\ Cardinality(Registering) + Len(gems) <= sent

\* What is registered, or about to be, belongs to a stone the bank received.
Received(p) == p \in Packages /\ row[p[1]].appraised /\ row[p[1]].bank
RegistryReceived ==
  /\ \A tx \in Registering : Received(tx.arg)
  /\ \A g \in DOMAIN gems : Received(gems[g].pkg)

CyclesCounted ==
  /\ cycle \in [Gems -> [rounds : Nat, exhausted : BOOLEAN]]
  /\ \A g \in DOMAIN gems : cycle[g].rounds <= opened[g]
  /\ \A g \in Gems \ DOMAIN gems : cycle[g].rounds = 0

World == RowsSound /\ LogsAgree /\ AppraisalsCounted /\ RegistryCounted /\ RegistryReceived /\ CyclesCounted

\* What a run holds.
StaffRun(r) ==
  /\ DOMAIN r = {"pc", "s", "key", "version", "from"} /\ r.s \in Submissions
  /\ r.pc \in {"appraise", "reject", "receive", "withdrawal"}
LeavingRun(r) == DOMAIN r = {"pc", "s"} /\ r.pc = "withdrawn" /\ r.s \in Submissions
ActivationPcs ==
  {"prepare", "publish", "claim", "lease", "approve", "recover", "floor", "register", "hash", "registered",
   "advance", "advanced", "mint", "activated", "event", "release", "wait"}
ActivationRun(r) ==
  /\ DOMAIN r = {"pc", "s", "version", "read", "kind", "prior", "gem", "status", "tx", "then"}
  /\ r.kind = "activation" /\ r.s \in Submissions /\ r.pc \in ActivationPcs
  /\ r.pc = "wait" => r.then \in {"recover", "advanced", "mint"}
  /\ row[r.s].appraised /\ row[r.s].bank
  /\ r.pc \notin {"prepare", "publish"} => row[r.s].pkg \in PackageOf(r.s) /\ r.read.pkg \in PackageOf(r.s)
SweepRun(r) ==
  /\ DOMAIN r = {"pc", "kind", "gem", "auction", "rounds", "tx", "then"} /\ r.kind = "sweep"
  /\ r.pc \in {"sweep", "settled", "count", "clear", "create", "counted", "release", "wait"}
  /\ r.pc = "wait" => r.then \in {"settled", "create", "counted"}
  /\ r.pc = "wait" /\ r.then = "counted" => r.tx.fn = "createDailyAuction" /\ r.tx.arg = r.gem
  /\ r.gem \in 1..Len(opened) /\ r.rounds \in Nat /\ r.rounds <= opened[r.gem]
  /\ r.pc = "counted" => r.rounds + 1 <= opened[r.gem]
SwitchRun(r) ==
  /\ DOMAIN r = {"pc", "kind", "s", "read", "gem", "status", "tx", "then"} /\ r.kind = "switch"
  /\ r.s \in Submissions /\ r.pc \in {"switch", "end", "set", "mode", "mint", "release", "wait"}
  /\ r.pc = "wait" => r.then \in {"set", "mode", "mint"}
RunSound(r) == r = Idle \/ StaffRun(r) \/ LeavingRun(r) \/ ActivationRun(r) \/ SweepRun(r) \/ SwitchRun(r)
RunsSound == run = [w \in Workers |-> run[w]] /\ \A w \in Workers : RunSound(run[w])

SellerInv == World /\ RunsSound

-----------------------------------------------------------------------------
(* Sequences, logs and transactions. *)

LEMMA Appending ==
  ASSUME NEW q, IsSeq(q), NEW e
  PROVE  LET t == Append(q, e) IN
         /\ IsSeq(t) /\ Len(t) = Len(q) + 1 /\ Len(q) \in Nat /\ DOMAIN q = 1..Len(q) /\ DOMAIN t = 1..(Len(q) + 1)
         /\ t[Len(q) + 1] = e /\ \A i \in DOMAIN q : t[i] = q[i]
<1>1. PICK V : V = Values(q) \cup {e}  OBVIOUS
<1>2. q \in Seq(V) /\ e \in V
  <2>1. q \in Seq(Values(q)) /\ Values(q) \subseteq V  BY <1>1 DEF IsSeq
  <2>. QED  BY <2>1, <1>1
<1>3. PICK t : t = Append(q, e)  OBVIOUS
<1>4. /\ t \in Seq(V) /\ Len(t) = Len(q) + 1 /\ Len(q) \in Nat /\ DOMAIN q = 1..Len(q) /\ DOMAIN t = 1..(Len(q) + 1)
      /\ t[Len(q) + 1] = e /\ \A i \in DOMAIN q : t[i] = q[i]
  BY <1>2, <1>3
<1>5. IsSeq(t)
  <2>1. t \in [1..(Len(q) + 1) -> Values(t)]
    <3>1. \A i \in DOMAIN t : t[i] \in Values(t)  BY DEF Values
    <3>. QED  BY <1>4, <3>1
  <2>. QED  BY <2>1, <1>4 DEF IsSeq
<1>. QED  BY <1>3, <1>4, <1>5

LEMMA Replacing ==
  ASSUME NEW q, IsSeq(q), NEW i, NEW x
  PROVE  LET t == [q EXCEPT ![i] = x] IN
         /\ IsSeq(t) /\ Len(t) = Len(q) /\ DOMAIN t = DOMAIN q /\ DOMAIN q = 1..Len(q) /\ Len(q) \in Nat
         /\ i \in DOMAIN q => t[i] = x
         /\ \A j \in DOMAIN q : j # i => t[j] = q[j]
<1>1. PICK t : t = [q EXCEPT ![i] = x]  OBVIOUS
<1>2. Len(q) \in Nat /\ DOMAIN q = 1..Len(q) /\ q = [j \in DOMAIN q |-> q[j]]  BY DEF IsSeq
<1>3. /\ DOMAIN t = 1..Len(q) /\ t = [j \in 1..Len(q) |-> t[j]]
      /\ i \in DOMAIN q => t[i] = x
      /\ \A j \in DOMAIN q : j # i => t[j] = q[j]
  BY <1>1, <1>2
<1>4. t \in [1..Len(q) -> Values(t)]
  <2>1. \A j \in DOMAIN t : t[j] \in Values(t)  BY DEF Values
  <2>. QED  BY <1>3, <2>1
<1>5. IsSeq(t) /\ Len(t) = Len(q)  BY <1>2, <1>4 DEF IsSeq
<1>. QED  BY <1>1, <1>2, <1>3, <1>5

\* An event that was appended, or is there from an earlier attempt, is on the
\* log; nothing else is new on it.
LEMMA EventsAppended ==
  ASSUME NEW l, IsSeq(l.events), NEW n, NEW key, NEW type, NEW from, NEW to, NEW pay
  PROVE  LET res == AppendWorkflowEvent(l, n, WorkflowEvent(key, type, from, to, pay)) IN
         /\ res.ok \in BOOLEAN
         /\ res.ok => IsSeq(res.log.events) /\ TypesOf(res.log) = TypesOf(l) \cup {type}
<1>1. PICK ev : ev = WorkflowEvent(key, type, from, to, pay)  OBVIOUS
<1>2. ev.type = type  BY <1>1 DEF WorkflowEvent
<1>3. PICK res : res = AppendWorkflowEvent(l, n, ev)  OBVIOUS
<1>4. CASE Recorded(l, ev.key)
  <2>1. res.ok \in BOOLEAN /\ (res.ok => res.log = l /\ SameEvent(l, n, ev))
    BY <1>3, <1>4 DEF AppendWorkflowEvent, Appended, Conflict
  <2>2. SameEvent(l, n, ev) => type \in TypesOf(l)  BY <1>2 DEF SameEvent, TypesOf
  <2>. QED  BY <1>1, <1>3, <2>1, <2>2
<1>5. CASE ~Recorded(l, ev.key)
  <2>1. res.ok \in BOOLEAN /\ (res.ok => res.log.events = Append(l.events, ev))
    BY <1>3, <1>5 DEF AppendWorkflowEvent, Appended, Conflict
  <2>2. ASSUME res.ok  PROVE IsSeq(res.log.events) /\ TypesOf(res.log) = TypesOf(l) \cup {type}
    <3>1. PICK t : t = res.log.events  OBVIOUS
    <3>2. PICK q : q = l.events  OBVIOUS
    <3>3. t = Append(q, ev)  BY <2>1, <2>2, <3>1, <3>2
    <3>4. /\ IsSeq(t) /\ Len(q) \in Nat /\ DOMAIN q = 1..Len(q) /\ DOMAIN t = 1..(Len(q) + 1)
          /\ t[Len(q) + 1] = ev /\ \A i \in DOMAIN q : t[i] = q[i]
      BY <3>2, <3>3, Appending
    <3>5. DOMAIN t = DOMAIN q \cup {Len(q) + 1}  BY <3>4
    <3>6. {t[i].type : i \in DOMAIN t} = {q[i].type : i \in DOMAIN q} \cup {type}  BY <3>4, <3>5, <1>2
    <3>. QED  BY <3>1, <3>2, <3>4, <3>6 DEF TypesOf
  <2>. QED  BY <1>1, <1>3, <2>1, <2>2
<1>. QED  BY <1>4, <1>5

LEMMA TxIs == ASSUME NEW fn, NEW arg, NEW by  PROVE Tx(fn, arg, by).fn = fn /\ Tx(fn, arg, by).arg = arg
BY DEF Tx

-----------------------------------------------------------------------------
(* What a step leaves as it was. *)

\* The rows, but for what no part of the invariant speaks of.
RowKept(s, r, n) ==
  /\ DOMAIN n = RowFields /\ n.appraised = r.appraised /\ n.bank = r.bank /\ n.pkg = r.pkg
  /\ registrationMayHaveBeenSent(n) => registrationMayHaveBeenSent(r) \/ r.pkg \in PackageOf(s)
RowsKept == row' = [s \in Submissions |-> row'[s]] /\ \A s \in Submissions : RowKept(s, row[s], row'[s])
\* The registry, but for transactions that register nothing.
RegistryKept ==
  /\ UNCHANGED <<gems, opened, sent>>
  /\ pending' = pending \/ \E tx : tx.fn \in OtherFns /\ pending' = pending \cup {tx}
\* Nothing a run relies on is taken back.
Growing ==
  /\ \A s \in Submissions : /\ row[s].appraised => row'[s].appraised
                            /\ row[s].bank => row'[s].bank
                            /\ row[s].pkg \in PackageOf(s) => row'[s].pkg \in PackageOf(s)
  /\ Len(opened) <= Len(opened') /\ Len(opened) \in Nat /\ Len(opened') \in Nat
  /\ \A g \in 1..Len(opened) : opened[g] \in Nat /\ opened'[g] \in Nat /\ opened[g] <= opened'[g]

LEMMA SameRows == ASSUME RowsSound, row' = row  PROVE RowsKept
BY DEF RowsSound, RowSound, RowsKept, RowKept

LEMMA OneRow ==
  ASSUME RowsSound, NEW s \in Submissions, NEW n, row' = [row EXCEPT ![s] = n], RowKept(s, row[s], n)
  PROVE  RowsKept
BY DEF RowsSound, RowSound, RowsKept, RowKept

LEMMA RowsStaySound == ASSUME RowsSound, RowsKept  PROVE RowsSound'
BY DEF RowsSound, RowSound, RowsKept, RowKept

LEMMA CountStays == ASSUME RegistryCounted, RegistryKept  PROVE RegistryCounted' /\ Registering' = Registering
<1>1. Registering' = Registering  BY DEF RegistryKept, Registering, OtherFns
<1>2. IsFiniteSet(pending')
  <2>1. CASE pending' = pending  BY <2>1 DEF RegistryCounted
  <2>2. ASSUME NEW tx, pending' = pending \cup {tx}  PROVE IsFiniteSet(pending')
    BY <2>2, FS_AddElement DEF RegistryCounted
  <2>. QED  BY <2>1, <2>2 DEF RegistryKept
<1>. QED  BY <1>1, <1>2 DEF RegistryCounted, RegistryKept, IsSeq, Values

\* All of it but the log.
LEMMA RestStays ==
  ASSUME World, RowsKept, RegistryKept, UNCHANGED <<appraisals, cycle>>
  PROVE  /\ RowsSound' /\ AppraisalsCounted' /\ RegistryCounted' /\ RegistryReceived' /\ CyclesCounted'
         /\ Growing
<1>1. RowsSound'  BY RowsStaySound DEF World
<1>2. RegistryCounted' /\ Registering' = Registering  BY CountStays DEF World
<1>3. \A s \in Submissions : row'[s].appraised = row[s].appraised /\ row'[s].bank = row[s].bank /\ row'[s].pkg = row[s].pkg
  BY DEF RowsKept, RowKept
<1>4. AppraisalsCounted'  BY <1>3 DEF World, AppraisalsCounted
<1>5. RegistryReceived'
  <2>1. \A p : Received(p) => Received(p)'  BY <1>3 DEF Received, Packages
  <2>. QED  BY <1>2, <2>1 DEF World, RegistryReceived, RegistryKept
<1>6. CyclesCounted'  BY DEF World, CyclesCounted, RegistryKept, Gems
<1>7. Growing  BY <1>3 DEF World, RegistryCounted, RegistryKept, Growing
<1>. QED  BY <1>1, <1>2, <1>4, <1>5, <1>6, <1>7

LEMMA LogsStay == ASSUME World, RowsKept, log' = log  PROVE LogsAgree'
<1>1. \A s \in Submissions : row'[s].appraised = row[s].appraised /\ row'[s].bank = row[s].bank
  BY DEF RowsKept, RowKept
<1>. QED  BY <1>1 DEF World, LogsAgree, IsSeq, Values, TypesOf

LEMMA WorldStays ==
  ASSUME World, RowsKept, RegistryKept, UNCHANGED <<log, appraisals, cycle>>
  PROVE  World' /\ Growing
BY RestStays, LogsStay DEF World

LEMMA RunStays == ASSUME Growing, NEW r, RunSound(r)  PROVE RunSound(r)'
<1>1. CASE ActivationRun(r)  BY <1>1 DEF RunSound, ActivationRun, Growing
<1>2. CASE SweepRun(r)
  <2>1. r.gem \in 1..Len(opened') /\ r.rounds <= opened'[r.gem] /\ (r.pc = "counted" => r.rounds + 1 <= opened'[r.gem])
    BY <1>2 DEF SweepRun, Growing
  <2>. QED  BY <1>2, <2>1 DEF RunSound, SweepRun
<1>. QED  BY <1>1, <1>2 DEF RunSound, StaffRun, LeavingRun, SwitchRun

LEMMA RunsStay == ASSUME RunsSound, Growing, run' = run  PROVE RunsSound'
BY RunStays DEF RunsSound

\* One worker moves.
LEMMA RunMoves ==
  ASSUME RunsSound, Growing, NEW w \in Workers, NEW r, run' = [run EXCEPT ![w] = r], RunSound(r)'
  PROVE  RunsSound'
<1>1. run' = [v \in Workers |-> run'[v]] /\ run'[w] = r /\ \A v \in Workers \ {w} : run'[v] = run[v]  BY DEF RunsSound
<1>2. ASSUME NEW v \in Workers  PROVE RunSound(run[v])'
  <2>1. PICK x : x = run'[v]  OBVIOUS
  <2>2. RunSound(x)'
    <3>1. v = w => x = r  BY <1>1, <2>1
    <3>2. v # w => RunSound(x)  BY <1>1, <2>1 DEF RunsSound
    <3>. QED  BY <3>1, <3>2, RunStays
  <2>. QED  BY <2>1, <2>2
<1>. QED  BY <1>1, <1>2 DEF RunsSound

\* A worker that ends, or starts.
LEMMA IdleIsSound == RunSound(Idle)
BY DEF RunSound

\* A step of one worker that changes nothing the invariant counts.
LEMMA QuietMove ==
  ASSUME SellerInv, RowsKept, RegistryKept, UNCHANGED <<log, appraisals, cycle>>,
         NEW w \in Workers, NEW r, run' = [run EXCEPT ![w] = r], RunSound(r)
  PROVE  SellerInv'
BY WorldStays, RunMoves, RunStays DEF SellerInv
LEMMA QuietStep ==
  ASSUME SellerInv, RowsKept, RegistryKept, UNCHANGED <<log, appraisals, cycle, run>>
  PROVE  SellerInv'
BY WorldStays, RunsStay DEF SellerInv

-----------------------------------------------------------------------------
(* Whose step it is. *)

LEMMA ActivationsRun ==
  ASSUME SellerInv, NEW w \in Workers,
         \/ run[w].pc \in {"prepare", "publish", "claim", "lease", "approve", "recover", "floor", "register", "hash",
                           "registered", "advance", "advanced", "activated", "event"}
         \/ run[w].pc \in {"mint", "release", "wait"} /\ run[w].kind = "activation"
  PROVE  ActivationRun(run[w])
BY DEF SellerInv, RunsSound, RunSound, Idle, StaffRun, LeavingRun, SweepRun, SwitchRun

LEMMA SweepsRun ==
  ASSUME SellerInv, NEW w \in Workers,
         \/ run[w].pc \in {"sweep", "settled", "count", "clear", "create", "counted"}
         \/ run[w].pc \in {"release", "wait"} /\ run[w].kind = "sweep"
  PROVE  SweepRun(run[w])
BY DEF SellerInv, RunsSound, RunSound, Idle, StaffRun, LeavingRun, ActivationRun, ActivationPcs, SwitchRun

LEMMA SwitchesRun ==
  ASSUME SellerInv, NEW w \in Workers,
         \/ run[w].pc \in {"switch", "end", "set", "mode"}
         \/ run[w].pc \in {"mint", "release", "wait"} /\ run[w].kind = "switch"
  PROVE  SwitchRun(run[w])
BY DEF SellerInv, RunsSound, RunSound, Idle, StaffRun, LeavingRun, ActivationRun, ActivationPcs, SweepRun

LEMMA MintsRun == ASSUME SellerInv, NEW w \in Workers, run[w].pc = "mint"  PROVE ActivationRun(run[w]) \/ SwitchRun(run[w])
BY DEF SellerInv, RunsSound, RunSound, Idle, StaffRun, LeavingRun, SweepRun

LEMMA CallsRun ==
  ASSUME SellerInv, NEW w \in Workers, run[w].pc \in {"appraise", "reject", "receive", "withdrawal"}
  PROVE  StaffRun(run[w])
BY DEF SellerInv, RunsSound, RunSound, Idle, LeavingRun, ActivationRun, ActivationPcs, SweepRun, SwitchRun

-----------------------------------------------------------------------------
(* Runs that go on. *)

LEMMA ActivationGoes ==
  ASSUME NEW r, ActivationRun(r), r.pc \notin {"prepare", "publish"},
         NEW pc \in ActivationPcs \ {"wait"}
  PROVE  ActivationRun([r EXCEPT !.pc = pc])
BY DEF ActivationRun, ActivationPcs

LEMMA ActivationWaits ==
  ASSUME NEW r, ActivationRun(r), r.pc \notin {"prepare", "publish"}, NEW tx,
         NEW then \in {"recover", "advanced", "mint"}
  PROVE  ActivationRun([r EXCEPT !.tx = tx, !.pc = "wait", !.then = then])
BY DEF ActivationRun, ActivationPcs

LEMMA SweepGoes ==
  ASSUME NEW r, SweepRun(r), NEW pc \in {"sweep", "settled", "count", "clear", "create", "release"}
  PROVE  SweepRun([r EXCEPT !.pc = pc])
BY DEF SweepRun

LEMMA SweepWaits ==
  ASSUME NEW r, SweepRun(r), NEW tx, NEW then \in {"settled", "create", "counted"},
         then = "counted" => tx.fn = "createDailyAuction" /\ tx.arg = r.gem
  PROVE  SweepRun([r EXCEPT !.tx = tx, !.pc = "wait", !.then = then])
BY DEF SweepRun

LEMMA SwitchGoes ==
  ASSUME NEW r, SwitchRun(r), NEW pc \in {"switch", "end", "set", "mode", "mint", "release"}
  PROVE  SwitchRun([r EXCEPT !.pc = pc])
BY DEF SwitchRun

LEMMA SwitchWaits ==
  ASSUME NEW r, SwitchRun(r), NEW tx, NEW then \in {"set", "mode", "mint"}
  PROVE  SwitchRun([r EXCEPT !.tx = tx, !.pc = "wait", !.then = then])
BY DEF SwitchRun

\* A run that waits for a transaction.
Waits(w, tx, then) == run' = [run EXCEPT ![w] = [run[w] EXCEPT !.tx = tx, !.pc = "wait", !.then = then]]

\* A write that registers nothing.
LEMMA Writes ==
  ASSUME NEW w \in Workers, NEW fn \in OtherFns, NEW arg, NEW then, Write(w, fn, arg, then)
  PROVE  RegistryKept /\ \E tx : tx.fn = fn /\ tx.arg = arg /\ Waits(w, tx, then)
<1>1. PICK by : by = IF run[w].kind = "sweep" THEN w ELSE run[w].s  OBVIOUS
<1>2. PICK tx : tx = Tx(fn, arg, by)  OBVIOUS
<1>3. tx.fn = fn /\ tx.arg = arg  BY <1>2, TxIs
<1>4. Send(tx) /\ run' = [run EXCEPT ![w].tx = tx, ![w].pc = "wait", ![w].then = then]
  BY <1>1, <1>2 DEF Write
<1>5. RegistryKept  BY <1>3, <1>4 DEF Send, RegistryKept, OtherFns
<1>6. Waits(w, tx, then)  BY <1>4, Zenon DEF Waits
<1>. QED  BY <1>3, <1>5, <1>6

LEMMA Quiet == ASSUME Chain  PROVE RegistryKept
BY DEF Chain, chainVars, RegistryKept

LEMMA Goes == ASSUME NEW w \in Workers, NEW pc, Go(w, pc)  PROVE run' = [run EXCEPT ![w] = [run[w] EXCEPT !.pc = pc]]
BY DEF Go

LEMMA Ends == ASSUME NEW w \in Workers, End(w)  PROVE run' = [run EXCEPT ![w] = Idle]
BY DEF End

\* The row a step records.
LEMMA Persists ==
  ASSUME SellerInv, NEW s \in Submissions, NEW new, persistStep(s, new),
         DOMAIN new = RowFields, new.appraised = row[s].appraised, new.bank = row[s].bank, new.pkg = row[s].pkg,
         \/ row[s].pkg \in PackageOf(s)
         \/ new.gem = row[s].gem /\ new.hash = row[s].hash /\ new.floor = row[s].floor
  PROVE  RowsKept
<1>1. RowKept(s, row[s], new)  BY DEF RowKept, registrationMayHaveBeenSent
<1>2. row' = [row EXCEPT ![s] = new] /\ RowsSound  BY DEF persistStep, SellerInv, World
<1>. QED  BY <1>1, <1>2, OneRow

\* A failed attempt's row.
LEMMA FailedRow ==
  ASSUME SellerInv, NEW s \in Submissions,
         persistStep(s, [row[s] EXCEPT !.activation = "failed", !.started = None, !.stale = FALSE])
  PROVE  RowsKept
<1>1. PICK n : n = [row[s] EXCEPT !.activation = "failed", !.started = None, !.stale = FALSE]  OBVIOUS
<1>2. DOMAIN row[s] = RowFields  BY DEF SellerInv, World, RowsSound, RowSound
<1>3. /\ DOMAIN n = RowFields /\ n.appraised = row[s].appraised /\ n.bank = row[s].bank /\ n.pkg = row[s].pkg
      /\ n.gem = row[s].gem /\ n.hash = row[s].hash /\ n.floor = row[s].floor
  BY <1>1, <1>2 DEF RowFields
<1>. QED  BY <1>1, <1>3, Persists

-----------------------------------------------------------------------------
(* The activation. *)

LEMMA StartKeeps ==
  ASSUME SellerInv, cycle' = cycle, NEW w \in Workers, NEW s \in Submissions, StartActivation(w, s)  PROVE SellerInv'
<1>1. PICK r : r = [pc |-> "prepare", s |-> s, version |-> log[s].version, read |-> row[s], kind |-> "activation",
                    prior |-> 0, gem |-> None, status |-> 0, tx |-> None, then |-> "none"]
  OBVIOUS
<1>2. run' = [run EXCEPT ![w] = r]  BY <1>1 DEF StartActivation, Begin
<1>3. ActivationRun(r)  BY <1>1 DEF StartActivation, ActivationRun, ActivationPcs
<1>4. RowsKept  BY SameRows DEF StartActivation, SellerInv, World
<1>. QED  BY <1>2, <1>3, <1>4, Quiet, QuietMove DEF StartActivation, OffChain, RunSound

LEMMA PrepareFailsKeeps == ASSUME SellerInv, cycle' = cycle, NEW w \in Workers, PrepareFails(w)  PROVE SellerInv'
<1>1. ActivationRun(run[w])  BY ActivationsRun DEF PrepareFails
<1>2. RowsKept  BY <1>1, FailedRow DEF PrepareFails, ActivationRun
<1>. QED  BY <1>2, Ends, Quiet, QuietMove, IdleIsSound DEF PrepareFails, OffChain

LEMMA PrepareReadsKeeps == ASSUME SellerInv, cycle' = cycle, NEW w \in Workers, PrepareReads(w)  PROVE SellerInv'
<1>1. ActivationRun(run[w])  BY ActivationsRun DEF PrepareReads
<1>2. PICK row0 : row0 = row[run[w].s]  OBVIOUS
<1>3. PICK pc : pc = IF commitmentMayBeRebuilt(row0) THEN "publish" ELSE "claim"  OBVIOUS
<1>4. PICK r : r = [run[w] EXCEPT !.read = row0, !.pc = pc]  OBVIOUS
<1>5. run' = [run EXCEPT ![w] = r]  BY <1>2, <1>3, <1>4 DEF PrepareReads
<1>6. pc = "claim" => row0.pkg \in PackageOf(run[w].s)
  BY <1>1, <1>2, <1>3 DEF commitmentMayBeRebuilt, SellerInv, World, RowsSound, RowSound, ActivationRun
<1>7. ActivationRun(r)  BY <1>1, <1>2, <1>3, <1>4, <1>6 DEF ActivationRun, ActivationPcs
<1>8. RowsKept  BY SameRows DEF PrepareReads, SellerInv, World
<1>. QED  BY <1>5, <1>7, <1>8, Quiet, QuietMove DEF PrepareReads, OffChain, RunSound

LEMMA PublishKeeps == ASSUME SellerInv, cycle' = cycle, NEW w \in Workers, Publish(w)  PROVE SellerInv'
<1>. DEFINE s == run[w].s
<1>1. ActivationRun(run[w]) /\ s \in Submissions  BY ActivationsRun DEF Publish, ActivationRun
<1>2. CASE ~(NotRunning(row[s]) /\ commitmentMayBeRebuilt(row[s]))
  <2>1. RowsKept  BY <1>2, SameRows DEF Publish, SellerInv, World
  <2>2. End(w)  BY <1>2 DEF Publish
  <2>. QED  BY <2>1, <2>2, Ends, Quiet, QuietMove, IdleIsSound DEF Publish, OffChain
<1>3. CASE NotRunning(row[s]) /\ commitmentMayBeRebuilt(row[s])
  <2>1. PICK n : n = Prepared(s)  OBVIOUS
  <2>2. row' = [row EXCEPT ![s] = n]  BY <1>3, <2>1 DEF Publish
  <2>3. RowSound(s, row[s])  BY <1>1 DEF SellerInv, World, RowsSound
  <2>4. NextPackage(s) \in PackageOf(s)  BY <2>3 DEF NextPackage, RowSound, PackageOf
  <2>5. n = [row[s] EXCEPT !.pkg = NextPackage(s), !.activation = "prepared"]  BY <2>1 DEF Prepared
  <2>6. RowSound(s, n) /\ n.appraised = row[s].appraised /\ n.bank = row[s].bank /\ n.pkg \in PackageOf(s)
    BY <2>3, <2>4, <2>5 DEF RowSound, RowFields
  <2>7. RowsSound'  BY <1>1, <2>2, <2>6 DEF SellerInv, World, RowsSound
  <2>8. \A x \in Submissions : row'[x].appraised = row[x].appraised /\ row'[x].bank = row[x].bank
    BY <2>2, <2>6 DEF SellerInv, World, RowsSound
  <2>9. UNCHANGED <<log, appraisals, cycle, chainVars>>  BY DEF Publish, OffChain, Chain
  <2>10. World'
    <3>1. LogsAgree'  BY <2>8, <2>9 DEF SellerInv, World, LogsAgree, IsSeq, Values, TypesOf
    <3>2. AppraisalsCounted'  BY <2>8, <2>9 DEF SellerInv, World, AppraisalsCounted
    <3>3. RegistryCounted'  BY <2>9 DEF SellerInv, World, RegistryCounted, Registering, IsSeq, Values, chainVars
    <3>4. RegistryReceived'
      BY <2>8, <2>9 DEF SellerInv, World, RegistryReceived, Registering, Received, Packages, chainVars
    <3>5. CyclesCounted'  BY <2>9 DEF SellerInv, World, CyclesCounted, Gems, chainVars
    <3>. QED  BY <2>7, <3>1, <3>2, <3>3, <3>4, <3>5 DEF World
  <2>11. Growing
    <3>1. \A x \in Submissions : row[x].pkg \in PackageOf(x) => row'[x].pkg \in PackageOf(x)
      BY <2>2, <2>6 DEF SellerInv, World, RowsSound
    <3>. QED  BY <2>8, <2>9, <3>1 DEF SellerInv, World, RegistryCounted, Growing, chainVars
  <2>12. PICK r : r = [run[w] EXCEPT !.read = n, !.pc = "claim"]  OBVIOUS
  <2>13. row'[s] = n  BY <1>1, <2>2 DEF SellerInv, World, RowsSound
  <2>14. run' = [run EXCEPT ![w] = r]  BY <1>3, <2>12, <2>13 DEF Publish
  <2>15. ActivationRun(r)'
    <3>1. r.s = s /\ r.read = n /\ r.pc = "claim" /\ r.kind = "activation" /\ DOMAIN r = DOMAIN run[w]
      BY <1>1, <2>12 DEF ActivationRun
    <3>. QED  BY <1>1, <2>6, <2>13, <3>1 DEF ActivationRun, ActivationPcs
  <2>. QED  BY <2>10, <2>11, <2>14, <2>15, RunMoves DEF SellerInv, RunSound
<1>. QED  BY <1>2, <1>3

LEMMA ClaimKeeps == ASSUME SellerInv, cycle' = cycle, NEW w \in Workers, Claim(w)  PROVE SellerInv'
<1>. DEFINE s == run[w].s  read == run[w].read
<1>1. ActivationRun(run[w]) /\ s \in Submissions /\ run[w].pc = "claim"  BY ActivationsRun DEF Claim, ActivationRun
<1>2. CASE ~Claimable(row[s], read)
  <2>1. RowsKept  BY <1>2, SameRows DEF Claim, SellerInv, World
  <2>2. End(w)  BY <1>2 DEF Claim
  <2>. QED  BY <2>1, <2>2, Ends, Quiet, QuietMove, IdleIsSound DEF Claim, OffChain
<1>3. CASE Claimable(row[s], read)
  <2>1. PICK n : n = [row[s] EXCEPT !.activation = "registering", !.stale = FALSE,
                                    !.started = CHOOSE moment \in Moments(s) : TRUE, !.attempts = read.attempts + 1]
    OBVIOUS
  <2>2. row' = [row EXCEPT ![s] = n]  BY <1>3, <2>1 DEF Claim
  <2>3. DOMAIN row[s] = RowFields /\ RowsSound  BY <1>1 DEF SellerInv, World, RowsSound, RowSound
  <2>4. RowKept(s, row[s], n)  BY <2>1, <2>3 DEF RowKept, RowFields, registrationMayHaveBeenSent
  <2>5. RowsKept  BY <1>1, <2>2, <2>3, <2>4, OneRow
  <2>6. PICK r : r = [run[w] EXCEPT !.prior = read.attempts, !.pc = "lease"]  OBVIOUS
  <2>7. run' = [run EXCEPT ![w] = r]  BY <1>3, <2>6 DEF Claim
  <2>8. ActivationRun(r)  BY <1>1, <2>6 DEF ActivationRun, ActivationPcs
  <2>. QED  BY <2>5, <2>7, <2>8, Quiet, QuietMove DEF Claim, OffChain, RunSound
<1>. QED  BY <1>2, <1>3

LEMMA LeaseKeeps == ASSUME SellerInv, cycle' = cycle, NEW w \in Workers, Lease(w)  PROVE SellerInv'
<1>1. ActivationRun(run[w]) /\ run[w].pc = "lease"  BY ActivationsRun DEF Lease
<1>2. PICK r : r = [run[w] EXCEPT !.read = row[run[w].s], !.pc = "approve"]  OBVIOUS
<1>3. run' = [run EXCEPT ![w] = r]  BY <1>2 DEF Lease
<1>4. ActivationRun(r)  BY <1>1, <1>2 DEF ActivationRun, ActivationPcs
<1>5. RowsKept  BY SameRows DEF Lease, SellerInv, World
<1>. QED  BY <1>3, <1>4, <1>5, Quiet, QuietMove DEF Lease, OffChain, RunSound

LEMMA FailKeeps == ASSUME SellerInv, cycle' = cycle, NEW w \in Workers, Fail(w)  PROVE SellerInv'
<1>1. ActivationRun(run[w]) /\ run[w].pc \notin {"prepare", "publish"}
  BY ActivationsRun DEF Fail, Claimed
<1>2. RowsKept  BY <1>1, FailedRow DEF Fail, ActivationRun
<1>3. CASE run[w].pc = "lease"
  <2>1. End(w)  BY <1>3 DEF Fail
  <2>. QED  BY <1>2, <2>1, Ends, Quiet, QuietMove, IdleIsSound DEF Fail, OffChain
<1>4. CASE run[w].pc # "lease"
  <2>1. Go(w, "release")  BY <1>4 DEF Fail
  <2>2. ActivationRun([run[w] EXCEPT !.pc = "release"])  BY <1>1, ActivationGoes DEF ActivationPcs
  <2>. QED  BY <1>2, <2>1, <2>2, Goes, Quiet, QuietMove DEF Fail, OffChain, RunSound
<1>. QED  BY <1>3, <1>4

LEMMA ApproveKeeps == ASSUME SellerInv, cycle' = cycle, NEW w \in Workers, Approve(w)  PROVE SellerInv'
<1>1. ActivationRun(run[w]) /\ run[w].pc = "approve"  BY ActivationsRun DEF Approve
<1>2. RowsKept  BY SameRows DEF Approve, SellerInv, World
<1>3. CASE approved
  <2>1. Go(w, "recover") /\ Chain  BY <1>3 DEF Approve
  <2>2. ActivationRun([run[w] EXCEPT !.pc = "recover"])  BY <1>1, ActivationGoes DEF ActivationPcs
  <2>. QED  BY <1>2, <2>1, <2>2, Goes, Quiet, QuietMove DEF Approve, OffChain, RunSound
<1>4. CASE ~approved
  <2>1. Write(w, "setSellerApproval", run[w].s, "recover")  BY <1>4 DEF Approve
  <2>2. RegistryKept /\ \E tx : Waits(w, tx, "recover")  BY <2>1, Writes DEF OtherFns
  <2>3. PICK tx : run' = [run EXCEPT ![w] = [run[w] EXCEPT !.tx = tx, !.pc = "wait", !.then = "recover"]]
    BY <2>2 DEF Waits
  <2>4. ActivationRun([run[w] EXCEPT !.tx = tx, !.pc = "wait", !.then = "recover"])  BY <1>1, ActivationWaits
  <2>. QED  BY <1>2, <2>2, <2>3, <2>4, QuietMove DEF Approve, OffChain, RunSound
<1>. QED  BY <1>3, <1>4

LEMMA RecoverKeeps == ASSUME SellerInv, cycle' = cycle, NEW w \in Workers, Recover(w)  PROVE SellerInv'
<1>. DEFINE s == run[w].s
<1>1. ActivationRun(run[w]) /\ run[w].pc = "recover" /\ s \in Submissions /\ row[s].pkg \in PackageOf(s)
  BY ActivationsRun DEF Recover, ActivationRun
<1>2. PICK gem : gem = IF run[w].read.gem # None THEN run[w].read.gem
                       ELSE IF run[w].prior > 0 \/ registrationMayHaveBeenSent(run[w].read)
                            THEN recoverRegisteredGem(run[w].read) ELSE None
  OBVIOUS
<1>3. PICK pc : pc = IF gem = None THEN "floor" ELSE "advance"  OBVIOUS
<1>4. PICK st : st = IF gem = None THEN 0 ELSE gems[gem].status  OBVIOUS
<1>5. PICK r : r = [run[w] EXCEPT !.gem = gem, !.pc = pc, !.status = st]  OBVIOUS
<1>6. run' = [run EXCEPT ![w] = r]
  <2>1. run' = [run EXCEPT ![w].gem = gem, ![w].pc = pc, ![w].status = st]  BY <1>2, <1>3, <1>4 DEF Recover
  <2>. QED  BY <2>1, <1>5, Zenon
<1>7. RowsKept
  <2>1. CASE UNCHANGED <<row, lease>>  BY <2>1, SameRows DEF SellerInv, World
  <2>2. CASE persistStep(s, [row[s] EXCEPT !.gem = gem, !.activation = "registered"])
    <3>1. PICK n : n = [row[s] EXCEPT !.gem = gem, !.activation = "registered"]  OBVIOUS
    <3>2. DOMAIN n = RowFields /\ n.appraised = row[s].appraised /\ n.bank = row[s].bank /\ n.pkg = row[s].pkg
      BY <1>1, <3>1 DEF RowFields, SellerInv, World, RowsSound, RowSound
    <3>. QED  BY <1>1, <2>2, <3>1, <3>2, Persists
  <2>3. \/ UNCHANGED <<row, lease>>
        \/ persistStep(s, [row[s] EXCEPT !.gem = gem, !.activation = "registered"])
    BY <1>2 DEF Recover
  <2>. QED  BY <2>1, <2>2, <2>3
<1>8. ActivationRun(r)  BY <1>1, <1>3, <1>5 DEF ActivationRun, ActivationPcs
<1>. QED  BY <1>6, <1>7, <1>8, Quiet, QuietMove DEF Recover, OffChain, RunSound

\* A step that records something in the row and goes on.
LEMMA RecordsAndGoes ==
  ASSUME SellerInv, cycle' = cycle, NEW w \in Workers, ActivationRun(run[w]), run[w].pc \notin {"prepare", "publish"},
         NEW pc \in ActivationPcs \ {"wait"}, Go(w, pc), OffChain, RegistryKept,
         NEW n, persistStep(run[w].s, n), DOMAIN n = RowFields, n.appraised = row[run[w].s].appraised,
         n.bank = row[run[w].s].bank, n.pkg = row[run[w].s].pkg
  PROVE  SellerInv'
<1>1. run[w].s \in Submissions /\ row[run[w].s].pkg \in PackageOf(run[w].s)  BY DEF ActivationRun
<1>2. RowsKept
  <2>1. PICK s : s = run[w].s  OBVIOUS
  <2>. QED  BY <1>1, <2>1, Persists
<1>3. ActivationRun([run[w] EXCEPT !.pc = pc])  BY ActivationGoes
<1>. QED  BY <1>2, <1>3, Goes, QuietMove DEF OffChain, RunSound

LEMMA RecordFloorKeeps == ASSUME SellerInv, cycle' = cycle, NEW w \in Workers, RecordFloor(w)  PROVE SellerInv'
<1>1. ActivationRun(run[w]) /\ run[w].pc = "floor"  BY ActivationsRun DEF RecordFloor
<1>2. PICK n : n = [row[run[w].s] EXCEPT !.floor = TRUE]  OBVIOUS
<1>3. /\ DOMAIN n = RowFields /\ n.appraised = row[run[w].s].appraised
      /\ n.bank = row[run[w].s].bank /\ n.pkg = row[run[w].s].pkg
  BY <1>1, <1>2 DEF RowFields, SellerInv, World, RowsSound, RowSound, ActivationRun
<1>4. "register" \in ActivationPcs \ {"wait"}  BY DEF ActivationPcs
<1>. QED  BY <1>1, <1>2, <1>3, <1>4, Quiet, RecordsAndGoes DEF RecordFloor

LEMMA RecordHashKeeps == ASSUME SellerInv, cycle' = cycle, NEW w \in Workers, RecordHash(w)  PROVE SellerInv'
<1>1. ActivationRun(run[w]) /\ run[w].pc = "hash"  BY ActivationsRun DEF RecordHash
<1>2. PICK n : n = [row[run[w].s] EXCEPT !.hash = run[w].tx]  OBVIOUS
<1>3. /\ DOMAIN n = RowFields /\ n.appraised = row[run[w].s].appraised
      /\ n.bank = row[run[w].s].bank /\ n.pkg = row[run[w].s].pkg
  BY <1>1, <1>2 DEF RowFields, SellerInv, World, RowsSound, RowSound, ActivationRun
<1>4. "registered" \in ActivationPcs \ {"wait"}  BY DEF ActivationPcs
<1>. QED  BY <1>1, <1>2, <1>3, <1>4, Quiet, RecordsAndGoes DEF RecordHash

\* The registration is sent with the package of the row that was read.
LEMMA Registers ==
  ASSUME SellerInv, cycle' = cycle, OffChain, RowsKept, NEW s \in Submissions, NEW pkg \in PackageOf(s), NEW by,
         row[s].appraised, row[s].bank, Send(Tx("registerGem", pkg, by))
  PROVE  World' /\ Growing
<1>1. PICK tx : tx = Tx("registerGem", pkg, by)  OBVIOUS
<1>2. tx.fn = "registerGem" /\ tx.arg = pkg  BY <1>1, TxIs
<1>3. /\ pending' = pending \cup {tx} /\ sent < MaxSent /\ sent' = sent + 1
      /\ UNCHANGED <<gems, opened>>
  BY <1>1, <1>2 DEF Send
<1>4. Registering' = Registering \cup {tx}  BY <1>2, <1>3 DEF Registering
<1>5. IsFiniteSet(pending) /\ IsFiniteSet(Registering)
  <2>1. IsFiniteSet(pending) /\ Registering \subseteq pending  BY DEF SellerInv, World, RegistryCounted, Registering
  <2>. QED  BY <2>1, FS_Subset
<1>6. /\ IsFiniteSet(pending')
      /\ Cardinality(Registering') <= Cardinality(Registering) + 1
      /\ Cardinality(Registering') \in Nat /\ Cardinality(Registering) \in Nat
  <2>1. IsFiniteSet(pending')  BY <1>3, <1>5, FS_AddElement
  <2>2. Cardinality(Registering) \in Nat  BY <1>5, FS_CardinalityType
  <2>3. PICK R : R = Registering  OBVIOUS
  <2>4. Cardinality(R \cup {tx}) = IF tx \in R THEN Cardinality(R) ELSE Cardinality(R) + 1
    BY <1>5, <2>3, FS_AddElement
  <2>. QED  BY <1>4, <2>1, <2>2, <2>3, <2>4
<1>7. \A x \in Submissions : /\ row'[x].appraised = row[x].appraised /\ row'[x].bank = row[x].bank
                             /\ row'[x].pkg = row[x].pkg
  BY DEF RowsKept, RowKept
<1>8. RowsSound' /\ LogsAgree'  BY RowsStaySound, LogsStay DEF SellerInv, World, OffChain
<1>9. AppraisalsCounted'  BY <1>7 DEF SellerInv, World, AppraisalsCounted, OffChain
<1>10. RegistryCounted'
  <2>1. Len(gems) \in Nat /\ sent \in 0..MaxSent /\ Cardinality(Registering) + Len(gems) <= sent
    BY DEF SellerInv, World, RegistryCounted, IsSeq
  <2>2. sent' \in 0..MaxSent /\ Cardinality(Registering') + Len(gems) <= sent'
    BY <1>3, <1>6, <2>1, LimitsAreCounts
  <2>3. \A x \in pending' : x.fn \in OtherFns \cup {"registerGem"}
    BY <1>2, <1>3 DEF SellerInv, World, RegistryCounted
  <2>. QED  BY <1>3, <1>6, <2>2, <2>3 DEF SellerInv, World, RegistryCounted, IsSeq, Values
<1>11. RegistryReceived'
  <2>1. \A p : Received(p) => Received(p)'  BY <1>7 DEF Received, Packages
  <2>2. Received(pkg)  BY DEF Received, Packages, PackageOf
  <2>. QED  BY <1>2, <1>3, <1>4, <2>1, <2>2 DEF SellerInv, World, RegistryReceived
<1>12. CyclesCounted'  BY <1>3 DEF SellerInv, World, CyclesCounted, Gems
<1>13. Growing  BY <1>3, <1>7 DEF SellerInv, World, RegistryCounted, Growing
<1>. QED  BY <1>8, <1>9, <1>10, <1>11, <1>12, <1>13 DEF World

LEMMA RegisterKeeps == ASSUME SellerInv, cycle' = cycle, NEW w \in Workers, Register(w)  PROVE SellerInv'
<1>1. ActivationRun(run[w]) /\ run[w].pc = "register"  BY ActivationsRun DEF Register
<1>2. PICK tx : tx = Tx("registerGem", run[w].read.pkg, run[w].s)  OBVIOUS
<1>3. PICK r : r = [run[w] EXCEPT !.tx = tx, !.pc = "hash"]  OBVIOUS
<1>4. run' = [run EXCEPT ![w] = r]  BY <1>2, <1>3 DEF Register
<1>5. ActivationRun(r)  BY <1>1, <1>3 DEF ActivationRun, ActivationPcs
<1>6. RowsKept  BY SameRows DEF Register, SellerInv, World
<1>7. World' /\ Growing  BY <1>1, <1>6, Registers DEF Register, ActivationRun
<1>. QED  BY <1>4, <1>5, <1>7, RunStays, RunMoves DEF SellerInv, RunSound

LEMMA RegisterReplyLostKeeps ==
  ASSUME SellerInv, cycle' = cycle, NEW w \in Workers, RegisterReplyLost(w)  PROVE SellerInv'
<1>1. ActivationRun(run[w]) /\ run[w].pc = "register"  BY ActivationsRun DEF RegisterReplyLost
<1>2. RowsKept  BY <1>1, FailedRow DEF RegisterReplyLost, ActivationRun
<1>3. World' /\ Growing  BY <1>1, <1>2, Registers DEF RegisterReplyLost, ActivationRun
<1>4. PICK r : r = [run[w] EXCEPT !.pc = "release"]  OBVIOUS
<1>5. run' = [run EXCEPT ![w] = r]  BY <1>4, Goes DEF RegisterReplyLost
<1>6. ActivationRun(r)  BY <1>1, <1>4, ActivationGoes DEF ActivationPcs
<1>. QED  BY <1>3, <1>5, <1>6, RunStays, RunMoves DEF SellerInv, RunSound

LEMMA RegisteredGemKeeps == ASSUME SellerInv, cycle' = cycle, NEW w \in Workers, RegisteredGem(w)  PROVE SellerInv'
<1>1. ActivationRun(run[w]) /\ run[w].pc = "registered"  BY ActivationsRun DEF RegisteredGem
<1>2. PICK rc \in ReceiptOf(run[w].tx) :
        /\ run' = [run EXCEPT ![w].gem = rc.gem, ![w].status = gems[rc.gem].status, ![w].pc = "advance"]
        /\ persistStep(run[w].s, [row[run[w].s] EXCEPT !.gem = rc.gem, !.activation = "registered"])
        /\ OffChain /\ Chain
  BY DEF RegisteredGem
<1>3. PICK r : r = [run[w] EXCEPT !.gem = rc.gem, !.status = gems[rc.gem].status, !.pc = "advance"]  OBVIOUS
<1>4. run' = [run EXCEPT ![w] = r]  BY <1>2, <1>3, Zenon
<1>5. ActivationRun(r)  BY <1>1, <1>3 DEF ActivationRun, ActivationPcs
<1>6. PICK s \in Submissions : s = run[w].s /\ row[s].pkg \in PackageOf(s)  BY <1>1 DEF ActivationRun
<1>7. PICK n : n = [row[s] EXCEPT !.gem = rc.gem, !.activation = "registered"]  OBVIOUS
<1>8. DOMAIN n = RowFields /\ n.appraised = row[s].appraised /\ n.bank = row[s].bank /\ n.pkg = row[s].pkg
  BY <1>7 DEF RowFields, SellerInv, World, RowsSound, RowSound
<1>9. RowsKept  BY <1>2, <1>6, <1>7, <1>8, Persists
<1>. QED  BY <1>2, <1>4, <1>5, <1>9, Quiet, QuietMove DEF OffChain, RunSound

LEMMA AdvanceKeeps == ASSUME SellerInv, cycle' = cycle, NEW w \in Workers, Advance(w)  PROVE SellerInv'
<1>1. ActivationRun(run[w]) /\ run[w].pc = "advance"  BY ActivationsRun DEF Advance
<1>2. PICK fn : fn = AdvanceFn(run[w].status).fn  OBVIOUS
<1>3. fn \in OtherFns  BY <1>2 DEF AdvanceFn, OtherFns
<1>4. PICK arg : arg = IF fn = "listGem" THEN <<run[w].gem, run[w].read.mode>> ELSE run[w].gem  OBVIOUS
<1>5. Write(w, fn, arg, "advanced")  BY <1>2, <1>4 DEF Advance
<1>6. RegistryKept /\ \E tx : Waits(w, tx, "advanced")  BY <1>3, <1>5, Writes
<1>7. PICK tx : run' = [run EXCEPT ![w] = [run[w] EXCEPT !.tx = tx, !.pc = "wait", !.then = "advanced"]]
  BY <1>6 DEF Waits
<1>8. ActivationRun([run[w] EXCEPT !.tx = tx, !.pc = "wait", !.then = "advanced"])  BY <1>1, ActivationWaits
<1>9. RowsKept  BY SameRows DEF Advance, SellerInv, World
<1>. QED  BY <1>6, <1>7, <1>8, <1>9, QuietMove DEF Advance, OffChain, RunSound

LEMMA AdvancedKeeps == ASSUME SellerInv, cycle' = cycle, NEW w \in Workers, Advanced(w)  PROVE SellerInv'
<1>1. ActivationRun(run[w]) /\ run[w].pc = "advanced"  BY ActivationsRun DEF Advanced
<1>2. PICK done : done = AdvanceFn(run[w].status).done  OBVIOUS
<1>3. PICK st : st = IF run[w].status < GemStatus.Listed THEN run[w].status + 1 ELSE run[w].status  OBVIOUS
<1>4. PICK r : r = [run[w] EXCEPT !.pc = "advance", !.status = st]  OBVIOUS
<1>5. run' = [run EXCEPT ![w] = r]
  <2>1. run' = [run EXCEPT ![w].pc = "advance",
                           ![w].status = IF run[w].status < GemStatus.Listed THEN @ + 1 ELSE @]
    BY DEF Advanced
  <2>2. w \in DOMAIN run /\ DOMAIN run[w] = {"pc", "s", "version", "read", "kind", "prior", "gem", "status", "tx", "then"}
    BY <1>1 DEF SellerInv, RunsSound, ActivationRun
  <2>. QED  BY <2>1, <2>2, <1>3, <1>4
<1>6. ActivationRun(r)  BY <1>1, <1>4 DEF ActivationRun, ActivationPcs
<1>7. PICK s \in Submissions : s = run[w].s /\ row[s].pkg \in PackageOf(s)  BY <1>1 DEF ActivationRun
<1>8. PICK n : n = [row[s] EXCEPT !.activation = done]  OBVIOUS
<1>9. DOMAIN n = RowFields /\ n.appraised = row[s].appraised /\ n.bank = row[s].bank /\ n.pkg = row[s].pkg
  BY <1>8 DEF RowFields, SellerInv, World, RowsSound, RowSound
<1>10. persistStep(s, n)  BY <1>2, <1>7, <1>8 DEF Advanced
<1>11. RowsKept  BY <1>7, <1>9, <1>10, Persists
<1>. QED  BY <1>5, <1>6, <1>11, Quiet, QuietMove DEF Advanced, OffChain, RunSound

LEMMA ListingDoneKeeps == ASSUME SellerInv, cycle' = cycle, NEW w \in Workers, ListingDone(w)  PROVE SellerInv'
<1>1. ActivationRun(run[w]) /\ run[w].pc = "advance"  BY ActivationsRun DEF ListingDone
<1>2. PICK s \in Submissions : s = run[w].s /\ row[s].pkg \in PackageOf(s)  BY <1>1 DEF ActivationRun
<1>3. CASE run[w].read.mode = "seller_mint"
  <2>1. Go(w, "mint") /\ row' = row  BY <1>3 DEF ListingDone
  <2>2. ActivationRun([run[w] EXCEPT !.pc = "mint"])  BY <1>1, ActivationGoes DEF ActivationPcs
  <2>3. RowsKept  BY <2>1, SameRows DEF SellerInv, World
  <2>. QED  BY <2>1, <2>2, <2>3, Goes, Quiet, QuietMove DEF ListingDone, OffChain, RunSound
<1>4. CASE run[w].read.mode # "seller_mint"
  <2>1. Go(w, "activated")  BY <1>4 DEF ListingDone
  <2>2. ActivationRun([run[w] EXCEPT !.pc = "activated"])  BY <1>1, ActivationGoes DEF ActivationPcs
  <2>3. PICK n : n = Finished(row[s], "auction")  OBVIOUS
  <2>4. persistStep(s, n)  BY <1>2, <1>4, <2>3 DEF ListingDone
  <2>5. n = [row[s] EXCEPT !.status = "registered", !.started = None, !.stale = FALSE, !.activation = "auction_created"]
    BY <2>3 DEF Finished
  <2>6. DOMAIN n = RowFields /\ n.appraised = row[s].appraised /\ n.bank = row[s].bank /\ n.pkg = row[s].pkg
    BY <2>5 DEF RowFields, SellerInv, World, RowsSound, RowSound
  <2>7. RowsKept  BY <1>2, <2>4, <2>6, Persists
  <2>. QED  BY <2>1, <2>2, <2>7, Goes, Quiet, QuietMove DEF ListingDone, OffChain, RunSound
<1>. QED  BY <1>3, <1>4

LEMMA MintKeeps == ASSUME SellerInv, cycle' = cycle, NEW w \in Workers, mintSellerGem(w)  PROVE SellerInv'
<1>1. run[w].pc = "mint" /\ OffChain  BY DEF mintSellerGem
<1>2. ActivationRun(run[w]) \/ SwitchRun(run[w])  BY <1>1, MintsRun
<1>3. PICK s \in Submissions : s = run[w].s  BY <1>2 DEF ActivationRun, SwitchRun
<1>4. PICK switching : switching = (run[w].kind = "switch")  OBVIOUS
<1>5. CASE Write(w, "mintToSeller", run[w].gem, "mint") /\ UNCHANGED <<row, lease>>
  <2>1. RegistryKept /\ \E tx : Waits(w, tx, "mint")  BY <1>5, Writes DEF OtherFns
  <2>2. PICK tx : run' = [run EXCEPT ![w] = [run[w] EXCEPT !.tx = tx, !.pc = "wait", !.then = "mint"]]
    BY <2>1 DEF Waits
  <2>3. RunSound([run[w] EXCEPT !.tx = tx, !.pc = "wait", !.then = "mint"])
    BY <1>1, <1>2, ActivationWaits, SwitchWaits DEF RunSound
  <2>4. RowsKept  BY <1>5, SameRows DEF SellerInv, World
  <2>. QED  BY <1>1, <2>1, <2>2, <2>3, <2>4, QuietMove DEF OffChain
<1>6. ASSUME NEW state, NEW old, old = row[s] \/ old = Finished(row[s], "seller_mint"),
             persistStep(s, [old EXCEPT !.activation = state, !.minted = (state = "minted")]),
             NEW pc \in {"release", "activated"}, pc = "activated" => ActivationRun(run[w]), Go(w, pc), Chain
      PROVE  SellerInv'
  <2>1. PICK n : n = [old EXCEPT !.activation = state, !.minted = (state = "minted")]  OBVIOUS
  <2>2. DOMAIN row[s] = RowFields  BY DEF SellerInv, World, RowsSound, RowSound
  <2>3. /\ DOMAIN old = RowFields /\ old.appraised = row[s].appraised /\ old.bank = row[s].bank /\ old.pkg = row[s].pkg
        /\ old.gem = row[s].gem /\ old.hash = row[s].hash /\ old.floor = row[s].floor
    <3>1. CASE old = row[s]  BY <2>2, <3>1
    <3>2. CASE old = Finished(row[s], "seller_mint")
      <4>1. PICK a : a = row[s].activation  OBVIOUS
      <4>2. old = [row[s] EXCEPT !.status = "registered", !.started = None, !.stale = FALSE, !.activation = a]
        BY <3>2, <4>1, <2>2 DEF Finished
      <4>. QED  BY <2>2, <4>2 DEF RowFields
    <3>. QED  BY <1>6, <3>1, <3>2
  <2>4. /\ DOMAIN n = RowFields /\ n.appraised = row[s].appraised /\ n.bank = row[s].bank /\ n.pkg = row[s].pkg
        /\ n.gem = row[s].gem /\ n.hash = row[s].hash /\ n.floor = row[s].floor
    BY <2>1, <2>3 DEF RowFields
  <2>5. RowsKept  BY <1>6, <2>1, <2>4, Persists
  <2>6. RunSound([run[w] EXCEPT !.pc = pc])
    <3>1. ActivationRun(run[w]) => ActivationRun([run[w] EXCEPT !.pc = pc])  BY <1>1, ActivationGoes DEF ActivationPcs
    <3>2. SwitchRun(run[w]) /\ pc = "release" => SwitchRun([run[w] EXCEPT !.pc = pc])  BY SwitchGoes
    <3>. QED  BY <1>2, <1>6, <3>1, <3>2 DEF RunSound
  <2>. QED  BY <1>1, <1>6, <2>5, <2>6, Goes, Quiet, QuietMove DEF OffChain
<1>7. CASE switching
  <2>1. \/ Write(w, "mintToSeller", run[w].gem, "mint") /\ UNCHANGED <<row, lease>>
        \/ \E state : /\ persistStep(s, [row[s] EXCEPT !.activation = state, !.minted = (state = "minted")])
                      /\ Go(w, "release") /\ Chain
    BY <1>3, <1>4, <1>7 DEF mintSellerGem
  <2>. QED  BY <1>5, <1>6, <2>1
<1>8. CASE ~switching
  <2>1. \/ Write(w, "mintToSeller", run[w].gem, "mint") /\ UNCHANGED <<row, lease>>
        \/ \E state : /\ persistStep(s, [Finished(row[s], "seller_mint")
                                         EXCEPT !.activation = state, !.minted = (state = "minted")])
                      /\ Go(w, "activated") /\ Chain
    BY <1>3, <1>4, <1>8 DEF mintSellerGem
  <2>2. ActivationRun(run[w])  BY <1>2, <1>4, <1>8 DEF SwitchRun
  <2>. QED  BY <1>5, <1>6, <2>1, <2>2
<1>. QED  BY <1>7, <1>8

LEMMA ActivatedKeeps == ASSUME SellerInv, cycle' = cycle, NEW w \in Workers, Activated(w)  PROVE SellerInv'
<1>1. ActivationRun(run[w]) /\ run[w].pc = "activated"  BY ActivationsRun DEF Activated
<1>2. ActivationRun([run[w] EXCEPT !.pc = "event"])  BY <1>1, ActivationGoes DEF ActivationPcs
<1>3. RowsKept  BY SameRows DEF Activated, SellerInv, World
<1>. QED  BY <1>2, <1>3, Goes, Quiet, QuietMove DEF Activated, OffChain, RunSound

\* A worker that ends with no write.
LEMMA EndKeeps ==
  ASSUME SellerInv, cycle' = cycle, NEW w \in Workers, End(w), row' = row, OffChain, Chain  PROVE SellerInv'
<1>1. RowsKept  BY SameRows DEF SellerInv, World
<1>. QED  BY <1>1, Ends, Quiet, QuietMove, IdleIsSound DEF OffChain

\* An event that neither receives nor appraises.
LEMMA EventKeeps ==
  ASSUME SellerInv, UNCHANGED <<row, appraisals, cycle, chainVars>>,
         NEW s \in Submissions, NEW l, IsSeq(l.events), log' = [log EXCEPT ![s] = l],
         "gem_appraised" \in TypesOf(l) <=> "gem_appraised" \in TypesOf(log[s]),
         "bank_receipt_recorded" \in TypesOf(l) <=> "bank_receipt_recorded" \in TypesOf(log[s])
  PROVE  World' /\ Growing
<1>1. RowsKept  BY SameRows DEF SellerInv, World
<1>2. RegistryKept  BY DEF chainVars, RegistryKept
<1>3. LogsAgree'
  <2>1. log' = [x \in Submissions |-> log'[x]] /\ log'[s] = l /\ \A x \in Submissions \ {s} : log'[x] = log[x]
    BY DEF SellerInv, World, LogsAgree
  <2>2. ASSUME NEW x \in Submissions
        PROVE  /\ IsSeq(log[x].events)'
               /\ (row[x].appraised <=> "gem_appraised" \in TypesOf(log[x]))'
               /\ (row[x].bank <=> "bank_receipt_recorded" \in TypesOf(log[x]))'
    <3>1. PICK k : k = log'[x]  OBVIOUS
    <3>2. /\ IsSeq(k.events)
          /\ row'[x].appraised <=> "gem_appraised" \in TypesOf(k)
          /\ row'[x].bank <=> "bank_receipt_recorded" \in TypesOf(k)
      BY <2>1, <3>1 DEF SellerInv, World, LogsAgree
    <3>. QED  BY <3>1, <3>2 DEF IsSeq, Values, TypesOf
  <2>. QED  BY <2>1, <2>2 DEF LogsAgree
<1>. QED  BY <1>1, <1>2, <1>3, RestStays DEF SellerInv, World

LEMMA ActivatedEventKeeps == ASSUME SellerInv, cycle' = cycle, NEW w \in Workers, ActivatedEvent(w)  PROVE SellerInv'
<1>1. ActivationRun(run[w])  BY ActivationsRun DEF ActivatedEvent
<1>2. PICK s \in Submissions : s = run[w].s  BY <1>1 DEF ActivationRun
<1>3. PICK e : e = AppendWorkflowEvent(log[s], run[w].version,
                     WorkflowEvent("activate", "seller_activated", "bank_received", "activated", run[w].gem))
  OBVIOUS
<1>4. e.ok => IsSeq(e.log.events) /\ TypesOf(e.log) = TypesOf(log[s]) \cup {"seller_activated"}
  BY <1>2, <1>3, EventsAppended DEF SellerInv, World, LogsAgree
<1>5. log' = IF e.ok THEN [log EXCEPT ![s] = e.log] ELSE log  BY <1>2, <1>3 DEF ActivatedEvent
<1>6. End(w) /\ row' = row /\ appraisals' = appraisals /\ Chain  BY DEF ActivatedEvent
<1>7. CASE e.ok
  <2>1. World' /\ Growing  BY <1>4, <1>5, <1>6, <1>7, EventKeeps DEF Chain
  <2>. QED  BY <1>6, <2>1, Ends, IdleIsSound, RunStays, RunMoves DEF SellerInv
<1>8. CASE ~e.ok  BY <1>5, <1>6, <1>8, EndKeeps DEF OffChain
<1>. QED  BY <1>7, <1>8

LEMMA ClaimGoesStaleKeeps ==
  ASSUME SellerInv, cycle' = cycle, NEW s \in Submissions, ClaimGoesStale(s)  PROVE SellerInv'
<1>1. PICK n : n = [row[s] EXCEPT !.stale = TRUE]  OBVIOUS
<1>2. row' = [row EXCEPT ![s] = n] /\ run' = run /\ OffChain /\ Chain  BY <1>1 DEF ClaimGoesStale
<1>3. RowKept(s, row[s], n)
  BY <1>1 DEF RowKept, RowFields, registrationMayHaveBeenSent, SellerInv, World, RowsSound, RowSound
<1>4. RowsKept  BY <1>2, <1>3, OneRow DEF SellerInv, World
<1>. QED  BY <1>2, <1>4, Quiet, QuietStep DEF OffChain

LEMMA ActivationKeeps == ASSUME SellerInv, ActivationNext, UNCHANGED cycle  PROVE SellerInv'
<1>1. ASSUME NEW w \in Workers, Release(w) \/ Die(w)  PROVE SellerInv'
  BY <1>1, EndKeeps DEF Release, Die
<1>2. ASSUME LeaseLapses  PROVE SellerInv'
  <2>1. RowsKept  BY <1>2, SameRows DEF LeaseLapses, SellerInv, World
  <2>. QED  BY <1>2, <2>1, Quiet, QuietStep DEF LeaseLapses, OffChain
<1>3. ASSUME NEW w \in Workers,
             \/ PrepareFails(w) \/ PrepareReads(w) \/ Publish(w) \/ Claim(w) \/ Lease(w) \/ Fail(w)
             \/ Approve(w) \/ Recover(w) \/ RecordFloor(w) \/ Register(w)
      PROVE  SellerInv'
  BY <1>3, PrepareFailsKeeps, PrepareReadsKeeps, PublishKeeps, ClaimKeeps, LeaseKeeps, FailKeeps, ApproveKeeps,
     RecoverKeeps, RecordFloorKeeps, RegisterKeeps
<1>4. ASSUME NEW w \in Workers,
             \/ RegisterReplyLost(w) \/ RecordHash(w) \/ RegisteredGem(w)
             \/ Advance(w) \/ Advanced(w) \/ ListingDone(w) \/ mintSellerGem(w)
             \/ Activated(w) \/ ActivatedEvent(w)
      PROVE  SellerInv'
  BY <1>4, RegisterReplyLostKeeps, RecordHashKeeps, RegisteredGemKeeps, AdvanceKeeps, AdvancedKeeps, ListingDoneKeeps,
     MintKeeps, ActivatedKeeps, ActivatedEventKeeps
<1>. QED  BY <1>1, <1>2, <1>3, <1>4, StartKeeps, ClaimGoesStaleKeeps DEF ActivationNext

-----------------------------------------------------------------------------
(* The intake. *)

\* A row and its log that change together.
LEMMA RecordKeeps ==
  ASSUME SellerInv, UNCHANGED <<cycle, chainVars>>, AppraisalsCounted', NEW s \in Submissions,
         NEW l, IsSeq(l.events), log' = [log EXCEPT ![s] = l],
         NEW n, row' = [row EXCEPT ![s] = n], RowSound(s, n), n.pkg = row[s].pkg,
         n.appraised <=> "gem_appraised" \in TypesOf(l), n.bank <=> "bank_receipt_recorded" \in TypesOf(l),
         row[s].appraised => n.appraised, row[s].bank => n.bank
  PROVE  World' /\ Growing
<1>1. /\ row' = [x \in Submissions |-> row'[x]] /\ row'[s] = n /\ \A x \in Submissions \ {s} : row'[x] = row[x]
      /\ log' = [x \in Submissions |-> log'[x]] /\ log'[s] = l /\ \A x \in Submissions \ {s} : log'[x] = log[x]
  BY DEF SellerInv, World, RowsSound, LogsAgree
<1>2. RowsSound'
  <2>1. ASSUME NEW x \in Submissions  PROVE RowSound(x, row[x])'
    <3>1. PICK k : k = row'[x]  OBVIOUS
    <3>2. RowSound(x, k)  BY <1>1, <3>1 DEF SellerInv, World, RowsSound
    <3>. QED  BY <3>1, <3>2 DEF RowSound, registrationMayHaveBeenSent
  <2>. QED  BY <1>1, <2>1 DEF RowsSound
<1>3. LogsAgree'
  <2>1. ASSUME NEW x \in Submissions
        PROVE  /\ IsSeq(log[x].events)'
               /\ (row[x].appraised <=> "gem_appraised" \in TypesOf(log[x]))'
               /\ (row[x].bank <=> "bank_receipt_recorded" \in TypesOf(log[x]))'
    <3>1. PICK k : k = log'[x]  OBVIOUS
    <3>2. /\ IsSeq(k.events)
          /\ row'[x].appraised <=> "gem_appraised" \in TypesOf(k)
          /\ row'[x].bank <=> "bank_receipt_recorded" \in TypesOf(k)
      BY <1>1, <3>1 DEF SellerInv, World, LogsAgree
    <3>. QED  BY <3>1, <3>2 DEF IsSeq, Values, TypesOf
  <2>. QED  BY <1>1, <2>1 DEF LogsAgree
<1>4. \A x \in Submissions : /\ row[x].appraised => row'[x].appraised
                             /\ row[x].bank => row'[x].bank
                             /\ row[x].pkg \in PackageOf(x) => row'[x].pkg \in PackageOf(x)
  BY <1>1
<1>5. RegistryCounted'  BY DEF SellerInv, World, RegistryCounted, Registering, IsSeq, Values, chainVars
<1>6. RegistryReceived'
  <2>1. \A p : Received(p) => Received(p)'  BY <1>4 DEF Received, Packages
  <2>. QED  BY <2>1 DEF SellerInv, World, RegistryReceived, Registering, chainVars
<1>7. CyclesCounted'  BY DEF SellerInv, World, CyclesCounted, Gems, chainVars
<1>8. Growing  BY <1>4 DEF SellerInv, World, RegistryCounted, Growing, chainVars
<1>. QED  BY <1>2, <1>3, <1>5, <1>6, <1>7, <1>8 DEF World

LEMMA SameAppraisals ==
  ASSUME SellerInv, appraisals' = appraisals, NEW s \in Submissions, NEW n, row' = [row EXCEPT ![s] = n],
         row[s].appraised => n.appraised
  PROVE  AppraisalsCounted'
<1>1. \A x \in Submissions : row[x].appraised => row'[x].appraised  BY DEF SellerInv, World, RowsSound
<1>. QED  BY <1>1 DEF SellerInv, World, AppraisalsCounted

LEMMA CreateKeeps ==
  ASSUME SellerInv, cycle' = cycle, NEW s \in Submissions, NEW mode, Create(s, mode)  PROVE SellerInv'
<1>1. PICK n : n = [row[s] EXCEPT !.status = "submitted", !.mode = mode]  OBVIOUS
<1>2. row' = [row EXCEPT ![s] = n] /\ UNCHANGED <<log, appraisals, run, chainVars>>
  <2>1. row' = [row EXCEPT ![s].status = "submitted", ![s].mode = mode]  BY DEF Create
  <2>2. row' = [row EXCEPT ![s] = n]  BY <1>1, <2>1, Zenon
  <2>. QED  BY <2>2 DEF Create
<1>3. RowKept(s, row[s], n)
  BY <1>1 DEF RowKept, RowFields, registrationMayHaveBeenSent, SellerInv, World, RowsSound, RowSound
<1>4. RowsKept  BY <1>2, <1>3, OneRow DEF SellerInv, World
<1>. QED  BY <1>2, <1>4, Quiet, QuietStep DEF Chain

LEMMA StatusKeeps ==
  ASSUME SellerInv, NEW s \in Submissions, NEW to, Status(s, to)  PROVE RowsKept
<1>1. PICK n : n = [row[s] EXCEPT !.status = to]  OBVIOUS
<1>2. row' = [row EXCEPT ![s] = n]  BY <1>1 DEF Status
<1>3. RowKept(s, row[s], n)
  BY <1>1 DEF RowKept, RowFields, registrationMayHaveBeenSent, SellerInv, World, RowsSound, RowSound
<1>. QED  BY <1>2, <1>3, OneRow DEF SellerInv, World

LEMMA DeskKeeps ==
  ASSUME SellerInv, cycle' = cycle, NEW s \in Submissions, Verify(s) \/ ConfirmCustody(s)  PROVE SellerInv'
<1>1. \E to : Status(s, to)  BY DEF Verify, ConfirmCustody
<1>2. UNCHANGED <<log, appraisals, run, chainVars>>  BY DEF Verify, ConfirmCustody
<1>3. RowsKept  BY <1>1, StatusKeeps
<1>. QED  BY <1>2, <1>3, Quiet, QuietStep DEF Chain

LEMMA CallIsSound ==
  ASSUME NEW pc \in {"appraise", "reject", "receive", "withdrawal"}, NEW s \in Submissions, NEW key
  PROVE  StaffRun(StaffCall(pc, s, key))
BY DEF StaffCall, StaffRun

LEMMA StaffKeeps ==
  ASSUME SellerInv, cycle' = cycle, NEW w \in Workers, NEW s \in Submissions, NEW key,
         NEW pc \in {"appraise", "reject", "receive"}, Staff(w, pc, s, key)
  PROVE  SellerInv'
<1>1. PICK r : r = StaffCall(pc, s, key)  OBVIOUS
<1>2. run' = [run EXCEPT ![w] = r]  BY <1>1 DEF Staff, Begin
<1>3. RunSound(r)  BY <1>1, CallIsSound DEF RunSound
<1>4. RowsKept  BY SameRows DEF Staff, SellerInv, World
<1>. QED  BY <1>2, <1>3, <1>4, Quiet, QuietMove DEF Staff, Chain

\* The event of a staff call.
LEMMA CallEvents ==
  ASSUME SellerInv, NEW c, c.s \in Submissions, NEW type, NEW to
  PROVE  /\ Event(c, type, to).ok \in BOOLEAN
         /\ Event(c, type, to).ok =>
              /\ IsSeq(Event(c, type, to).log.events)
              /\ TypesOf(Event(c, type, to).log) = TypesOf(log[c.s]) \cup {type}
BY EventsAppended DEF Event, SellerInv, World, LogsAgree

\* One more appraisal below the limit, of a stone that had none.
LEMMA AppraisalCounted ==
  ASSUME SellerInv, NEW s \in Submissions, NEW k, ~row[s].appraised, Cardinality(appraisals) < DailyLimit,
         appraisals' = appraisals \cup {<<s, k>>},
         row' = [x \in Submissions |-> row'[x]], row'[s].appraised,
         \A x \in Submissions \ {s} : row'[x] = row[x]
  PROVE  AppraisalsCounted'
<1>1. IsFiniteSet(appraisals) /\ \A a \in appraisals : a = <<a[1], a[2]>> /\ a[1] \in Submissions /\ row[a[1]].appraised
  BY DEF SellerInv, World, AppraisalsCounted
<1>2. \A a \in appraisals : a[1] # s  BY <1>1
<1>3. IsFiniteSet(appraisals') /\ Cardinality(appraisals') <= DailyLimit
  <2>1. IsFiniteSet(appraisals')  BY <1>1, FS_AddElement
  <2>2. Cardinality(appraisals \cup {<<s, k>>}) <= Cardinality(appraisals) + 1 /\ Cardinality(appraisals) \in Nat
    <3>1. PICK A, e : A = appraisals /\ e = <<s, k>>  OBVIOUS
    <3>2. Cardinality(A) \in Nat /\ Cardinality(A \cup {e}) = IF e \in A THEN Cardinality(A) ELSE Cardinality(A) + 1
      BY <1>1, <3>1, FS_AddElement, FS_CardinalityType
    <3>. QED  BY <3>1, <3>2
  <2>3. Cardinality(appraisals') \in Nat  BY <2>1, FS_CardinalityType
  <2>. QED  BY <2>1, <2>2, <2>3, LimitsAreCounts
<1>4. \A a \in appraisals' : a = <<a[1], a[2]>> /\ a[1] \in Submissions /\ row'[a[1]].appraised  BY <1>1, <1>2
<1>5. \A a, b \in appraisals' : a[1] = b[1] => a = b  BY <1>2 DEF SellerInv, World, AppraisalsCounted
<1>. QED  BY <1>3, <1>4, <1>5 DEF AppraisalsCounted

LEMMA AppraiseKeeps == ASSUME SellerInv, cycle' = cycle, NEW w \in Workers, record_gem_appraisal(w)  PROVE SellerInv'
<1>1. StaffRun(run[w])  BY CallsRun DEF record_gem_appraisal
<1>2. PICK c : c = run[w] /\ c.s \in Submissions  BY <1>1 DEF StaffRun
<1>3. PICK s \in Submissions : s = c.s  BY <1>2
<1>4. PICK e : e = Event(c, "gem_appraised", "appraised")  OBVIOUS
<1>5. e.ok => IsSeq(e.log.events) /\ TypesOf(e.log) = TypesOf(log[s]) \cup {"gem_appraised"}
  BY <1>2, <1>3, <1>4, CallEvents
<1>6. End(w) /\ UNCHANGED chainVars  BY DEF record_gem_appraisal
<1>7. CASE UNCHANGED <<row, log, appraisals>>  BY <1>6, <1>7, EndKeeps DEF OffChain, Chain
<1>8. CASE /\ ~row[s].appraised /\ Cardinality(appraisals) < DailyLimit /\ e.ok
           /\ appraisals' = appraisals \cup {<<s, c.key>>} /\ log' = [log EXCEPT ![s] = e.log]
           /\ row' = [row EXCEPT ![s].appraised = TRUE, ![s].status = IF row[s].bank THEN "approved" ELSE @]
  <2>1. PICK st : st = IF row[s].bank THEN "approved" ELSE row[s].status  OBVIOUS
  <2>2. PICK n : n = [row[s] EXCEPT !.appraised = TRUE, !.status = st]  OBVIOUS
  <2>3. RowSound(s, row[s]) /\ row = [x \in Submissions |-> row[x]]  BY DEF SellerInv, World, RowsSound
  <2>4. row' = [row EXCEPT ![s] = n]  BY <1>8, <2>1, <2>2, <2>3 DEF RowSound, RowFields
  <2>5. RowSound(s, n) /\ n.pkg = row[s].pkg /\ n.appraised /\ n.bank = row[s].bank
    BY <2>2, <2>3 DEF RowSound, RowFields, registrationMayHaveBeenSent
  <2>6. AppraisalsCounted'
    <3>1. row' = [x \in Submissions |-> row'[x]] /\ row'[s].appraised /\ \A x \in Submissions \ {s} : row'[x] = row[x]
      BY <2>3, <2>4, <2>5
    <3>. QED  BY <1>8, <3>1, AppraisalCounted
  <2>7. n.bank <=> "bank_receipt_recorded" \in TypesOf(e.log)
    BY <1>5, <1>8, <2>5 DEF SellerInv, World, LogsAgree
  <2>8. World' /\ Growing  BY <1>5, <1>6, <1>8, <2>4, <2>5, <2>6, <2>7, RecordKeeps
  <2>. QED  BY <1>6, <2>8, Ends, IdleIsSound, RunStays, RunMoves DEF SellerInv
<1>. QED  BY <1>2, <1>3, <1>4, <1>7, <1>8 DEF record_gem_appraisal

LEMMA RejectKeeps == ASSUME SellerInv, cycle' = cycle, NEW w \in Workers, reject_gem_submission(w)  PROVE SellerInv'
<1>1. StaffRun(run[w])  BY CallsRun DEF reject_gem_submission
<1>2. PICK c : c = run[w] /\ c.s \in Submissions  BY <1>1 DEF StaffRun
<1>3. PICK s \in Submissions : s = c.s  BY <1>2
<1>4. PICK e : e = Event(c, "gem_rejected", "rejected")  OBVIOUS
<1>5. e.ok => IsSeq(e.log.events) /\ TypesOf(e.log) = TypesOf(log[s]) \cup {"gem_rejected"}
  BY <1>2, <1>3, <1>4, CallEvents
<1>6. End(w) /\ UNCHANGED <<appraisals, chainVars>>  BY DEF reject_gem_submission
<1>7. CASE UNCHANGED <<row, log>>  BY <1>6, <1>7, EndKeeps DEF OffChain, Chain
<1>8. CASE e.ok /\ log' = [log EXCEPT ![s] = e.log] /\ Status(s, "rejected")
  <2>1. PICK n : n = [row[s] EXCEPT !.status = "rejected"]  OBVIOUS
  <2>2. row' = [row EXCEPT ![s] = n]  BY <1>8, <2>1 DEF Status
  <2>3. RowSound(s, row[s])  BY DEF SellerInv, World, RowsSound
  <2>4. RowSound(s, n) /\ n.pkg = row[s].pkg /\ n.appraised = row[s].appraised /\ n.bank = row[s].bank
    BY <2>1, <2>3 DEF RowSound, RowFields, registrationMayHaveBeenSent
  <2>5. /\ n.appraised <=> "gem_appraised" \in TypesOf(e.log)
        /\ n.bank <=> "bank_receipt_recorded" \in TypesOf(e.log)
    BY <1>5, <1>8, <2>4 DEF SellerInv, World, LogsAgree
  <2>6. AppraisalsCounted'  BY <1>6, <2>2, <2>4, SameAppraisals
  <2>7. World' /\ Growing  BY <1>5, <1>6, <1>8, <2>2, <2>4, <2>5, <2>6, RecordKeeps
  <2>. QED  BY <1>6, <2>7, Ends, IdleIsSound, RunStays, RunMoves DEF SellerInv
<1>. QED  BY <1>2, <1>3, <1>4, <1>7, <1>8 DEF reject_gem_submission

LEMMA ReceiptKeeps == ASSUME SellerInv, cycle' = cycle, NEW w \in Workers, record_bank_receipt(w)  PROVE SellerInv'
<1>1. StaffRun(run[w])  BY CallsRun DEF record_bank_receipt
<1>2. PICK c : c = run[w] /\ c.s \in Submissions  BY <1>1 DEF StaffRun
<1>3. PICK s \in Submissions : s = c.s  BY <1>2
<1>4. PICK e : e = Event(c, "bank_receipt_recorded", "bank_received")  OBVIOUS
<1>5. e.ok => IsSeq(e.log.events) /\ TypesOf(e.log) = TypesOf(log[s]) \cup {"bank_receipt_recorded"}
  BY <1>2, <1>3, <1>4, CallEvents
<1>6. End(w) /\ UNCHANGED <<appraisals, chainVars>>  BY DEF record_bank_receipt
<1>7. CASE UNCHANGED <<row, log>>  BY <1>6, <1>7, EndKeeps DEF OffChain, Chain
<1>8. CASE /\ e.ok /\ log' = [log EXCEPT ![s] = e.log]
           /\ row' = [row EXCEPT ![s].bank = TRUE, ![s].status = "approved"]
  <2>1. PICK n : n = [row[s] EXCEPT !.bank = TRUE, !.status = "approved"]  OBVIOUS
  <2>2. row' = [row EXCEPT ![s] = n]  BY <1>8, <2>1, Zenon
  <2>3. RowSound(s, row[s])  BY DEF SellerInv, World, RowsSound
  <2>4. RowSound(s, n) /\ n.pkg = row[s].pkg /\ n.appraised = row[s].appraised /\ n.bank
    BY <2>1, <2>3 DEF RowSound, RowFields, registrationMayHaveBeenSent
  <2>5. n.appraised <=> "gem_appraised" \in TypesOf(e.log)
    BY <1>5, <1>8, <2>4 DEF SellerInv, World, LogsAgree
  <2>6. AppraisalsCounted'  BY <1>6, <2>2, <2>4, SameAppraisals
  <2>7. World' /\ Growing  BY <1>5, <1>6, <1>8, <2>2, <2>4, <2>5, <2>6, RecordKeeps
  <2>. QED  BY <1>6, <2>7, Ends, IdleIsSound, RunStays, RunMoves DEF SellerInv
<1>. QED  BY <1>2, <1>3, <1>4, <1>7, <1>8 DEF record_bank_receipt

LEMMA WithdrawKeeps ==
  ASSUME SellerInv, cycle' = cycle, NEW w \in Workers, NEW s \in Submissions, Withdraw(w, s)  PROVE SellerInv'
<1>1. PICK r : r = [pc |-> "withdrawn", s |-> s]  OBVIOUS
<1>2. run' = [run EXCEPT ![w] = r] /\ LeavingRun(r)  BY <1>1 DEF Withdraw, Begin, LeavingRun
<1>3. RowsKept  BY StatusKeeps DEF Withdraw
<1>. QED  BY <1>2, <1>3, Quiet, QuietMove DEF Withdraw, Chain, RunSound

LEMMA WithdrawLoadsKeeps == ASSUME SellerInv, cycle' = cycle, NEW w \in Workers, WithdrawLoads(w)  PROVE SellerInv'
<1>1. run[w].s \in Submissions
  BY DEF WithdrawLoads, SellerInv, RunsSound, RunSound, Idle, StaffRun, LeavingRun, ActivationRun, ActivationPcs,
         SweepRun, SwitchRun
<1>2. PICK r : r = StaffCall("withdrawal", run[w].s, WithdrawKey(run[w].s))  OBVIOUS
<1>3. run' = [run EXCEPT ![w] = r] /\ StaffRun(r)  BY <1>1, <1>2, CallIsSound DEF WithdrawLoads
<1>4. RowsKept  BY SameRows DEF WithdrawLoads, SellerInv, World
<1>. QED  BY <1>3, <1>4, Quiet, QuietMove DEF WithdrawLoads, Chain, RunSound

LEMMA WithdrawEventKeeps == ASSUME SellerInv, cycle' = cycle, NEW w \in Workers, WithdrawEvent(w)  PROVE SellerInv'
<1>1. StaffRun(run[w])  BY CallsRun DEF WithdrawEvent
<1>2. PICK c : c = run[w] /\ c.s \in Submissions  BY <1>1 DEF StaffRun
<1>3. PICK s \in Submissions : s = c.s  BY <1>2
<1>4. PICK e : e = Event(c, "seller_withdrawn", "withdrawn")  OBVIOUS
<1>5. e.ok => IsSeq(e.log.events) /\ TypesOf(e.log) = TypesOf(log[s]) \cup {"seller_withdrawn"}
  BY <1>2, <1>3, <1>4, CallEvents
<1>6. log' = IF e.ok THEN [log EXCEPT ![s] = e.log] ELSE log  BY <1>2, <1>3, <1>4 DEF WithdrawEvent
<1>7. End(w) /\ UNCHANGED <<row, appraisals, chainVars>>  BY DEF WithdrawEvent
<1>8. CASE e.ok
  <2>1. World' /\ Growing  BY <1>5, <1>6, <1>7, <1>8, EventKeeps
  <2>. QED  BY <1>7, <2>1, Ends, IdleIsSound, RunStays, RunMoves DEF SellerInv
<1>9. CASE ~e.ok  BY <1>6, <1>7, <1>9, EndKeeps DEF OffChain, Chain
<1>. QED  BY <1>8, <1>9

LEMMA IntakeKeeps == ASSUME SellerInv, IntakeNext, UNCHANGED cycle  PROVE SellerInv'
<1>1. ASSUME NEW w \in Workers, NEW s \in Submissions,
             (\E k \in Keys : AppraiseBegins(w, s, k)) \/ RejectBegins(w, s) \/ ReceiptBegins(w, s)
      PROVE  SellerInv'
  BY <1>1, StaffKeeps DEF AppraiseBegins, RejectBegins, ReceiptBegins
<1>. QED
  BY <1>1, CreateKeeps, DeskKeeps, WithdrawKeeps, AppraiseKeeps, RejectKeeps, ReceiptKeeps, WithdrawLoadsKeeps,
     WithdrawEventKeeps DEF IntakeNext

-----------------------------------------------------------------------------
(* The auctions. *)

\* A step of the sweep or the switch that records nothing and goes on.
LEMMA SaleGoes ==
  ASSUME SellerInv, Record, cycle' = cycle, Chain, NEW w \in Workers, NEW pc, Go(w, pc),
         RunSound([run[w] EXCEPT !.pc = pc])
  PROVE  SellerInv'
<1>1. RowsKept  BY SameRows DEF Record, SellerInv, World
<1>. QED  BY <1>1, Goes, Quiet, QuietMove DEF Record

\* One that sends a transaction.
MayWait(w, fn, arg, then) ==
  \A tx : tx.fn = fn /\ tx.arg = arg => RunSound([run[w] EXCEPT !.tx = tx, !.pc = "wait", !.then = then])
LEMMA SaleSends ==
  ASSUME SellerInv, Record, cycle' = cycle, NEW w \in Workers, NEW fn \in OtherFns, NEW arg, NEW then,
         Write(w, fn, arg, then), MayWait(w, fn, arg, then)
  PROVE  SellerInv'
<1>1. RowsKept  BY SameRows DEF Record, SellerInv, World
<1>2. RegistryKept /\ \E tx : tx.fn = fn /\ tx.arg = arg /\ Waits(w, tx, then)  BY Writes
<1>3. PICK tx : tx.fn = fn /\ tx.arg = arg /\ Waits(w, tx, then)  BY <1>2
<1>4. RunSound([run[w] EXCEPT !.tx = tx, !.pc = "wait", !.then = then])  BY <1>3 DEF MayWait
<1>. QED  BY <1>1, <1>2, <1>3, <1>4, QuietMove DEF Record, Waits

LEMMA SweepClaimsKeeps ==
  ASSUME SellerInv, NEW w \in Workers, NEW g \in DOMAIN gems, SweepClaims(w, g)  PROVE SellerInv'
<1>1. PICK r : r = [pc |-> "sweep", kind |-> "sweep", gem |-> g, auction |-> NoAuction, rounds |-> 0, tx |-> None,
                    then |-> "none"]
  OBVIOUS
<1>2. run' = [run EXCEPT ![w] = r]  BY <1>1 DEF SweepClaims, Begin
<1>3. g \in 1..Len(opened) /\ opened[g] \in Nat  BY DEF SellerInv, World, RegistryCounted, IsSeq
<1>4. SweepRun(r)  BY <1>1, <1>3 DEF SweepRun
<1>5. RowsKept  BY SameRows DEF SweepClaims, Record, SellerInv, World
<1>. QED  BY <1>2, <1>4, <1>5, Quiet, QuietMove DEF SweepClaims, Record, RunSound

LEMMA SweepReadsKeeps == ASSUME SellerInv, NEW w \in Workers, SweepReads(w)  PROVE SellerInv'
<1>1. SweepRun(run[w]) /\ run[w].pc = "sweep"  BY SweepsRun DEF SweepReads
<1>2. Record /\ cycle' = cycle  BY DEF SweepReads
<1>3. CASE Go(w, "release") /\ Chain
  <2>1. SweepRun([run[w] EXCEPT !.pc = "release"])  BY <1>1, SweepGoes
  <2>. QED  BY <1>2, <1>3, <2>1, SaleGoes DEF RunSound
<1>4. CASE SweepWrite(w, "settleAuction", "settled")
  <2>1. \A tx : SweepRun([run[w] EXCEPT !.tx = tx, !.pc = "wait", !.then = "settled"])  BY <1>1, SweepWaits
  <2>. QED  BY <1>2, <1>4, <2>1, SaleSends DEF SweepWrite, RunSound, OtherFns, MayWait
<1>5. ASSUME NEW a, run' = [run EXCEPT ![w].auction = a, ![w].pc = "count"], Chain  PROVE SellerInv'
  <2>1. PICK r : r = [run[w] EXCEPT !.auction = a, !.pc = "count"]  OBVIOUS
  <2>2. run' = [run EXCEPT ![w] = r]  BY <1>5, <2>1, Zenon
  <2>3. SweepRun(r)  BY <1>1, <2>1 DEF SweepRun
  <2>4. RowsKept  BY <1>2, SameRows DEF Record, SellerInv, World
  <2>. QED  BY <1>2, <1>5, <2>2, <2>3, <2>4, Quiet, QuietMove DEF Record, RunSound
<1>. QED  BY <1>3, <1>4, <1>5 DEF SweepReads

LEMMA SweepSettledKeeps == ASSUME SellerInv, NEW w \in Workers, SweepSettled(w)  PROVE SellerInv'
<1>1. SweepRun(run[w])  BY SweepsRun DEF SweepSettled
<1>2. SweepRun([run[w] EXCEPT !.pc = "release"]) /\ SweepRun([run[w] EXCEPT !.pc = "count"])  BY <1>1, SweepGoes
<1>. QED  BY <1>2, SaleGoes DEF SweepSettled, RunSound

\* The counts, when no round that was not opened is counted.
LEMMA CycleKeeps ==
  ASSUME SellerInv, Record, Chain, NEW w \in Workers, NEW r, run' = [run EXCEPT ![w] = r], RunSound(r), CyclesCounted'
  PROVE  SellerInv'
<1>1. RowsKept  BY SameRows DEF Record, SellerInv, World
<1>2. \A x \in Submissions : row'[x] = row[x]  BY DEF Record
<1>3. RowsSound' /\ LogsAgree'  BY <1>1, RowsStaySound, LogsStay DEF Record, SellerInv, World
<1>4. RegistryCounted' /\ Registering' = Registering  BY Quiet, CountStays DEF SellerInv, World
<1>5. AppraisalsCounted'  BY DEF Record, SellerInv, World, AppraisalsCounted
<1>6. RegistryReceived'
  BY <1>4 DEF Record, SellerInv, World, RegistryReceived, Received, Packages, Chain, chainVars
<1>7. World'  BY <1>3, <1>4, <1>5, <1>6 DEF World
<1>8. Growing  BY <1>2 DEF SellerInv, World, RegistryCounted, Growing, Chain, chainVars
<1>. QED  BY <1>7, <1>8, RunStays, RunMoves DEF SellerInv

LEMMA SweepCountsKeeps == ASSUME SellerInv, NEW w \in Workers, SweepCounts(w)  PROVE SellerInv'
<1>. DEFINE g == run[w].gem
<1>1. SweepRun(run[w]) /\ run[w].pc = "count" /\ Record /\ Chain  BY SweepsRun DEF SweepCounts
<1>2. g \in DOMAIN gems /\ g \in DOMAIN opened /\ opened[g] \in Nat
  BY <1>1 DEF SweepRun, SellerInv, World, RegistryCounted, IsSeq
<1>3. Len(gems) \in 0..MaxSent /\ DOMAIN gems = 1..Len(gems)
  <2>1. Cardinality(Registering) \in Nat
    <3>1. IsFiniteSet(pending) /\ Registering \subseteq pending  BY DEF SellerInv, World, RegistryCounted, Registering
    <3>. QED  BY <3>1, FS_Subset, FS_CardinalityType
  <2>. QED  BY <2>1, LimitsAreCounts DEF SellerInv, World, RegistryCounted, IsSeq
<1>4. g \in Gems /\ cycle[g].rounds \in Nat /\ cycle[g].rounds <= opened[g]
  BY <1>2, <1>3, LimitsAreCounts DEF Gems, SellerInv, World, CyclesCounted
<1>5. CASE cycle' = [cycle EXCEPT ![g].exhausted = TRUE] /\ Go(w, "release")
  <2>1. CyclesCounted'
    <3>1. /\ cycle' \in [Gems -> [rounds : Nat, exhausted : BOOLEAN]]
          /\ \A x \in Gems : cycle'[x].rounds = cycle[x].rounds
      BY <1>4, <1>5 DEF SellerInv, World, CyclesCounted
    <3>2. DOMAIN gems \subseteq Gems  BY <1>3, LimitsAreCounts DEF Gems
    <3>. QED  BY <1>1, <3>1, <3>2 DEF SellerInv, World, CyclesCounted, Gems, Chain, chainVars
  <2>2. SweepRun([run[w] EXCEPT !.pc = "release"])  BY <1>1, SweepGoes
  <2>. QED  BY <1>1, <1>5, <2>1, <2>2, Goes, CycleKeeps DEF RunSound
<1>6. CASE cycle' = cycle /\ run' = [run EXCEPT ![w].pc = "clear", ![w].rounds = cycle[g].rounds]
  <2>1. PICK r : r = [run[w] EXCEPT !.pc = "clear", !.rounds = cycle[g].rounds]  OBVIOUS
  <2>2. run' = [run EXCEPT ![w] = r]  BY <1>6, <2>1, Zenon
  <2>3. SweepRun(r)  BY <1>1, <1>4, <2>1 DEF SweepRun
  <2>4. CyclesCounted'  BY <1>1, <1>6 DEF SellerInv, World, CyclesCounted, Gems, Chain, chainVars
  <2>. QED  BY <1>1, <2>2, <2>3, <2>4, CycleKeeps DEF RunSound
<1>. QED  BY <1>5, <1>6 DEF SweepCounts

LEMMA SweepClearsKeeps == ASSUME SellerInv, NEW w \in Workers, SweepClears(w)  PROVE SellerInv'
<1>1. SweepRun(run[w]) /\ Record /\ cycle' = cycle  BY SweepsRun DEF SweepClears
<1>2. CASE SweepWrite(w, "cancelAuction", "create")
  <2>1. \A tx : SweepRun([run[w] EXCEPT !.tx = tx, !.pc = "wait", !.then = "create"])  BY <1>1, SweepWaits
  <2>. QED  BY <1>1, <1>2, <2>1, SaleSends DEF SweepWrite, RunSound, OtherFns, MayWait
<1>3. CASE Go(w, "create") /\ Chain
  <2>1. SweepRun([run[w] EXCEPT !.pc = "create"])  BY <1>1, SweepGoes
  <2>. QED  BY <1>1, <1>3, <2>1, SaleGoes DEF RunSound
<1>. QED  BY <1>2, <1>3 DEF SweepClears

LEMMA SweepCreatesKeeps == ASSUME SellerInv, NEW w \in Workers, SweepCreates(w)  PROVE SellerInv'
<1>1. SweepRun(run[w]) /\ Record /\ cycle' = cycle  BY SweepsRun DEF SweepCreates
<1>2. \A tx : tx.fn = "createDailyAuction" /\ tx.arg = run[w].gem =>
        SweepRun([run[w] EXCEPT !.tx = tx, !.pc = "wait", !.then = "counted"])
  BY <1>1, SweepWaits
<1>3. Write(w, "createDailyAuction", run[w].gem, "counted")  BY DEF SweepCreates, SweepWrite
<1>. QED  BY <1>1, <1>2, <1>3, SaleSends DEF RunSound, OtherFns, MayWait

LEMMA SweepUpsertsKeeps == ASSUME SellerInv, NEW w \in Workers, SweepUpserts(w)  PROVE SellerInv'
<1>. DEFINE g == run[w].gem
<1>1. SweepRun(run[w]) /\ run[w].pc = "counted" /\ Record /\ Chain  BY SweepsRun DEF SweepUpserts
<1>2. g \in DOMAIN gems /\ run[w].rounds + 1 \in Nat /\ run[w].rounds + 1 <= opened[g]
  BY <1>1 DEF SweepRun, SellerInv, World, RegistryCounted, IsSeq
<1>3. cycle' = [cycle EXCEPT ![g].rounds = run[w].rounds + 1] /\ Go(w, "release")  BY DEF SweepUpserts
<1>4. CyclesCounted'
  <2>1. /\ cycle' \in [Gems -> [rounds : Nat, exhausted : BOOLEAN]]
        /\ \A x \in Gems \ {g} : cycle'[x].rounds = cycle[x].rounds
        /\ g \in Gems => cycle'[g].rounds = run[w].rounds + 1
    BY <1>2, <1>3 DEF SellerInv, World, CyclesCounted
  <2>2. DOMAIN gems \subseteq Gems
    <3>1. IsFiniteSet(pending) /\ Registering \subseteq pending  BY DEF SellerInv, World, RegistryCounted, Registering
    <3>2. Cardinality(Registering) \in Nat  BY <3>1, FS_Subset, FS_CardinalityType
    <3>. QED  BY <3>2, LimitsAreCounts DEF SellerInv, World, RegistryCounted, IsSeq, Gems
  <2>. QED  BY <1>1, <1>2, <2>1, <2>2 DEF SellerInv, World, CyclesCounted, Gems, Chain, chainVars
<1>5. SweepRun([run[w] EXCEPT !.pc = "release"])  BY <1>1, SweepGoes
<1>. QED  BY <1>1, <1>3, <1>4, <1>5, Goes, CycleKeeps DEF RunSound

LEMMA SweepEndsKeeps == ASSUME SellerInv, NEW w \in Workers, SweepFails(w) \/ SweepReleases(w)  PROVE SellerInv'
<1>1. CASE SweepFails(w)
  <2>1. SweepRun(run[w])  BY <1>1, SweepsRun DEF SweepFails
  <2>2. SweepRun([run[w] EXCEPT !.pc = "release"])  BY <2>1, SweepGoes
  <2>. QED  BY <1>1, <2>2, SaleGoes DEF SweepFails, RunSound
<1>2. CASE SweepReleases(w)  BY <1>2, EndKeeps DEF SweepReleases, Record, OffChain
<1>. QED  BY <1>1, <1>2

LEMMA SwitchBeginsKeeps ==
  ASSUME SellerInv, NEW w \in Workers, NEW s \in Submissions, SwitchBegins(w, s)  PROVE SellerInv'
<1>1. PICK r : r = [pc |-> "switch", kind |-> "switch", s |-> s, read |-> row[s], gem |-> row[s].gem,
                    status |-> GemStatus.Listed, tx |-> None, then |-> "none"]
  OBVIOUS
<1>2. run' = [run EXCEPT ![w] = r]  BY <1>1 DEF SwitchBegins, Begin
<1>3. SwitchRun(r)  BY <1>1 DEF SwitchRun
<1>4. RowsKept  BY SameRows DEF SwitchBegins, Record, SellerInv, World
<1>. QED  BY <1>2, <1>3, <1>4, Quiet, QuietMove DEF SwitchBegins, Record, RunSound

LEMMA SwitchReadsKeeps == ASSUME SellerInv, NEW w \in Workers, SwitchReads(w)  PROVE SellerInv'
<1>1. SwitchRun(run[w])  BY SwitchesRun DEF SwitchReads
<1>2. \A pc \in {"mode", "release", "end", "set"} : RunSound([run[w] EXCEPT !.pc = pc])  BY <1>1, SwitchGoes DEF RunSound
<1>3. \E pc \in {"mode", "release", "end", "set"} : Go(w, pc)  BY DEF SwitchReads
<1>. QED  BY <1>2, <1>3, SaleGoes DEF SwitchReads

LEMMA SwitchSendsKeeps == ASSUME SellerInv, NEW w \in Workers, SwitchEnds(w) \/ SwitchSets(w)  PROVE SellerInv'
<1>1. SwitchRun(run[w])  BY SwitchesRun DEF SwitchEnds, SwitchSets
<1>2. \A tx : \A then \in {"set", "mode"} : RunSound([run[w] EXCEPT !.tx = tx, !.pc = "wait", !.then = then])
  BY <1>1, SwitchWaits DEF RunSound
<1>3. Record /\ cycle' = cycle  BY DEF SwitchEnds, SwitchSets
<1>4. CASE SwitchEnds(w)
  <2>1. Write(w, "cancelAuction", run[w].gem, "set") /\ "cancelAuction" \in OtherFns  BY <1>4 DEF SwitchEnds, OtherFns
  <2>. QED  BY <1>2, <1>3, <2>1, SaleSends DEF MayWait
<1>5. CASE SwitchSets(w)
  <2>1. Write(w, "setPrimarySaleMode", run[w].gem, "mode") /\ "setPrimarySaleMode" \in OtherFns
    BY <1>5 DEF SwitchSets, OtherFns
  <2>. QED  BY <1>2, <1>3, <2>1, SaleSends DEF MayWait
<1>. QED  BY <1>4, <1>5

LEMMA SwitchModeKeeps == ASSUME SellerInv, NEW w \in Workers, SwitchMode(w)  PROVE SellerInv'
<1>1. SwitchRun(run[w])  BY SwitchesRun DEF SwitchMode
<1>2. PICK s \in Submissions : s = run[w].s  BY <1>1 DEF SwitchRun
<1>3. PICK n : n = [row[s] EXCEPT !.mode = "seller_mint"]  OBVIOUS
<1>4. persistStep(s, n) /\ Go(w, "mint") /\ UNCHANGED <<log, appraisals, cycle>> /\ Chain
  BY <1>2, <1>3 DEF SwitchMode
<1>5. /\ DOMAIN n = RowFields /\ n.appraised = row[s].appraised /\ n.bank = row[s].bank /\ n.pkg = row[s].pkg
      /\ n.gem = row[s].gem /\ n.hash = row[s].hash /\ n.floor = row[s].floor
  BY <1>3 DEF RowFields, SellerInv, World, RowsSound, RowSound
<1>6. RowsKept  BY <1>4, <1>5, Persists
<1>7. SwitchRun([run[w] EXCEPT !.pc = "mint"])  BY <1>1, SwitchGoes
<1>. QED  BY <1>4, <1>6, <1>7, Goes, Quiet, QuietMove DEF RunSound

LEMMA SwitchFailsKeeps == ASSUME SellerInv, NEW w \in Workers, SwitchFails(w)  PROVE SellerInv'
<1>1. SwitchRun(run[w])  BY SwitchesRun DEF SwitchFails
<1>2. SwitchRun([run[w] EXCEPT !.pc = "release"])  BY <1>1, SwitchGoes
<1>. QED  BY <1>2, SaleGoes DEF SwitchFails, RunSound

LEMMA SyncMintKeeps == ASSUME SellerInv, NEW s \in Submissions, SyncMint(s)  PROVE SellerInv'
<1>1. PICK n : n = [row[s] EXCEPT !.minted = TRUE, !.activation = "minted"]  OBVIOUS
<1>2. persistStep(s, n) /\ UNCHANGED <<log, appraisals, run, cycle>> /\ Chain  BY <1>1 DEF SyncMint
<1>3. /\ DOMAIN n = RowFields /\ n.appraised = row[s].appraised /\ n.bank = row[s].bank /\ n.pkg = row[s].pkg
      /\ n.gem = row[s].gem /\ n.hash = row[s].hash /\ n.floor = row[s].floor
  BY <1>1 DEF RowFields, SellerInv, World, RowsSound, RowSound
<1>4. RowsKept  BY <1>2, <1>3, Persists
<1>. QED  BY <1>2, <1>4, Quiet, QuietStep

LEMMA SalesKeep ==
  ASSUME SellerInv, NEW w \in Workers,
         \/ \E g \in DOMAIN gems : SweepClaims(w, g)
         \/ SweepReads(w) \/ SweepSettled(w) \/ SweepCounts(w) \/ SweepClears(w) \/ SweepCreates(w)
         \/ SweepUpserts(w) \/ SweepFails(w) \/ SweepReleases(w)
         \/ SwitchReads(w) \/ SwitchEnds(w) \/ SwitchSets(w) \/ SwitchMode(w) \/ SwitchFails(w)
  PROVE  SellerInv'
<1>1. CASE \/ \E g \in DOMAIN gems : SweepClaims(w, g)
           \/ SweepReads(w) \/ SweepSettled(w) \/ SweepCounts(w) \/ SweepClears(w) \/ SweepCreates(w)
  BY <1>1, SweepClaimsKeeps, SweepReadsKeeps, SweepSettledKeeps, SweepCountsKeeps, SweepClearsKeeps, SweepCreatesKeeps
<1>2. CASE \/ SweepUpserts(w) \/ SweepFails(w) \/ SweepReleases(w)
           \/ SwitchReads(w) \/ SwitchEnds(w) \/ SwitchSets(w) \/ SwitchMode(w) \/ SwitchFails(w)
  BY <1>2, SweepUpsertsKeeps, SweepEndsKeeps, SwitchReadsKeeps, SwitchSendsKeeps, SwitchModeKeeps, SwitchFailsKeeps
<1>. QED  BY <1>1, <1>2

-----------------------------------------------------------------------------
(* The chain. *)

\* The gems are the same stones, whatever became of them.
SameStones ==
  /\ IsSeq(gems') /\ Len(gems') = Len(gems) /\ DOMAIN gems' = DOMAIN gems
  /\ \A g \in DOMAIN gems : "pkg" \in DOMAIN gems'[g] /\ gems'[g].pkg = gems[g].pkg
RoundsKept ==
  /\ opened' \in Seq(Nat) /\ Len(opened') = Len(opened)
  /\ \A g \in 1..Len(opened) : opened[g] <= opened'[g]

LEMMA WorldMoves ==
  ASSUME World, UNCHANGED <<row, log, appraisals, cycle, sent>>, SameStones, RoundsKept, pending' \subseteq pending
  PROVE  World' /\ Growing
<1>1. RowsSound' /\ LogsAgree' /\ AppraisalsCounted'
  <2>1. RowsKept  BY SameRows DEF World
  <2>. QED  BY <2>1, RowsStaySound, LogsStay DEF World, AppraisalsCounted
<1>2. Registering' \subseteq Registering  BY DEF Registering
<1>3. Cardinality(Registering') <= Cardinality(Registering) /\ Cardinality(Registering') \in Nat
      /\ Cardinality(Registering) \in Nat /\ IsFiniteSet(pending')
  <2>1. IsFiniteSet(pending) /\ IsFiniteSet(Registering)
    <3>1. IsFiniteSet(pending) /\ Registering \subseteq pending  BY DEF World, RegistryCounted, Registering
    <3>. QED  BY <3>1, FS_Subset
  <2>2. PICK R, S, P, Q : R = Registering /\ S = Registering' /\ P = pending /\ Q = pending'  OBVIOUS
  <2>3. IsFiniteSet(R) /\ S \subseteq R /\ IsFiniteSet(P) /\ Q \subseteq P  BY <1>2, <2>1, <2>2
  <2>4. IsFiniteSet(S) /\ Cardinality(S) <= Cardinality(R) /\ IsFiniteSet(Q)  BY <2>3, FS_Subset
  <2>5. Cardinality(S) \in Nat /\ Cardinality(R) \in Nat  BY <2>3, <2>4, FS_CardinalityType
  <2>. QED  BY <2>2, <2>4, <2>5
<1>4. RegistryCounted'
  <2>1. Len(gems) \in Nat /\ DOMAIN gems = 1..Len(gems) /\ sent \in 0..MaxSent
    BY DEF World, RegistryCounted, IsSeq
  <2>. QED  BY <1>3, <2>1, LimitsAreCounts DEF World, RegistryCounted, SameStones, RoundsKept, IsSeq, Values
<1>5. RegistryReceived'
  <2>1. \A p : Received(p) => Received(p)'  BY DEF Received, Packages
  <2>2. \A g \in DOMAIN gems' : Received(gems'[g].pkg)
    BY DEF World, RegistryReceived, SameStones
  <2>. QED  BY <1>2, <2>1, <2>2 DEF World, RegistryReceived
<1>6. \A g \in 1..Len(opened) : opened[g] \in Nat /\ opened'[g] \in Nat /\ opened[g] <= opened'[g]
  BY DEF World, RegistryCounted, RoundsKept
<1>7. CyclesCounted'
  <2>1. DOMAIN gems = 1..Len(opened)  BY DEF World, RegistryCounted, IsSeq
  <2>2. \A g \in DOMAIN gems : cycle[g].rounds <= opened'[g]
    <3>1. ASSUME NEW g \in DOMAIN gems  PROVE cycle[g].rounds <= opened'[g]
      <4>1. g \in Gems
        <5>1. Cardinality(Registering) + Len(gems) <= sent /\ sent \in 0..MaxSent /\ Len(gems) \in Nat
              /\ DOMAIN gems = 1..Len(gems)
          BY DEF World, RegistryCounted, IsSeq
        <5>. QED  BY <1>3, <5>1, LimitsAreCounts DEF Gems
      <4>2. cycle[g].rounds \in Nat /\ cycle[g].rounds <= opened[g]  BY <4>1 DEF World, CyclesCounted
      <4>. QED  BY <1>6, <2>1, <4>2
    <3>. QED  BY <3>1
  <2>. QED  BY <2>2 DEF World, CyclesCounted, SameStones, Gems
<1>8. Growing
  <2>1. Len(opened) \in Nat /\ Len(opened') = Len(opened)  BY DEF World, RegistryCounted, RoundsKept
  <2>. QED  BY <1>6, <2>1 DEF Growing
<1>. QED  BY <1>1, <1>4, <1>5, <1>7, <1>8 DEF World

LEMMA SameRegistry == ASSUME World, UNCHANGED <<gems, opened>>  PROVE SameStones /\ RoundsKept
<1>1. \A g \in 1..Len(opened) : opened[g] \in Nat  BY DEF World, RegistryCounted
<1>. QED  BY <1>1 DEF World, RegistryCounted, SameStones, RoundsKept, IsSeq, Values

\* One gem changes and stays the stone it is.
LEMMA OneGem ==
  ASSUME World, NEW i, NEW g, gems' = [gems EXCEPT ![i] = g],
         i \in DOMAIN gems => "pkg" \in DOMAIN g /\ g.pkg = gems[i].pkg
  PROVE  SameStones
<1>1. IsSeq(gems) /\ \A j \in DOMAIN gems : "pkg" \in DOMAIN gems[j]  BY DEF World, RegistryCounted
<1>2. PICK q, t : q = gems /\ t = gems'  OBVIOUS
<1>3. /\ IsSeq(t) /\ Len(t) = Len(q) /\ DOMAIN t = DOMAIN q
      /\ i \in DOMAIN q => t[i] = g
      /\ \A j \in DOMAIN q : j # i => t[j] = q[j]
  <2>1. IsSeq(q) /\ t = [q EXCEPT ![i] = g]  BY <1>1, <1>2
  <2>. QED  BY <2>1, Replacing
<1>. QED  BY <1>1, <1>2, <1>3 DEF SameStones

\* A transaction changes what became of its gem, never which stone it is.
LEMMA ExecutedIsStone ==
  ASSUME NEW tx, tx.fn \in OtherFns \ {"setSellerApproval"}, NEW h, "pkg" \in DOMAIN h, NEW g \in Executed(tx, h)
  PROVE  "pkg" \in DOMAIN g /\ g.pkg = h.pkg
<1>1. \/ g = [h EXCEPT !.status = GemStatus.CustodyConfirmed]
      \/ g = [h EXCEPT !.status = GemStatus.Verified]
      \/ g = [h EXCEPT !.status = GemStatus.Listed, !.mode = tx.arg[2]]
      \/ g = [h EXCEPT !.auction = OpenAuction] \/ g = [h EXCEPT !.auction = NoAuction]
      \/ g = [h EXCEPT !.auction.settled = TRUE]
      \/ g = [h EXCEPT !.auction.settled = TRUE, !.status = GemStatus.Minted]
      \/ g = [h EXCEPT !.mode = "seller_mint"] \/ g = [h EXCEPT !.status = GemStatus.Minted]
  BY DEF Executed, OtherFns
<1>. QED  BY <1>1

\* A round that is opened is one more.
LEMMA RoundOpens ==
  ASSUME World, NEW i, opened' = [opened EXCEPT ![i] = @ + 1]
  PROVE  RoundsKept /\ (i \in 1..Len(opened) => opened'[i] = opened[i] + 1)
<1>1. opened \in Seq(Nat)  BY DEF World, RegistryCounted
<1>2. PICK q, t, x : q = opened /\ t = opened' /\ x = opened[i] + 1  OBVIOUS
<1>3. q \in Seq(Nat) /\ t = [q EXCEPT ![i] = x]  BY <1>1, <1>2
<1>4. IsSeq(q)
  <2>1. \A j \in 1..Len(q) : q[j] \in Values(q)  BY <1>3 DEF Values
  <2>. QED  BY <1>3, <2>1 DEF IsSeq
<1>5. /\ IsSeq(t) /\ Len(t) = Len(q) /\ DOMAIN t = DOMAIN q /\ DOMAIN q = 1..Len(q)
      /\ i \in DOMAIN q => t[i] = x
      /\ \A j \in DOMAIN q : j # i => t[j] = q[j]
  BY <1>3, <1>4, Replacing
<1>6. \A j \in 1..Len(q) : t[j] \in Nat /\ q[j] <= t[j]
  <2>1. ASSUME NEW j \in 1..Len(q)  PROVE t[j] \in Nat /\ q[j] <= t[j]
    <3>1. q[j] \in Nat  BY <1>3
    <3>2. CASE j = i  BY <1>2, <1>5, <3>1, <3>2
    <3>3. CASE j # i  BY <1>5, <3>1, <3>3
    <3>. QED  BY <3>2, <3>3
  <2>. QED  BY <2>1
<1>7. t \in Seq(Nat)
  <2>1. t \in Seq(Values(t)) /\ DOMAIN t = 1..Len(q)  BY <1>5 DEF IsSeq
  <2>2. Values(t) \subseteq Nat  BY <1>6, <2>1 DEF Values
  <2>. QED  BY <2>1, <2>2
<1>. QED  BY <1>2, <1>5, <1>6, <1>7 DEF RoundsKept

\* A registration that is mined: the stone it was sent for, with no round yet.
LEMMA Registered ==
  ASSUME World, UNCHANGED <<row, log, appraisals, cycle, sent>>, NEW tx \in Registering, pending' = pending \ {tx},
         NEW gem, "pkg" \in DOMAIN gem, gem.pkg = tx.arg, gems' = Append(gems, gem), opened' = Append(opened, 0)
  PROVE  World' /\ Growing
<1>1. RowsSound' /\ LogsAgree' /\ AppraisalsCounted'
  <2>1. RowsKept  BY SameRows DEF World
  <2>. QED  BY <2>1, RowsStaySound, LogsStay DEF World, AppraisalsCounted
<1>2. Registering' = Registering \ {tx}  BY DEF Registering
<1>3. /\ Cardinality(Registering') + 1 = Cardinality(Registering) /\ Cardinality(Registering') \in Nat
      /\ Cardinality(Registering) \in Nat /\ IsFiniteSet(pending')
  <2>1. IsFiniteSet(pending) /\ IsFiniteSet(Registering)
    <3>1. IsFiniteSet(pending) /\ Registering \subseteq pending  BY DEF World, RegistryCounted, Registering
    <3>. QED  BY <3>1, FS_Subset
  <2>2. PICK R : R = Registering  OBVIOUS
  <2>3. IsFiniteSet(R) /\ tx \in R  BY <2>1, <2>2
  <2>4. IsFiniteSet(R \ {tx}) /\ Cardinality(R \ {tx}) = Cardinality(R) - 1  BY <2>3, FS_RemoveElement
  <2>5. Cardinality(R) \in Nat /\ Cardinality(R \ {tx}) \in Nat  BY <2>3, <2>4, FS_CardinalityType
  <2>6. IsFiniteSet(pending')  BY <2>1, FS_RemoveElement
  <2>. QED  BY <1>2, <2>2, <2>4, <2>5, <2>6
<1>4. /\ IsSeq(gems') /\ Len(gems') = Len(gems) + 1 /\ Len(gems) \in Nat /\ DOMAIN gems = 1..Len(gems)
      /\ DOMAIN gems' = 1..(Len(gems) + 1)
      /\ gems'[Len(gems) + 1] = gem /\ \A g \in DOMAIN gems : gems'[g] = gems[g]
  <2>1. IsSeq(gems)  BY DEF World, RegistryCounted
  <2>2. PICK q, u : q = gems /\ u = gems'  OBVIOUS
  <2>3. IsSeq(q) /\ u = Append(q, gem)  BY <2>1, <2>2
  <2>. QED  BY <2>2, <2>3, Appending
<1>5. /\ opened' \in Seq(Nat) /\ Len(opened') = Len(gems) + 1 /\ Len(opened) = Len(gems)
      /\ opened'[Len(gems) + 1] = 0
      /\ \A g \in 1..Len(gems) : opened'[g] = opened[g] /\ opened[g] \in Nat
  <2>1. opened \in Seq(Nat) /\ Len(opened) = Len(gems)  BY DEF World, RegistryCounted
  <2>. QED  BY <1>4, <2>1
<1>6. /\ sent \in 0..MaxSent /\ Cardinality(Registering) + Len(gems) <= sent
      /\ \A x \in pending : x.fn \in OtherFns \cup {"registerGem"}
      /\ \A g \in DOMAIN gems : "pkg" \in DOMAIN gems[g]
  BY DEF World, RegistryCounted
<1>7. RegistryCounted'
  <2>1. \A g \in DOMAIN gems' : "pkg" \in DOMAIN gems'[g]  BY <1>4, <1>6
  <2>2. Cardinality(Registering') + Len(gems') <= sent'  BY <1>3, <1>4, <1>6, LimitsAreCounts
  <2>3. IsSeq(gems)'  BY <1>4 DEF IsSeq, Values
  <2>4. Len(opened') = Len(gems') /\ sent' \in 0..MaxSent /\ \A x \in pending' : x.fn \in OtherFns \cup {"registerGem"}
    BY <1>4, <1>5, <1>6
  <2>. QED  BY <1>3, <1>5, <2>1, <2>2, <2>3, <2>4 DEF RegistryCounted
<1>8. RegistryReceived'
  <2>1. \A p : Received(p) => Received(p)'  BY DEF Received, Packages
  <2>2. \A g \in DOMAIN gems' : Received(gems'[g].pkg)  BY <1>4 DEF World, RegistryReceived
  <2>. QED  BY <1>2, <2>1, <2>2 DEF World, RegistryReceived
<1>9. CyclesCounted'
  <2>1. Len(gems) + 1 \in Gems  BY <1>3, <1>4, <1>6, LimitsAreCounts DEF Gems
  <2>2. Len(gems) + 1 \notin DOMAIN gems  BY <1>4
  <2>3. \A g \in DOMAIN gems' : cycle[g].rounds <= opened'[g]
    <3>1. cycle[Len(gems) + 1].rounds = 0  BY <2>1, <2>2 DEF World, CyclesCounted
    <3>. QED  BY <1>4, <1>5, <3>1 DEF World, CyclesCounted
  <2>4. \A g \in Gems \ DOMAIN gems' : cycle[g].rounds = 0  BY <1>4 DEF World, CyclesCounted
  <2>. QED  BY <2>3, <2>4 DEF World, CyclesCounted, Gems
<1>10. Growing
  <2>1. Len(opened) <= Len(opened') /\ Len(opened) \in Nat /\ Len(opened') \in Nat  BY <1>4, <1>5
  <2>2. \A g \in 1..Len(opened) : opened[g] \in Nat /\ opened'[g] \in Nat /\ opened[g] <= opened'[g]  BY <1>5
  <2>. QED  BY <2>1, <2>2 DEF Growing
<1>. QED  BY <1>1, <1>7, <1>8, <1>9, <1>10 DEF World

\* Every transaction that is mined, and whether it opened a round.
LEMMA MineKeeps ==
  ASSUME World, UNCHANGED <<row, log, appraisals, cycle>>, NEW tx \in pending, Mine(tx)
  PROVE  /\ World' /\ Growing
         /\ Accepts(tx) /\ tx.fn = "createDailyAuction" /\ tx.arg \in 1..Len(opened) => opened'[tx.arg] = opened[tx.arg] + 1
<1>1. pending' = pending \ {tx} /\ sent' = sent  BY DEF Mine
<1>2. tx.fn \in OtherFns \cup {"registerGem"}  BY DEF World, RegistryCounted
<1>3. CASE ~Accepts(tx) \/ tx.fn = "setSellerApproval"
  <2>1. UNCHANGED <<gems, opened>>  BY <1>3 DEF Mine
  <2>2. World' /\ Growing  BY <1>1, <2>1, SameRegistry, WorldMoves
  <2>. QED  BY <1>3, <2>2
<1>4. CASE Accepts(tx) /\ tx.fn = "registerGem"
  <2>1. PICK gem : gem = [NewGem EXCEPT !.pkg = tx.arg]  OBVIOUS
  <2>2. "pkg" \in DOMAIN gem /\ gem.pkg = tx.arg  BY <2>1 DEF NewGem
  <2>3. gems' = Append(gems, gem) /\ opened' = Append(opened, 0)  BY <1>4, <2>1 DEF Mine
  <2>4. tx \in Registering  BY <1>4 DEF Registering
  <2>5. World' /\ Growing  BY <1>1, <2>2, <2>3, <2>4, Registered
  <2>. QED  BY <1>4, <2>5
<1>5. CASE Accepts(tx) /\ tx.fn \notin {"registerGem", "setSellerApproval"}
  <2>1. PICK i : i = GemOf(tx)  OBVIOUS
  <2>2. PICK g \in Executed(tx, gems[i]) : gems' = [gems EXCEPT ![i] = g]  BY <1>5, <2>1 DEF Mine
  <2>3. opened' = IF tx.fn = "createDailyAuction" THEN [opened EXCEPT ![tx.arg] = @ + 1] ELSE opened
    BY <1>5 DEF Mine
  <2>4. i \in DOMAIN gems => "pkg" \in DOMAIN g /\ g.pkg = gems[i].pkg
    <3>1. ASSUME i \in DOMAIN gems  PROVE "pkg" \in DOMAIN g /\ g.pkg = gems[i].pkg
      <4>1. "pkg" \in DOMAIN gems[i]  BY <3>1 DEF World, RegistryCounted
      <4>2. PICK h : h = gems[i]  OBVIOUS
      <4>3. tx.fn \in OtherFns \ {"setSellerApproval"}  BY <1>2, <1>5
      <4>4. "pkg" \in DOMAIN g /\ g.pkg = h.pkg  BY <2>2, <4>1, <4>2, <4>3, ExecutedIsStone
      <4>. QED  BY <4>2, <4>4
    <3>. QED  BY <3>1
  <2>5. SameStones  BY <2>2, <2>4, OneGem
  <2>6. RoundsKept
    <3>1. CASE tx.fn = "createDailyAuction"  BY <2>3, <3>1, RoundOpens
    <3>2. CASE tx.fn # "createDailyAuction"
      <4>1. opened' = opened  BY <2>3, <3>2
      <4>2. \A x \in 1..Len(opened) : opened[x] \in Nat  BY DEF World, RegistryCounted
      <4>. QED  BY <4>1, <4>2 DEF World, RegistryCounted, RoundsKept
    <3>. QED  BY <3>1, <3>2
  <2>7. World' /\ Growing  BY <1>1, <2>5, <2>6, WorldMoves
  <2>8. tx.fn = "createDailyAuction" /\ tx.arg \in 1..Len(opened) => opened'[tx.arg] = opened[tx.arg] + 1
    BY <2>3, RoundOpens
  <2>. QED  BY <2>7, <2>8
<1>. QED  BY <1>2, <1>3, <1>4, <1>5

\* The run that waited for it goes on.
LEMMA WaitedGoesOn ==
  ASSUME Growing, NEW r, RunSound(r), r.pc = "wait",
         r.tx.fn = "createDailyAuction" /\ r.tx.arg \in 1..Len(opened) => opened'[r.tx.arg] = opened[r.tx.arg] + 1
  PROVE  RunSound([r EXCEPT !.tx = None, !.pc = r.then, !.then = "none"])'
<1>1. PICK n : n = [r EXCEPT !.tx = None, !.pc = r.then, !.then = "none"]  OBVIOUS
<1>2. CASE ActivationRun(r)
  <2>1. ActivationRun(n)  BY <1>1, <1>2 DEF ActivationRun, ActivationPcs
  <2>2. RunSound(n)'  BY <2>1, RunStays DEF RunSound
  <2>. QED  BY <1>1, <2>2
<1>3. CASE SwitchRun(r)
  <2>1. SwitchRun(n)  BY <1>1, <1>3 DEF SwitchRun
  <2>2. RunSound(n)'  BY <2>1, RunStays DEF RunSound
  <2>. QED  BY <1>1, <2>2
<1>4. CASE SweepRun(r)
  <2>1. /\ DOMAIN n = DOMAIN r /\ n.kind = "sweep" /\ n.pc = r.then /\ n.gem = r.gem /\ n.rounds = r.rounds
    BY <1>1, <1>4 DEF SweepRun
  <2>2. r.gem \in 1..Len(opened) /\ opened[r.gem] \in Nat /\ opened'[r.gem] \in Nat /\ opened[r.gem] <= opened'[r.gem]
        /\ r.gem \in 1..Len(opened')
    BY <1>4 DEF SweepRun, Growing
  <2>3. r.then = "counted" => opened'[r.gem] = opened[r.gem] + 1  BY <1>4, <2>2 DEF SweepRun
  <2>4. SweepRun(n)'  BY <1>4, <2>1, <2>2, <2>3 DEF SweepRun
  <2>5. RunSound(n)'  BY <2>4 DEF RunSound
  <2>. QED  BY <1>1, <2>5
<1>. QED  BY <1>2, <1>3, <1>4 DEF RunSound, Idle, StaffRun, LeavingRun

LEMMA MinedKeeps ==
  ASSUME SellerInv, UNCHANGED <<row, log, appraisals, cycle>>, NEW tx \in pending, Mine(tx), Receive(tx)
  PROVE  SellerInv'
<1>1. World' /\ Growing  BY MineKeeps DEF SellerInv
<1>2. Accepts(tx) /\ tx.fn = "createDailyAuction" /\ tx.arg \in 1..Len(opened) => opened'[tx.arg] = opened[tx.arg] + 1
  BY MineKeeps DEF SellerInv
<1>3. ASSUME NEW w \in Workers  PROVE RunSound(run[w])'
  <2>1. PICK r : r = run[w]  OBVIOUS
  <2>2. PICK n : n = [r EXCEPT !.tx = None, !.pc = r.then, !.then = "none"]  OBVIOUS
  <2>3. PICK x : x = run'[w]  OBVIOUS
  <2>4. x = r \/ (x = n /\ r.pc = "wait" /\ r.tx = tx /\ Accepts(tx))  BY <2>1, <2>2, <2>3 DEF Receive
  <2>5. RunSound(r)  BY <2>1 DEF SellerInv, RunsSound
  <2>6. CASE x = r  BY <1>1, <2>3, <2>5, <2>6, RunStays
  <2>7. CASE x = n /\ r.pc = "wait" /\ r.tx = tx /\ Accepts(tx)
    <3>1. RunSound(n)'  BY <1>1, <1>2, <2>2, <2>5, <2>7, WaitedGoesOn
    <3>. QED  BY <2>3, <2>7, <3>1
  <2>. QED  BY <2>4, <2>6, <2>7
<1>4. run' = [w \in Workers |-> run'[w]]  BY DEF Receive
<1>. QED  BY <1>1, <1>3, <1>4 DEF SellerInv, RunsSound

\* The market's own step touches one gem, and leaves it the stone it is.
LEMMA TouchedIsStone ==
  ASSUME World, NEW g \in DOMAIN gems, RoundEnds(g) \/ SellerMints(g) \/ (\E b \in Bidders : Bid(g, b))
  PROVE  SameStones
<1>1. "pkg" \in DOMAIN gems[g]  BY DEF World, RegistryCounted
<1>2. PICK h : h = gems[g]  OBVIOUS
<1>3. PICK n : gems' = [gems EXCEPT ![g] = n] /\ "pkg" \in DOMAIN n /\ n.pkg = gems[g].pkg
  <2>1. CASE RoundEnds(g)
    <3>1. PICK n : n = [h EXCEPT !.auction.ended = TRUE]  OBVIOUS
    <3>2. gems' = [gems EXCEPT ![g] = n]  BY <1>2, <2>1, <3>1, Zenon DEF RoundEnds
    <3>3. "pkg" \in DOMAIN n /\ n.pkg = h.pkg  BY <1>1, <1>2, <3>1
    <3>. QED  BY <1>2, <3>2, <3>3
  <2>2. CASE SellerMints(g)
    <3>1. PICK n : n = [h EXCEPT !.status = GemStatus.Minted]  OBVIOUS
    <3>2. gems' = [gems EXCEPT ![g] = n]  BY <1>2, <2>2, <3>1, Zenon DEF SellerMints
    <3>3. "pkg" \in DOMAIN n /\ n.pkg = h.pkg  BY <1>1, <1>2, <3>1
    <3>. QED  BY <1>2, <3>2, <3>3
  <2>3. ASSUME NEW b \in Bidders, Bid(g, b)
        PROVE  \E n : gems' = [gems EXCEPT ![g] = n] /\ "pkg" \in DOMAIN n /\ n.pkg = gems[g].pkg
    <3>1. PICK n : n = [h EXCEPT !.auction.bidder = b]  OBVIOUS
    <3>2. gems' = [gems EXCEPT ![g] = n]  BY <1>2, <2>3, <3>1, Zenon DEF Bid
    <3>3. "pkg" \in DOMAIN n /\ n.pkg = h.pkg  BY <1>1, <1>2, <3>1
    <3>. QED  BY <1>2, <3>2, <3>3
  <2>. QED  BY <2>1, <2>2, <2>3
<1>4. UNCHANGED <<opened, pending, sent>>  BY DEF RoundEnds, SellerMints, Bid
<1>. QED  BY <1>3, <1>4, OneGem

LEMMA OutsideKeeps == ASSUME SellerInv, Outside  PROVE SellerInv'
<1>1. UNCHANGED <<row, log, appraisals, cycle>>  BY DEF Outside
<1>2. ASSUME NEW tx \in pending, Mine(tx), Receive(tx)  PROVE SellerInv'  BY <1>1, <1>2, MinedKeeps
<1>3. ASSUME NEW tx \in pending, Drop(tx), run' = run  PROVE SellerInv'
  <2>1. SameStones /\ RoundsKept  BY <1>3, SameRegistry DEF Drop, SellerInv
  <2>2. World' /\ Growing  BY <1>1, <1>3, <2>1, WorldMoves DEF Drop, SellerInv
  <2>. QED  BY <1>3, <2>2, RunsStay DEF SellerInv
<1>4. ASSUME NEW g \in DOMAIN gems, RoundEnds(g) \/ SellerMints(g) \/ (\E b \in Bidders : Bid(g, b)), run' = run
      PROVE  SellerInv'
  <2>1. SameStones  BY <1>4, TouchedIsStone DEF SellerInv
  <2>2. UNCHANGED <<opened, pending, sent>>  BY <1>4 DEF RoundEnds, SellerMints, Bid
  <2>3. RoundsKept
    <3>1. \A x \in 1..Len(opened) : opened[x] \in Nat  BY DEF SellerInv, World, RegistryCounted
    <3>. QED  BY <2>2, <3>1 DEF SellerInv, World, RegistryCounted, RoundsKept
  <2>4. World' /\ Growing  BY <1>1, <2>1, <2>2, <2>3, WorldMoves DEF SellerInv
  <2>. QED  BY <1>4, <2>4, RunsStay DEF SellerInv
<1>. QED  BY <1>2, <1>3, <1>4 DEF Outside

-----------------------------------------------------------------------------
(* The specification. *)

LEMMA InitIsSound == Init => SellerInv
<1>. SUFFICES ASSUME Init  PROVE SellerInv
  OBVIOUS
<1>1. RowsSound  BY DEF Init, NewRow, RowsSound, RowSound, RowFields, registrationMayHaveBeenSent
<1>2. LogsAgree
  <2>1. IsSeq(<<>>)  BY DEF IsSeq
  <2>2. \A s \in Submissions : log[s].events = <<>> /\ TypesOf(log[s]) = {}  BY DEF Init, NewLog, TypesOf
  <2>3. log = [s \in Submissions |-> log[s]]  BY DEF Init
  <2>4. \A s \in Submissions : ~row[s].appraised /\ ~row[s].bank  BY DEF Init, NewRow
  <2>. QED  BY <2>1, <2>2, <2>3, <2>4 DEF LogsAgree
<1>3. AppraisalsCounted  BY FS_EmptySet, LimitsAreCounts DEF Init, AppraisalsCounted
<1>4. RegistryCounted
  <2>1. Registering = {} /\ IsFiniteSet({}) /\ Cardinality({}) = 0  BY FS_EmptySet DEF Init, Registering
  <2>2. IsSeq(<<>>)  BY DEF IsSeq
  <2>. QED  BY <2>1, <2>2, LimitsAreCounts DEF Init, RegistryCounted
<1>5. RegistryReceived  BY DEF Init, RegistryReceived, Registering
<1>6. CyclesCounted  BY DEF Init, CyclesCounted
<1>7. RunsSound  BY DEF Init, RunsSound, RunSound
<1>. QED  BY <1>1, <1>2, <1>3, <1>4, <1>5, <1>6, <1>7 DEF SellerInv, World

LEMMA StepKeeps == SellerInv /\ [Next]_auctionVars => SellerInv'
<1>. SUFFICES ASSUME SellerInv, [Next]_auctionVars  PROVE SellerInv'
  OBVIOUS
<1>1. CASE UNCHANGED auctionVars
  <2>1. UNCHANGED <<row, log, appraisals, run, cycle>> /\ Chain  BY <1>1 DEF auctionVars, Chain
  <2>2. RowsKept  BY <2>1, SameRows DEF SellerInv, World
  <2>. QED  BY <2>1, <2>2, Quiet, QuietStep
<1>2. CASE Next
  BY <1>2, IntakeKeeps, ActivationKeeps, SalesKeep, SwitchBeginsKeeps, SyncMintKeeps, OutsideKeeps DEF Next
<1>. QED  BY <1>1, <1>2

THEOREM SellerIsSound == Spec => []SellerInv
BY InitIsSound, StepKeeps, PTL DEF Spec

\* However the intake calls overlap, whatever fails, is lost or is taken over:
\* only a stone that was appraised and received by the bank is ever on the
\* registry, and each of the two stands on the row exactly when its event is on
\* the workflow log.
THEOREM OnlyReceivedReach == Spec => []OnlyReceivedStones
<1>1. SellerInv => OnlyReceivedStones
  <2>. SUFFICES ASSUME SellerInv, NEW s \in Submissions
                PROVE   /\ row[s].appraised <=> "gem_appraised" \in TypesOf(log[s])
                        /\ row[s].bank <=> "bank_receipt_recorded" \in TypesOf(log[s])
                        /\ GemsOf(s) # {} => row[s].appraised /\ row[s].bank
    BY DEF OnlyReceivedStones, TypesOf
  <2>2. \A g \in GemsOf(s) : row[s].appraised /\ row[s].bank
    <3>1. ASSUME NEW g \in GemsOf(s)  PROVE row[s].appraised /\ row[s].bank
      <4>1. PICK p : p = gems[g].pkg  OBVIOUS
      <4>2. Received(p) /\ p[1] = s  BY <4>1 DEF GemsOf, SellerInv, World, RegistryReceived
      <4>. QED  BY <4>2, Zenon DEF Received
    <3>. QED  BY <3>1
  <2>3. LogsAgree  BY DEF SellerInv, World
  <2>4. /\ row[s].appraised <=> "gem_appraised" \in TypesOf(log[s])
        /\ row[s].bank <=> "bank_receipt_recorded" \in TypesOf(log[s])
    BY <2>3, Zenon DEF LogsAgree
  <2>5. GemsOf(s) # {} => row[s].appraised /\ row[s].bank  BY <2>2
  <2>. QED  BY <2>4, <2>5, Zenon
<1>. QED  BY <1>1, SellerIsSound, PTL

\* For any limit: no interleaving of appraisals records more than the day's
\* limit, or a second appraisal of a stone.
THEOREM LimitHolds == Spec => []WithinDailyLimit
<1>1. SellerInv => WithinDailyLimit  BY DEF SellerInv, World, AppraisalsCounted, WithinDailyLimit
<1>. QED  BY <1>1, SellerIsSound, PTL

\* Whatever sweep is replaced, delayed or loses its lease, auction_cycles counts
\* only rounds the chain opened: a stone is never given up early.
THEOREM RoundsAreCounted == Spec => []RoundsWereOpened
<1>1. SellerInv => RoundsWereOpened  BY DEF SellerInv, World, CyclesCounted, RoundsWereOpened
<1>. QED  BY <1>1, SellerIsSound, PTL

-----------------------------------------------------------------------------
(* The registration: what a claim gives, when it is kept. *)

Holds(r) ==
  /\ r.pc \in {"lease", "approve", "recover", "floor", "register", "hash", "registered", "advance", "advanced",
               "mint", "wait"}
  /\ r.kind = "activation"
\* A run that holds its claim registers the package of its row, and a claim
\* that was read stale is still stale.
ClaimSound(r, n) ==
  /\ Holds(r) => n.started # None /\ ~n.stale
  /\ Holds(r) /\ r.pc # "lease" => r.read.pkg = n.pkg
  /\ Holds(r) /\ r.pc = "register" => n.floor
  /\ r.pc = "claim" /\ r.read.stale /\ r.read.started # None /\ r.read.started = n.started => n.stale
OneHolder == \A v, w \in Workers : Holds(run[v]) /\ Holds(run[w]) /\ run[v].s = run[w].s => v = w
\* The package that was sent is the row's, for good.
SentOf(p) == row[p[1]].pkg = p /\ row[p[1]].floor
PackagesSent ==
  /\ \A tx \in Registering : SentOf(tx.arg)
  /\ \A g \in DOMAIN gems : SentOf(gems[g].pkg)
KeptInv == (\A w \in Workers : ClaimSound(run[w], row[run[w].s])) /\ OneHolder /\ PackagesSent

\* A gem a row or a run names is the submission's own.
OwnGem(s, g) == g # None => g \in DOMAIN gems /\ gems[g].pkg[1] = s
ReceiptsSound == \A r \in receipts : r.gem \in DOMAIN gems /\ gems[r.gem].pkg = r.tx.arg
RowNames(s, n) == OwnGem(s, n.gem) /\ (n.hash # None => n.hash.arg[1] = s)
Switching(r) == r.pc \in {"switch", "end", "set", "mode", "mint", "wait"} /\ r.kind = "switch"
NamesGem(r) ==
  \/ r.pc \in {"advance", "advanced"} \/ (r.pc = "mint" /\ Holds(r)) \/ Switching(r)
  \/ r.pc = "wait" /\ r.kind = "activation" /\ r.then \in {"advanced", "mint"}
Named(r) ==
  /\ NamesGem(r) => r.gem # None /\ OwnGem(r.s, r.gem)
  /\ Holds(r) /\ r.pc # "lease" => RowNames(r.s, r.read)
  /\ r.pc \in {"hash", "registered"} => r.tx.arg[1] = r.s
NamesInv ==
  /\ ReceiptsSound /\ (\A s \in Submissions : RowNames(s, row[s])) /\ \A w \in Workers : Named(run[w])

KeptAndNamed == SellerInv /\ KeptInv /\ NamesInv

\* What a step in which the workers of W move may do to a row.
Alone(W, s) == \A v \in Workers \ W : Holds(run[v]) => run[v].s # s
RowStep(W, s, r, n) ==
  /\ r.floor => n.floor /\ n.pkg = r.pkg
  /\ Alone(W, s) \/ (n.started = r.started /\ n.stale = r.stale /\ n.pkg = r.pkg)
  /\ \/ n.started = None
     \/ n.started = r.started /\ (r.stale => n.stale)
     \/ \A v \in Workers \ W : run[v].pc = "claim" => run[v].read.started # n.started
RowSteps(W) == \A s \in Submissions : RowStep(W, s, row[s], row'[s])
RowsNamed == \A s \in Submissions : RowNames(s, row[s])
\* Registrations are sent with the row's package, and mined as they were sent.
SentStep ==
  /\ \A tx \in Registering' : tx \in Registering \/ SentOf(tx.arg)'
  /\ \A g \in DOMAIN gems : g \in DOMAIN gems' /\ gems'[g].pkg = gems[g].pkg
  /\ \A g \in DOMAIN gems' : g \in DOMAIN gems \/ \E tx \in Registering : gems'[g].pkg = tx.arg
\* A run holds on to its claim.
HoldsOn(r, n) == Holds(n) => Holds(r) /\ n.s = r.s

LEMMA ClaimsRun ==
  ASSUME SellerInv, NEW w \in Workers, Holds(run[w]) \/ run[w].pc = "claim"
  PROVE  ActivationRun(run[w]) /\ run[w].s \in Submissions
BY ActivationsRun DEF Holds, ActivationRun, SellerInv, RunsSound, RunSound, Idle, StaffRun, LeavingRun, SweepRun, SwitchRun

LEMMA SentStays ==
  ASSUME SellerInv, PackagesSent, NEW W, RowSteps(W), SentStep  PROVE PackagesSent'
<1>1. ASSUME NEW p, Received(p), SentOf(p)  PROVE SentOf(p)'
  <2>1. PICK s \in Submissions : s = p[1]  BY <1>1 DEF Received, Packages
  <2>2. RowStep(W, s, row[s], row'[s])  BY <2>1 DEF RowSteps
  <2>. QED  BY <1>1, <2>1, <2>2 DEF SentOf, RowStep
<1>2. \A tx \in Registering : SentOf(tx.arg)'  BY <1>1 DEF PackagesSent, SellerInv, World, RegistryReceived
<1>3. \A g \in DOMAIN gems : SentOf(gems[g].pkg)'
  <2>1. ASSUME NEW g \in DOMAIN gems  PROVE SentOf(gems[g].pkg)'
    <3>1. PICK p : p = gems[g].pkg  OBVIOUS
    <3>2. SentOf(p)'  BY <1>1, <3>1 DEF PackagesSent, SellerInv, World, RegistryReceived
    <3>3. gems'[g].pkg = p  BY <3>1 DEF SentStep
    <3>. QED  BY <3>2, <3>3 DEF SentOf
  <2>. QED  BY <2>1
<1>4. \A g \in DOMAIN gems' : SentOf(gems[g].pkg)'
  <2>1. ASSUME NEW g \in DOMAIN gems'  PROVE SentOf(gems[g].pkg)'
    <3>1. CASE g \in DOMAIN gems  BY <1>3, <3>1
    <3>2. CASE g \notin DOMAIN gems
      <4>1. PICK tx \in Registering : gems'[g].pkg = tx.arg  BY <3>2 DEF SentStep
      <4>2. PICK p : p = tx.arg  OBVIOUS
      <4>3. SentOf(p)'  BY <1>2, <4>2
      <4>. QED  BY <4>1, <4>2, <4>3 DEF SentOf
    <3>. QED  BY <3>1, <3>2
  <2>. QED  BY <2>1
<1>5. \A tx \in Registering' : SentOf(tx.arg)'  BY <1>2 DEF SentStep
<1>. QED  BY <1>4, <1>5 DEF PackagesSent

LEMMA ClaimStays ==
  ASSUME SellerInv, KeptInv, NEW W, RowSteps(W), NEW v \in Workers \ W, run'[v] = run[v]
  PROVE  ClaimSound(run'[v], row'[run'[v].s])
<1>1. PICK r : r = run[v] /\ r = run'[v]  OBVIOUS
<1>2. CASE Holds(r) \/ r.pc = "claim"
  <2>1. r.s \in Submissions  BY <1>1, <1>2, ClaimsRun
  <2>2. PICK m, n : m = row[r.s] /\ n = row'[r.s]  OBVIOUS
  <2>3. RowStep(W, r.s, m, n)  BY <2>1, <2>2 DEF RowSteps
  <2>4. ClaimSound(r, m)  BY <1>1, <2>2 DEF KeptInv
  <2>5. ~Alone(W, r.s) \/ ~Holds(r)  BY <1>1 DEF Alone
  <2>6. r.pc = "claim" /\ r.read.stale /\ r.read.started # None /\ r.read.started = n.started => n.stale
    BY <1>1, <2>3, <2>4 DEF ClaimSound, RowStep
  <2>7. ClaimSound(r, n)  BY <2>3, <2>4, <2>5, <2>6 DEF ClaimSound, RowStep
  <2>. QED  BY <1>1, <2>2, <2>7
<1>3. CASE ~(Holds(r) \/ r.pc = "claim")  BY <1>1, <1>3 DEF ClaimSound
<1>. QED  BY <1>2, <1>3

LEMMA OwnStays == ASSUME SentStep, NEW s, NEW g, OwnGem(s, g)  PROVE OwnGem(s, g)'
BY DEF OwnGem, SentStep
LEMMA RowNamesStay == ASSUME SentStep, NEW s, NEW n, RowNames(s, n)  PROVE RowNames(s, n)'
BY OwnStays DEF RowNames
LEMMA NamedStays == ASSUME SentStep, NEW r, Named(r)  PROVE Named(r)'
BY OwnStays, RowNamesStay DEF Named

LEMMA KeptFrame ==
  ASSUME KeptAndNamed, SellerInv', NEW W, W \subseteq Workers, \A v \in Workers \ W : run'[v] = run[v],
         RowSteps(W), SentStep, RowsNamed', ReceiptsSound',
         \A w \in W : /\ ClaimSound(run'[w], row'[run'[w].s])
                      /\ HoldsOn(run[w], run'[w]) \/ (W = {w} /\ (Holds(run'[w]) => Alone(W, run'[w].s)))
                      /\ Named(run[w])'
  PROVE  KeptAndNamed'
<1>1. PackagesSent'  BY SentStays DEF KeptAndNamed, KeptInv
<1>2. \A v \in Workers : ClaimSound(run'[v], row'[run'[v].s])  BY ClaimStays DEF KeptAndNamed
<1>3. OneHolder'
  <2>1. ASSUME NEW v \in Workers, NEW w \in Workers, Holds(run'[v]), Holds(run'[w]), run'[v].s = run'[w].s  PROVE v = w
    <3>1. CASE HoldsOn(run[v], run'[v]) /\ HoldsOn(run[w], run'[w])
      BY <2>1, <3>1 DEF HoldsOn, KeptAndNamed, KeptInv, OneHolder
    <3>2. CASE ~HoldsOn(run[v], run'[v])
      <4>1. v \in W  BY <3>2 DEF HoldsOn
      <4>2. W = {v} /\ Alone(W, run'[v].s)  BY <2>1, <3>2, <4>1
      <4>3. w \notin W => Holds(run[w]) /\ run[w].s = run'[v].s  BY <2>1
      <4>. QED  BY <4>2, <4>3 DEF Alone
    <3>3. CASE ~HoldsOn(run[w], run'[w])
      <4>1. w \in W  BY <3>3 DEF HoldsOn
      <4>2. W = {w} /\ Alone(W, run'[w].s)  BY <2>1, <3>3, <4>1
      <4>3. v \notin W => Holds(run[v]) /\ run[v].s = run'[w].s  BY <2>1
      <4>. QED  BY <4>2, <4>3 DEF Alone
    <3>. QED  BY <3>1, <3>2, <3>3
  <2>. QED  BY <2>1 DEF OneHolder
<1>4. \A w \in Workers : Named(run[w])'
  <2>1. ASSUME NEW w \in Workers \ W  PROVE Named(run[w])'
    <3>1. PICK r : r = run[w]  OBVIOUS
    <3>2. Named(r)'  BY <3>1, NamedStays DEF KeptAndNamed, NamesInv
    <3>3. run'[w] = r  BY <3>1
    <3>. QED  BY <3>2, <3>3
  <2>. QED  BY <2>1
<1>5. KeptInv'  BY <1>1, <1>2, <1>3 DEF KeptInv
<1>6. NamesInv'  BY <1>4 DEF NamesInv, RowsNamed
<1>. QED  BY <1>5, <1>6 DEF KeptAndNamed

\* The step of one worker.
LEMMA OneMove ==
  ASSUME KeptAndNamed, SellerInv', NEW w \in Workers, NEW r, run' = [run EXCEPT ![w] = r],
         RowSteps({w}), SentStep, RowsNamed', ReceiptsSound', ClaimSound(r, row'[r.s]),
         HoldsOn(run[w], r) \/ (Holds(r) => Alone({w}, r.s)), Named(r)'
  PROVE  KeptAndNamed'
<1>1. run'[w] = r /\ \A v \in Workers \ {w} : run'[v] = run[v]  BY DEF KeptAndNamed, SellerInv, RunsSound
<1>2. Named(run[w])'  BY <1>1
<1>. QED  BY <1>1, <1>2, KeptFrame

\* A run that holds nothing and names nothing.
Loose(r) ==
  /\ ~Holds(r) /\ ~Switching(r) /\ ~NamesGem(r) /\ r.pc \notin {"claim", "hash", "registered"}
LEMMA LooseMove ==
  ASSUME KeptAndNamed, SellerInv', NEW w \in Workers, NEW r, run' = [run EXCEPT ![w] = r], Loose(r),
         RowSteps({w}), SentStep, RowsNamed', ReceiptsSound'
  PROVE  KeptAndNamed'
<1>1. ClaimSound(r, row'[r.s]) /\ ~Holds(r)  BY DEF Loose, ClaimSound
<1>2. Named(r)'  BY DEF Loose, Named
<1>. QED  BY <1>1, <1>2, OneMove

\* Nothing moves but rows.
LEMMA NoMove ==
  ASSUME KeptAndNamed, SellerInv', run' = run, RowSteps({}), SentStep, RowsNamed', ReceiptsSound'
  PROVE  KeptAndNamed'
<1>1. \A v \in Workers \ {} : run'[v] = run[v]  OBVIOUS
<1>. QED  BY <1>1, KeptFrame

\* What no part of it speaks of.
SameClaim(r, n) == n.started = r.started /\ n.stale = r.stale
SameSent(r, n) == n.pkg = r.pkg /\ n.floor = r.floor
SameNames(r, n) == n.gem = r.gem /\ n.hash = r.hash
CalmRows == \A s \in Submissions : /\ SameClaim(row[s], row'[s]) /\ SameSent(row[s], row'[s])
                                   /\ SameNames(row[s], row'[s])
LEMMA CalmSteps == ASSUME NEW W, CalmRows  PROVE RowSteps(W)
BY DEF CalmRows, SameClaim, SameSent, RowSteps, RowStep
LEMMA NamesKept ==
  ASSUME KeptAndNamed, SentStep, \A s \in Submissions : SameNames(row[s], row'[s])  PROVE RowsNamed'
<1>1. ASSUME NEW s \in Submissions  PROVE RowNames(s, row[s])'
  <2>1. PICK n : n = row'[s]  OBVIOUS
  <2>2. n.gem = row[s].gem /\ n.hash = row[s].hash  BY <2>1 DEF SameNames
  <2>3. RowNames(s, n)
    <3>1. RowNames(s, row[s])  BY DEF KeptAndNamed, NamesInv
    <3>. QED  BY <2>2, <3>1 DEF RowNames
  <2>4. RowNames(s, n)'  BY <2>3, RowNamesStay
  <2>. QED  BY <2>1, <2>4
<1>. QED  BY <1>1 DEF RowsNamed
LEMMA QuietSent == ASSUME KeptAndNamed, RegistryKept, receipts' = receipts  PROVE SentStep /\ ReceiptsSound'
<1>1. Registering' = Registering  BY CountStays DEF KeptAndNamed, SellerInv, World
<1>. QED  BY <1>1 DEF SentStep, RegistryKept, ReceiptsSound, KeptAndNamed, NamesInv

LEMMA CalmLoose ==
  ASSUME KeptAndNamed, SellerInv', CalmRows, RegistryKept, receipts' = receipts,
         NEW w \in Workers, NEW r, run' = [run EXCEPT ![w] = r], Loose(r)
  PROVE  KeptAndNamed'
BY QuietSent, CalmSteps, NamesKept, LooseMove DEF CalmRows
LEMMA CalmMove ==
  ASSUME KeptAndNamed, SellerInv', CalmRows, RegistryKept, receipts' = receipts,
         NEW w \in Workers, NEW r, run' = [run EXCEPT ![w] = r], ClaimSound(r, row'[r.s]),
         HoldsOn(run[w], r) \/ (Holds(r) => Alone({w}, r.s)), Named(r)
  PROVE  KeptAndNamed'
BY QuietSent, CalmSteps, NamesKept, OneMove, NamedStays DEF CalmRows
LEMMA CalmStill ==
  ASSUME KeptAndNamed, SellerInv', CalmRows, RegistryKept, receipts' = receipts, run' = run  PROVE KeptAndNamed'
BY QuietSent, CalmSteps, NamesKept, NoMove DEF CalmRows
LEMMA SameRowsCalm == ASSUME row' = row  PROVE CalmRows
BY DEF CalmRows, SameClaim, SameSent, SameNames

\* A row changes in what the invariant does not speak of.
LEMMA CalmRow ==
  ASSUME SellerInv, NEW s \in Submissions, NEW n, row' = [row EXCEPT ![s] = n],
         SameClaim(row[s], n), SameSent(row[s], n), SameNames(row[s], n)
  PROVE  CalmRows
BY DEF SellerInv, World, RowsSound, CalmRows, SameClaim, SameSent, SameNames

\* The holder of a claim is the only one.
LEMMA HoldsAlone == ASSUME KeptAndNamed, NEW w \in Workers, Holds(run[w])  PROVE Alone({w}, run[w].s)
BY DEF KeptAndNamed, KeptInv, OneHolder, Alone

\* The row of a submission nobody else holds.
LEMMA OneRowSteps ==
  ASSUME KeptAndNamed, NEW W, NEW s \in Submissions, NEW n, row' = [row EXCEPT ![s] = n], RowStep(W, s, row[s], n)
  PROVE  RowSteps(W)
BY DEF KeptAndNamed, SellerInv, World, RowsSound, RowSteps, RowStep
LEMMA OneRowNamed ==
  ASSUME KeptAndNamed, SentStep, NEW s \in Submissions, NEW n, row' = [row EXCEPT ![s] = n], RowNames(s, n)
  PROVE  RowsNamed'
<1>1. ASSUME NEW x \in Submissions  PROVE RowNames(x, row[x])'
  <2>1. PICK m : m = row'[x]  OBVIOUS
  <2>2. m = IF x = s THEN n ELSE row[x]  BY <2>1 DEF KeptAndNamed, SellerInv, World, RowsSound
  <2>3. RowNames(x, m)  BY <2>2 DEF KeptAndNamed, NamesInv
  <2>4. RowNames(x, m)'  BY <2>3, RowNamesStay
  <2>. QED  BY <2>1, <2>4
<1>. QED  BY <1>1 DEF RowsNamed

-----------------------------------------------------------------------------
(* The steps. *)

RecordOf(r) == DOMAIN r = RowFields
LEMMA RowIs == ASSUME SellerInv, NEW s \in Submissions  PROVE DOMAIN row[s] = RowFields
BY DEF SellerInv, World, RowsSound, RowSound

LEMMA StartNames ==
  ASSUME KeptAndNamed, SellerInv', NEW w \in Workers, NEW s \in Submissions, StartActivation(w, s)  PROVE KeptAndNamed'
<1>1. PICK r : r = [pc |-> "prepare", s |-> s, version |-> log[s].version, read |-> row[s], kind |-> "activation",
                    prior |-> 0, gem |-> None, status |-> 0, tx |-> None, then |-> "none"]
  OBVIOUS
<1>2. run' = [run EXCEPT ![w] = r]  BY <1>1 DEF StartActivation, Begin
<1>3. Loose(r)  BY <1>1 DEF Loose, Holds, Switching, NamesGem
<1>. QED  BY <1>2, <1>3, CalmLoose, SameRowsCalm, Quiet DEF StartActivation, Chain, chainVars

LEMMA IdleIsLoose == Loose(Idle)
BY DEF Loose, Idle, Holds, Switching, NamesGem

\* The failure of a run that is alone with its row.
LEMMA Failed ==
  ASSUME KeptAndNamed, NEW w \in Workers, NEW s \in Submissions, Alone({w}, s),
         persistStep(s, [row[s] EXCEPT !.activation = "failed", !.started = None, !.stale = FALSE])
  PROVE  RowSteps({w}) /\ (SentStep => RowsNamed')
<1>1. PICK n : n = [row[s] EXCEPT !.activation = "failed", !.started = None, !.stale = FALSE]  OBVIOUS
<1>2. row' = [row EXCEPT ![s] = n]  BY <1>1 DEF persistStep
<1>3. n.started = None /\ SameSent(row[s], n) /\ SameNames(row[s], n)
  BY <1>1, RowIs DEF KeptAndNamed, RowFields, SameSent, SameNames
<1>4. RowStep({w}, s, row[s], n)  BY <1>3 DEF RowStep, SameSent
<1>5. RowNames(s, n)  BY <1>3 DEF KeptAndNamed, NamesInv, RowNames, SameNames
<1>. QED  BY <1>2, <1>4, <1>5, OneRowSteps, OneRowNamed

LEMMA PrepareFailsNames ==
  ASSUME KeptAndNamed, SellerInv', NEW w \in Workers, PrepareFails(w), ClaimIsKept  PROVE KeptAndNamed'
<1>1. ActivationRun(run[w]) /\ run[w].s \in Submissions  BY ActivationsRun DEF KeptAndNamed, PrepareFails, ActivationRun
<1>2. Alone({w}, run[w].s)  BY DEF ClaimIsKept, Activating, Claimed, Alone, Holds
<1>3. SentStep /\ ReceiptsSound'  BY Quiet, QuietSent DEF PrepareFails, Chain, chainVars
<1>4. RowSteps({w}) /\ RowsNamed'  BY <1>1, <1>2, <1>3, Failed DEF PrepareFails
<1>. QED  BY <1>3, <1>4, Ends, IdleIsLoose, LooseMove DEF PrepareFails

LEMMA FailNames ==
  ASSUME KeptAndNamed, SellerInv', NEW w \in Workers, Fail(w)  PROVE KeptAndNamed'
<1>1. Holds(run[w])  BY DEF Fail, Claimed, Holds
<1>2. Alone({w}, run[w].s) /\ run[w].s \in Submissions  BY <1>1, HoldsAlone, ClaimsRun DEF KeptAndNamed
<1>3. SentStep /\ ReceiptsSound'  BY Quiet, QuietSent DEF Fail, Chain, chainVars
<1>4. RowSteps({w}) /\ RowsNamed'  BY <1>2, <1>3, Failed DEF Fail
<1>5. CASE run[w].pc = "lease"  BY <1>3, <1>4, <1>5, Ends, IdleIsLoose, LooseMove DEF Fail
<1>6. CASE run[w].pc # "lease"
  <2>1. PICK r : r = [run[w] EXCEPT !.pc = "release"]  OBVIOUS
  <2>2. run' = [run EXCEPT ![w] = r]  BY <1>6, <2>1, Goes DEF Fail
  <2>3. Loose(r)  BY <1>2, <1>1, <2>1, ClaimsRun DEF KeptAndNamed, ActivationRun, Loose, Holds, Switching, NamesGem
  <2>. QED  BY <1>3, <1>4, <2>2, <2>3, LooseMove
<1>. QED  BY <1>5, <1>6

LEMMA PrepareReadsNames ==
  ASSUME KeptAndNamed, SellerInv', NEW w \in Workers, PrepareReads(w)  PROVE KeptAndNamed'
<1>1. ActivationRun(run[w]) /\ run[w].s \in Submissions  BY ActivationsRun DEF KeptAndNamed, PrepareReads, ActivationRun
<1>2. PICK pc \in {"publish", "claim"} : pc = IF commitmentMayBeRebuilt(row[run[w].s]) THEN "publish" ELSE "claim"
  OBVIOUS
<1>3. PICK r : r = [run[w] EXCEPT !.read = row[run[w].s], !.pc = pc]  OBVIOUS
<1>4. run' = [run EXCEPT ![w] = r]  BY <1>2, <1>3 DEF PrepareReads
<1>5. r.pc = pc /\ r.s = run[w].s /\ r.kind = "activation" /\ r.read = row[r.s]  BY <1>1, <1>3 DEF ActivationRun
<1>6. row' = row  BY DEF PrepareReads
<1>7. ClaimSound(r, row'[r.s]) /\ ~Holds(r) /\ Named(r)
  BY <1>5, <1>6 DEF ClaimSound, Holds, Named, Switching, NamesGem
<1>. QED  BY <1>4, <1>6, <1>7, CalmMove, SameRowsCalm, Quiet DEF PrepareReads, Chain, chainVars

LEMMA PublishNames ==
  ASSUME KeptAndNamed, SellerInv', NEW w \in Workers, Publish(w)  PROVE KeptAndNamed'
<1>. DEFINE s == run[w].s
<1>1. ActivationRun(run[w]) /\ s \in Submissions  BY ActivationsRun DEF KeptAndNamed, Publish, ActivationRun
<1>2. SentStep /\ ReceiptsSound'  BY Quiet, QuietSent DEF Publish, Chain, chainVars
<1>3. CASE ~(NotRunning(row[s]) /\ commitmentMayBeRebuilt(row[s]))
  <2>1. row' = row /\ End(w)  BY <1>3 DEF Publish
  <2>. QED  BY <2>1, Ends, IdleIsLoose, CalmLoose, SameRowsCalm, Quiet DEF Publish, Chain, chainVars
<1>4. CASE NotRunning(row[s]) /\ commitmentMayBeRebuilt(row[s])
  <2>1. PICK n : n = Prepared(s)  OBVIOUS
  <2>2. row' = [row EXCEPT ![s] = n]  BY <1>4, <2>1 DEF Publish
  <2>3. SameClaim(row[s], n) /\ SameNames(row[s], n) /\ n.floor = row[s].floor
    BY <1>1, <2>1, RowIs DEF KeptAndNamed, Prepared, RowFields, SameClaim, SameNames
  <2>4. ~row[s].floor  BY <1>4 DEF commitmentMayBeRebuilt, registrationMayHaveBeenSent
  <2>5. Alone({w}, s)
    <3>1. ASSUME NEW v \in Workers, Holds(run[v]), run[v].s = s  PROVE FALSE
      <4>1. row[s].started # None /\ ~row[s].stale  BY <3>1 DEF KeptAndNamed, KeptInv, ClaimSound
      <4>. QED  BY <1>4, <4>1 DEF NotRunning
    <3>. QED  BY <3>1 DEF Alone
  <2>6. RowStep({w}, s, row[s], n)  BY <2>3, <2>4, <2>5 DEF RowStep, SameClaim
  <2>7. RowNames(s, n)  BY <1>1, <2>3 DEF KeptAndNamed, NamesInv, RowNames, SameNames
  <2>8. RowSteps({w}) /\ RowsNamed'  BY <1>1, <1>2, <2>2, <2>6, <2>7, OneRowSteps, OneRowNamed
  <2>9. row'[s] = n  BY <1>1, <2>2 DEF KeptAndNamed, SellerInv, World, RowsSound
  <2>10. PICK r : r = [run[w] EXCEPT !.read = n, !.pc = "claim"]  OBVIOUS
  <2>11. run' = [run EXCEPT ![w] = r]  BY <1>4, <2>9, <2>10 DEF Publish
  <2>12. r.pc = "claim" /\ r.s = s /\ r.kind = "activation" /\ r.read = n  BY <1>1, <2>10 DEF ActivationRun
  <2>13. ClaimSound(r, row'[r.s]) /\ ~Holds(r)  BY <2>9, <2>12 DEF ClaimSound, Holds
  <2>14. Named(r)'  BY <2>12 DEF Named, Holds, Switching, NamesGem
  <2>. QED  BY <1>2, <2>8, <2>11, <2>13, <2>14, OneMove
<1>. QED  BY <1>3, <1>4

LEMMA ClaimNames ==
  ASSUME KeptAndNamed, SellerInv', NEW w \in Workers, Claim(w)  PROVE KeptAndNamed'
<1>. DEFINE s == run[w].s  read == run[w].read
<1>1. ActivationRun(run[w]) /\ s \in Submissions /\ run[w].pc = "claim"
  BY ActivationsRun DEF KeptAndNamed, Claim, ActivationRun
<1>2. SentStep /\ ReceiptsSound'  BY Quiet, QuietSent DEF Claim, Chain, chainVars
<1>3. CASE ~Claimable(row[s], read)
  <2>1. row' = row /\ End(w)  BY <1>3 DEF Claim
  <2>. QED  BY <2>1, Ends, IdleIsLoose, CalmLoose, SameRowsCalm, Quiet DEF Claim, Chain, chainVars
<1>4. CASE Claimable(row[s], read)
  <2>1. PICK moment : moment = CHOOSE m \in Moments(s) : TRUE  OBVIOUS
  <2>2. moment \in Moments(s)  BY <2>1 DEF Claim
  <2>3. moment # None /\ \A v \in Workers : run[v].pc = "claim" => run[v].read.started # moment
    BY <2>2, NoneIsNoStamp DEF Moments
  <2>4. PICK n : n = [row[s] EXCEPT !.activation = "registering", !.stale = FALSE, !.started = moment,
                                    !.attempts = read.attempts + 1]
    OBVIOUS
  <2>5. row' = [row EXCEPT ![s] = n]  BY <1>4, <2>1, <2>4 DEF Claim
  <2>6. n.started = moment /\ ~n.stale /\ SameSent(row[s], n) /\ SameNames(row[s], n)
    BY <1>1, <2>4, RowIs DEF KeptAndNamed, RowFields, SameSent, SameNames
  <2>7. Alone({w}, s)
    <3>1. ASSUME NEW v \in Workers, Holds(run[v]), run[v].s = s  PROVE FALSE
      <4>1. row[s].started # None /\ ~row[s].stale  BY <3>1 DEF KeptAndNamed, KeptInv, ClaimSound
      <4>2. read.stale /\ read.started # None /\ read.started = row[s].started  BY <1>4, <4>1 DEF Claimable
      <4>3. ClaimSound(run[w], row[s])  BY DEF KeptAndNamed, KeptInv
      <4>. QED  BY <1>1, <4>1, <4>2, <4>3 DEF ClaimSound
    <3>. QED  BY <3>1 DEF Alone
  <2>8. RowStep({w}, s, row[s], n)  BY <2>3, <2>6, <2>7 DEF RowStep, SameSent
  <2>9. RowNames(s, n)  BY <1>1, <2>6 DEF KeptAndNamed, NamesInv, RowNames, SameNames
  <2>10. RowSteps({w}) /\ RowsNamed'  BY <1>1, <1>2, <2>5, <2>8, <2>9, OneRowSteps, OneRowNamed
  <2>11. PICK r : r = [run[w] EXCEPT !.prior = read.attempts, !.pc = "lease"]  OBVIOUS
  <2>12. run' = [run EXCEPT ![w] = r]  BY <1>4, <2>11 DEF Claim
  <2>13. r.pc = "lease" /\ r.s = s /\ r.kind = "activation" /\ r.gem = run[w].gem /\ r.read = read
    BY <1>1, <2>11 DEF ActivationRun
  <2>14. row'[s] = n  BY <1>1, <2>5 DEF KeptAndNamed, SellerInv, World, RowsSound
  <2>15. ClaimSound(r, row'[r.s])  BY <2>3, <2>6, <2>13, <2>14 DEF ClaimSound
  <2>16. Named(r)'  BY <2>13 DEF Named, Switching, NamesGem
  <2>. QED  BY <1>2, <2>7, <2>10, <2>12, <2>13, <2>15, <2>16, OneMove
<1>. QED  BY <1>3, <1>4

-----------------------------------------------------------------------------
(* The search of the logs. *)

LEMMA FirstOne ==
  ASSUME NEW S \in SUBSET Nat, S # {}
  PROVE  \E i \in S : \A k \in S : i <= k
<1>1. PICK R : R = OpToRel(<, Nat)  OBVIOUS
<1>2. IsWellFoundedOn(R, Nat)  BY <1>1, NatLessThanWellFounded
<1>3. \A x, y \in Nat : <<x, y>> \in R <=> x < y  BY <1>1 DEF OpToRel
<1>4. PICK i \in S : \A k \in S : ~(<<k, i>> \in R)  BY <1>2, WFMin
<1>5. ASSUME NEW k \in S  PROVE i <= k
  <2>1. i \in Nat /\ k \in Nat /\ ~(k < i)  BY <1>3, <1>4
  <2>. QED  BY <2>1
<1>. QED  BY <1>5

\* It finds the newest gem of the package.
LEMMA LatestFound ==
  ASSUME SellerInv, NEW S, S # {}, S \subseteq DOMAIN gems
  PROVE  (CHOOSE g \in S : \A h \in S : h <= g) \in S
<1>1. PICK n \in Nat : n = Len(gems) /\ DOMAIN gems = 1..n  BY DEF SellerInv, World, RegistryCounted, IsSeq
<1>2. PICK T : T = {n - i : i \in S}  OBVIOUS
<1>3. \A i \in S : i \in Nat /\ i <= n /\ n - i \in Nat  BY <1>1
<1>4. T \in SUBSET Nat /\ T # {}  BY <1>2, <1>3
<1>5. PICK x \in T : \A y \in T : x <= y  BY <1>4, FirstOne
<1>6. PICK i \in S : x = n - i  BY <1>2, <1>5
<1>7. ASSUME NEW k \in S  PROVE k <= i
  <2>1. n - k \in T /\ n - k \in Nat  BY <1>2, <1>3
  <2>. QED  BY <1>3, <1>5, <1>6, <2>1
<1>. QED  BY <1>7

LEMMA LeaseNames ==
  ASSUME KeptAndNamed, SellerInv', NEW w \in Workers, Lease(w)  PROVE KeptAndNamed'
<1>1. run[w].pc = "lease" /\ ActivationRun(run[w]) /\ run[w].s \in Submissions
  BY ActivationsRun DEF KeptAndNamed, Lease, ActivationRun
<1>2. PICK r : r = [run[w] EXCEPT !.read = row[run[w].s], !.pc = "approve"]  OBVIOUS
<1>3. run' = [run EXCEPT ![w] = r]  BY <1>2 DEF Lease
<1>4. r.pc = "approve" /\ r.s = run[w].s /\ r.kind = "activation" /\ r.read = row[r.s]  BY <1>1, <1>2 DEF ActivationRun
<1>5. row' = row  BY DEF Lease
<1>6. ClaimSound(r, row'[r.s]) /\ HoldsOn(run[w], r)
  <2>1. ClaimSound(run[w], row[run[w].s]) /\ Holds(run[w])  BY <1>1 DEF KeptAndNamed, KeptInv, Holds, ActivationRun
  <2>. QED  BY <1>4, <1>5, <2>1 DEF ClaimSound, HoldsOn
<1>7. Named(r)  BY <1>1, <1>4 DEF KeptAndNamed, NamesInv, Named, Switching, NamesGem
<1>. QED  BY <1>3, <1>5, <1>6, <1>7, CalmMove, SameRowsCalm, Quiet DEF Lease, Chain, chainVars

\* A run that holds its claim goes on with it.
LEMMA ClaimGoesOn ==
  ASSUME KeptAndNamed, NEW w \in Workers, Holds(run[w]), run[w].pc # "lease", NEW r, r.s = run[w].s, r.read = run[w].read,
         r.pc \notin {"register", "claim"}
  PROVE  ClaimSound(r, row[r.s]) /\ HoldsOn(run[w], r)
<1>1. ClaimSound(run[w], row[run[w].s])  BY DEF KeptAndNamed, KeptInv
<1>. QED  BY <1>1 DEF ClaimSound, HoldsOn

LEMMA SendsReceipts == ASSUME NEW tx, Send(tx)  PROVE receipts' = receipts
BY DEF Send

LEMMA ApproveNames ==
  ASSUME KeptAndNamed, SellerInv', NEW w \in Workers, Approve(w)  PROVE KeptAndNamed'
<1>1. run[w].pc = "approve" /\ ActivationRun(run[w])  BY ActivationsRun DEF KeptAndNamed, Approve
<1>2. row' = row /\ Holds(run[w])  BY <1>1 DEF Approve, Holds, ActivationRun
<1>3. CASE approved
  <2>1. Go(w, "recover") /\ Chain  BY <1>3 DEF Approve
  <2>2. PICK r : r = [run[w] EXCEPT !.pc = "recover"]  OBVIOUS
  <2>3. r.pc = "recover" /\ r.s = run[w].s /\ r.read = run[w].read /\ r.kind = "activation"  BY <1>1, <2>2 DEF ActivationRun
  <2>4. ClaimSound(r, row'[r.s]) /\ HoldsOn(run[w], r)  BY <1>1, <1>2, <2>3, ClaimGoesOn
  <2>5. Named(r)
    <3>1. Named(run[w])  BY DEF KeptAndNamed, NamesInv
    <3>. QED  BY <1>1, <1>2, <2>3, <3>1 DEF Named, Switching, NamesGem
  <2>. QED  BY <1>2, <2>1, <2>2, <2>4, <2>5, Goes, CalmMove, SameRowsCalm, Quiet DEF Chain, chainVars
<1>4. CASE ~approved
  <2>1. Write(w, "setSellerApproval", run[w].s, "recover")  BY <1>4 DEF Approve
  <2>2. RegistryKept /\ \E tx : Waits(w, tx, "recover")  BY <2>1, Writes DEF OtherFns
  <2>3. PICK tx : run' = [run EXCEPT ![w] = [run[w] EXCEPT !.tx = tx, !.pc = "wait", !.then = "recover"]]
    BY <2>2 DEF Waits
  <2>4. PICK r : r = [run[w] EXCEPT !.tx = tx, !.pc = "wait", !.then = "recover"]  OBVIOUS
  <2>5. r.pc = "wait" /\ r.then = "recover" /\ r.s = run[w].s /\ r.read = run[w].read /\ r.kind = "activation"
    BY <1>1, <2>4 DEF ActivationRun
  <2>6. ClaimSound(r, row'[r.s]) /\ HoldsOn(run[w], r)  BY <1>1, <1>2, <2>5, ClaimGoesOn
  <2>7. Named(r)
    <3>1. Named(run[w])  BY DEF KeptAndNamed, NamesInv
    <3>. QED  BY <1>1, <1>2, <2>5, <3>1 DEF Named, Switching, NamesGem
  <2>8. receipts' = receipts  BY <2>1, SendsReceipts DEF Write
  <2>. QED  BY <1>2, <2>2, <2>3, <2>4, <2>6, <2>7, <2>8, CalmMove, SameRowsCalm
<1>. QED  BY <1>3, <1>4

\* A gem that recovery finds is the submission's own.
LEMMA RecoveredIsOwn ==
  ASSUME KeptAndNamed, NEW w \in Workers, run[w].pc = "recover", Holds(run[w]),
         NEW gem, gem = recoverRegisteredGem(run[w].read) \/ gem = run[w].read.gem
  PROVE  OwnGem(run[w].s, gem)
<1>1. RowNames(run[w].s, run[w].read) /\ run[w].read.pkg \in PackageOf(run[w].s)
  BY ClaimsRun DEF KeptAndNamed, NamesInv, Named, ActivationRun
<1>2. PICK read, s : read = run[w].read /\ s = run[w].s  OBVIOUS
<1>3. CASE gem = read.gem  BY <1>1, <1>2, <1>3 DEF RowNames
<1>4. CASE gem = recoverRegisteredGem(read) /\ ByHash(read) # {}
  <2>1. PICK r : r = CHOOSE rc \in ByHash(read) : TRUE  OBVIOUS
  <2>2. r \in ByHash(read) /\ gem = r.gem  BY <1>4, <2>1 DEF recoverRegisteredGem
  <2>3. r \in receipts /\ r.tx = read.hash /\ read.hash # None  BY <2>2 DEF ByHash, ReceiptOf
  <2>4. gems[r.gem].pkg = read.hash.arg /\ r.gem \in DOMAIN gems  BY <2>3 DEF KeptAndNamed, NamesInv, ReceiptsSound
  <2>. QED  BY <1>1, <1>2, <2>2, <2>3, <2>4 DEF RowNames, OwnGem
<1>5. CASE gem = recoverRegisteredGem(read) /\ ByHash(read) = {} /\ gem # None
  <2>1. PICK found : found = {g \in DOMAIN gems : gems[g].pkg = read.pkg}  OBVIOUS
  <2>2. gem = findRegisteredGem(read.pkg)  BY <1>5 DEF recoverRegisteredGem
  <2>3. found # {} /\ gem = CHOOSE g \in found : \A h \in found : h <= g  BY <1>5, <2>1, <2>2 DEF findRegisteredGem
  <2>4. found \subseteq DOMAIN gems /\ SellerInv  BY <2>1 DEF KeptAndNamed
  <2>5. (CHOOSE g \in found : \A h \in found : h <= g) \in found  BY <2>3, <2>4, LatestFound
  <2>6. gem \in found  BY <2>3, <2>5
  <2>. QED  BY <1>1, <1>2, <2>1, <2>6 DEF OwnGem, PackageOf
<1>. QED  BY <1>2, <1>3, <1>4, <1>5 DEF OwnGem

\* A holder records something in its row and goes on.
LEMMA HolderRecords ==
  ASSUME KeptAndNamed, SellerInv', NEW w \in Workers, Holds(run[w]), run[w].pc # "lease",
         NEW r, run' = [run EXCEPT ![w] = r], NEW n, row' = [row EXCEPT ![run[w].s] = n], RegistryKept, receipts' = receipts,
         n.pkg = row[run[w].s].pkg, row[run[w].s].floor => n.floor, RowNames(run[w].s, n),
         n.started = None \/ SameClaim(row[run[w].s], n),
         \/ Loose(r)
         \/ /\ SameClaim(row[run[w].s], n) /\ r.s = run[w].s /\ r.read = run[w].read /\ r.pc # "claim"
            /\ r.pc = "register" => n.floor
            /\ Named(r)
  PROVE  KeptAndNamed'
<1>1. PICK s \in Submissions : s = run[w].s  BY ClaimsRun DEF KeptAndNamed
<1>2. Alone({w}, s)  BY <1>1, HoldsAlone
<1>3. SentStep /\ ReceiptsSound'  BY QuietSent
<1>4. RowStep({w}, s, row[s], n)  BY <1>1, <1>2 DEF RowStep, SameClaim
<1>5. RowSteps({w}) /\ RowsNamed'  BY <1>1, <1>3, <1>4, OneRowSteps, OneRowNamed
<1>6. CASE Loose(r)  BY <1>3, <1>5, <1>6, LooseMove
<1>7. CASE /\ SameClaim(row[s], n) /\ r.s = s /\ r.read = run[w].read /\ r.pc # "claim"
           /\ r.pc = "register" => n.floor
           /\ Named(r)
  <2>1. row'[s] = n  BY <1>1 DEF KeptAndNamed, SellerInv, World, RowsSound
  <2>2. ClaimSound(run[w], row[s])  BY <1>1 DEF KeptAndNamed, KeptInv
  <2>3. ClaimSound(r, row'[r.s]) /\ HoldsOn(run[w], r)  BY <1>1, <1>7, <2>1, <2>2 DEF ClaimSound, HoldsOn, SameClaim
  <2>4. Named(r)'  BY <1>3, <1>7, NamedStays
  <2>. QED  BY <1>3, <1>5, <2>3, <2>4, OneMove
<1>. QED  BY <1>1, <1>6, <1>7

\* A holder goes on without a record.
LEMMA HolderGoes ==
  ASSUME KeptAndNamed, SellerInv', NEW w \in Workers, Holds(run[w]), run[w].pc # "lease",
         NEW r, run' = [run EXCEPT ![w] = r], row' = row, RegistryKept, receipts' = receipts,
         \/ Loose(r)
         \/ r.s = run[w].s /\ r.read = run[w].read /\ r.pc \notin {"claim", "register"} /\ Named(r)
  PROVE  KeptAndNamed'
<1>1. CASE Loose(r)  BY <1>1, CalmLoose, SameRowsCalm
<1>2. CASE r.s = run[w].s /\ r.read = run[w].read /\ r.pc \notin {"claim", "register"} /\ Named(r)
  BY <1>2, ClaimGoesOn, CalmMove, SameRowsCalm
<1>. QED  BY <1>1, <1>2

LEMMA RecoverNames ==
  ASSUME KeptAndNamed, SellerInv', NEW w \in Workers, Recover(w)  PROVE KeptAndNamed'
<1>1. run[w].pc = "recover" /\ ActivationRun(run[w]) /\ Holds(run[w])
  BY ActivationsRun DEF KeptAndNamed, Recover, ActivationRun, Holds
<1>2. PICK gem : gem = IF run[w].read.gem # None THEN run[w].read.gem
                       ELSE IF run[w].prior > 0 \/ registrationMayHaveBeenSent(run[w].read)
                            THEN recoverRegisteredGem(run[w].read) ELSE None
  OBVIOUS
<1>3. PICK pc \in {"floor", "advance"} : pc = IF gem = None THEN "floor" ELSE "advance"  OBVIOUS
<1>4. PICK st : st = IF gem = None THEN 0 ELSE gems[gem].status  OBVIOUS
<1>5. PICK r : r = [run[w] EXCEPT !.gem = gem, !.pc = pc, !.status = st]  OBVIOUS
<1>6. run' = [run EXCEPT ![w] = r]
  <2>1. run' = [run EXCEPT ![w].gem = gem, ![w].pc = pc, ![w].status = st]  BY <1>2, <1>3, <1>4 DEF Recover
  <2>. QED  BY <2>1, <1>5, Zenon
<1>7. r.pc = pc /\ r.s = run[w].s /\ r.read = run[w].read /\ r.kind = "activation" /\ r.gem = gem
  BY <1>1, <1>5 DEF ActivationRun
<1>8. OwnGem(run[w].s, gem)
  <2>1. gem = None \/ gem = recoverRegisteredGem(run[w].read) \/ gem = run[w].read.gem  BY <1>2
  <2>. QED  BY <1>1, <2>1, RecoveredIsOwn DEF OwnGem
<1>9. Named(r)
  <2>1. Named(run[w])  BY DEF KeptAndNamed, NamesInv
  <2>. QED  BY <1>1, <1>3, <1>7, <1>8, <2>1 DEF Named, Switching, NamesGem
<1>10. RegistryKept /\ receipts' = receipts  BY Quiet DEF Recover, Chain, chainVars
<1>11. CASE row' = row  BY <1>1, <1>3, <1>6, <1>7, <1>9, <1>10, <1>11, HolderGoes
<1>12. CASE persistStep(run[w].s, [row[run[w].s] EXCEPT !.gem = gem, !.activation = "registered"])
  <2>1. PICK n : n = [row[run[w].s] EXCEPT !.gem = gem, !.activation = "registered"]  OBVIOUS
  <2>2. row' = [row EXCEPT ![run[w].s] = n]  BY <1>12, <2>1 DEF persistStep
  <2>3. PICK s \in Submissions : s = run[w].s  BY <1>1, ClaimsRun DEF KeptAndNamed
  <2>4. SameSent(row[s], n) /\ SameClaim(row[s], n) /\ n.gem = gem /\ n.hash = row[s].hash
    BY <2>1, <2>3, RowIs DEF KeptAndNamed, RowFields, SameSent, SameClaim
  <2>5. RowNames(s, n)
    <3>1. RowNames(s, row[s])  BY DEF KeptAndNamed, NamesInv
    <3>. QED  BY <1>8, <2>3, <2>4, <3>1 DEF RowNames
  <2>. QED  BY <1>1, <1>3, <1>6, <1>7, <1>9, <1>10, <2>2, <2>3, <2>4, <2>5, HolderRecords DEF SameSent
<1>13. row' = row \/ persistStep(run[w].s, [row[run[w].s] EXCEPT !.gem = gem, !.activation = "registered"])
  BY <1>2 DEF Recover
<1>. QED  BY <1>11, <1>12, <1>13

LEMMA RecordFloorNames ==
  ASSUME KeptAndNamed, SellerInv', NEW w \in Workers, RecordFloor(w)  PROVE KeptAndNamed'
<1>1. run[w].pc = "floor" /\ ActivationRun(run[w]) /\ Holds(run[w])
  BY ActivationsRun DEF KeptAndNamed, RecordFloor, ActivationRun, Holds
<1>2. PICK s \in Submissions : s = run[w].s  BY <1>1, ClaimsRun DEF KeptAndNamed
<1>3. PICK n : n = [row[s] EXCEPT !.floor = TRUE]  OBVIOUS
<1>4. row' = [row EXCEPT ![s] = n]  BY <1>2, <1>3 DEF RecordFloor, persistStep
<1>5. n.floor /\ n.pkg = row[s].pkg /\ SameClaim(row[s], n) /\ SameNames(row[s], n)
  BY <1>2, <1>3, RowIs DEF KeptAndNamed, RowFields, SameClaim, SameNames
<1>6. PICK r : r = [run[w] EXCEPT !.pc = "register"]  OBVIOUS
<1>7. run' = [run EXCEPT ![w] = r]  BY <1>6, Goes DEF RecordFloor
<1>8. r.pc = "register" /\ r.s = run[w].s /\ r.read = run[w].read /\ r.kind = "activation" /\ r.gem = run[w].gem
  BY <1>1, <1>6 DEF ActivationRun
<1>9. Named(r)
  <2>1. Named(run[w])  BY DEF KeptAndNamed, NamesInv
  <2>. QED  BY <1>1, <1>8, <2>1 DEF Named, Switching, NamesGem
<1>10. RowNames(s, n)  BY <1>5 DEF KeptAndNamed, NamesInv, RowNames, SameNames
<1>11. RegistryKept /\ receipts' = receipts  BY Quiet DEF RecordFloor, Chain, chainVars
<1>. QED  BY <1>1, <1>2, <1>4, <1>5, <1>7, <1>8, <1>9, <1>10, <1>11, HolderRecords

\* The registration that is sent is of the package of its row.
LEMMA SentIsRows ==
  ASSUME KeptAndNamed, NEW w \in Workers, run[w].pc = "register", Holds(run[w]),
         Send(Tx("registerGem", run[w].read.pkg, run[w].s)), RowSteps({w})
  PROVE  SentStep /\ ReceiptsSound' /\ run[w].read.pkg[1] = run[w].s
<1>1. PICK p, s : p = run[w].read.pkg /\ s = run[w].s  OBVIOUS
<1>2. s \in Submissions /\ p \in PackageOf(s) /\ p = row[s].pkg /\ row[s].floor
  BY <1>1, ClaimsRun DEF KeptAndNamed, KeptInv, ClaimSound, ActivationRun
<1>3. p[1] = s  BY <1>2 DEF PackageOf
<1>4. row'[s].pkg = p /\ row'[s].floor  BY <1>2 DEF RowSteps, RowStep
<1>5. SentOf(p)'  BY <1>3, <1>4 DEF SentOf
<1>6. PICK tx : tx = Tx("registerGem", p, s)  OBVIOUS
<1>7. tx.fn = "registerGem" /\ tx.arg = p  BY <1>6, TxIs
<1>8. pending' = pending \cup {tx} /\ gems' = gems /\ receipts' = receipts  BY <1>1, <1>6 DEF Send
<1>9. \A x \in Registering' : x \in Registering \/ SentOf(x.arg)'  BY <1>5, <1>7, <1>8 DEF Registering
<1>10. SentStep  BY <1>8, <1>9 DEF SentStep
<1>11. ReceiptsSound'  BY <1>8 DEF KeptAndNamed, NamesInv, ReceiptsSound
<1>. QED  BY <1>1, <1>3, <1>10, <1>11

LEMMA RegisterNames ==
  ASSUME KeptAndNamed, SellerInv', NEW w \in Workers, Register(w)  PROVE KeptAndNamed'
<1>1. run[w].pc = "register" /\ ActivationRun(run[w]) /\ Holds(run[w])
  BY ActivationsRun DEF KeptAndNamed, Register, ActivationRun, Holds
<1>2. row' = row  BY DEF Register
<1>3. RowSteps({w})  BY <1>2, SameRowsCalm, CalmSteps
<1>4. SentStep /\ ReceiptsSound' /\ run[w].read.pkg[1] = run[w].s  BY <1>1, <1>3, SentIsRows DEF Register
<1>5. RowsNamed'  BY <1>2, <1>4, SameRowsCalm, NamesKept DEF CalmRows
<1>6. PICK tx : tx = Tx("registerGem", run[w].read.pkg, run[w].s)  OBVIOUS
<1>7. PICK r : r = [run[w] EXCEPT !.tx = tx, !.pc = "hash"]  OBVIOUS
<1>8. run' = [run EXCEPT ![w] = r]  BY <1>6, <1>7 DEF Register
<1>9. r.pc = "hash" /\ r.s = run[w].s /\ r.read = run[w].read /\ r.kind = "activation" /\ r.tx.arg[1] = r.s
  BY <1>1, <1>4, <1>6, <1>7, TxIs DEF ActivationRun
<1>10. ClaimSound(r, row'[r.s]) /\ HoldsOn(run[w], r)  BY <1>1, <1>2, <1>9, ClaimGoesOn
<1>11. Named(r)
  <2>1. Named(run[w])  BY DEF KeptAndNamed, NamesInv
  <2>. QED  BY <1>1, <1>9, <2>1 DEF Named, Switching, NamesGem
<1>12. Named(r)'  BY <1>4, <1>11, NamedStays
<1>. QED  BY <1>3, <1>4, <1>5, <1>8, <1>10, <1>12, OneMove

LEMMA RegisterReplyLostNames ==
  ASSUME KeptAndNamed, SellerInv', NEW w \in Workers, RegisterReplyLost(w)  PROVE KeptAndNamed'
<1>1. run[w].pc = "register" /\ ActivationRun(run[w]) /\ Holds(run[w])
  BY ActivationsRun DEF KeptAndNamed, RegisterReplyLost, ActivationRun, Holds
<1>2. Alone({w}, run[w].s) /\ run[w].s \in Submissions  BY <1>1, HoldsAlone, ClaimsRun DEF KeptAndNamed
<1>3. RowSteps({w}) /\ (SentStep => RowsNamed')  BY <1>2, Failed DEF RegisterReplyLost
<1>4. SentStep /\ ReceiptsSound'  BY <1>1, <1>3, SentIsRows DEF RegisterReplyLost
<1>5. PICK r : r = [run[w] EXCEPT !.pc = "release"]  OBVIOUS
<1>6. run' = [run EXCEPT ![w] = r]  BY <1>5, Goes DEF RegisterReplyLost
<1>7. Loose(r)  BY <1>1, <1>5 DEF ActivationRun, Loose, Holds, Switching, NamesGem
<1>. QED  BY <1>3, <1>4, <1>6, <1>7, LooseMove

LEMMA RecordHashNames ==
  ASSUME KeptAndNamed, SellerInv', NEW w \in Workers, RecordHash(w)  PROVE KeptAndNamed'
<1>1. run[w].pc = "hash" /\ ActivationRun(run[w]) /\ Holds(run[w])
  BY ActivationsRun DEF KeptAndNamed, RecordHash, ActivationRun, Holds
<1>2. PICK s \in Submissions : s = run[w].s  BY <1>1, ClaimsRun DEF KeptAndNamed
<1>3. PICK n : n = [row[s] EXCEPT !.hash = run[w].tx]  OBVIOUS
<1>4. row' = [row EXCEPT ![s] = n]  BY <1>2, <1>3 DEF RecordHash, persistStep
<1>5. SameSent(row[s], n) /\ SameClaim(row[s], n) /\ n.gem = row[s].gem /\ n.hash = run[w].tx
  BY <1>2, <1>3, RowIs DEF KeptAndNamed, RowFields, SameClaim, SameSent
<1>6. PICK r : r = [run[w] EXCEPT !.pc = "registered"]  OBVIOUS
<1>7. run' = [run EXCEPT ![w] = r]  BY <1>6, Goes DEF RecordHash
<1>8. r.pc = "registered" /\ r.s = run[w].s /\ r.read = run[w].read /\ r.kind = "activation" /\ r.tx = run[w].tx
  BY <1>1, <1>6 DEF ActivationRun
<1>9. Named(run[w])  BY DEF KeptAndNamed, NamesInv
<1>10. Named(r)  BY <1>1, <1>8, <1>9 DEF Named, Switching, NamesGem
<1>11. RowNames(s, n)
  <2>1. RowNames(s, row[s])  BY DEF KeptAndNamed, NamesInv
  <2>. QED  BY <1>1, <1>2, <1>5, <1>9, <2>1 DEF RowNames, Named
<1>12. RegistryKept /\ receipts' = receipts  BY Quiet DEF RecordHash, Chain, chainVars
<1>. QED  BY <1>1, <1>2, <1>4, <1>5, <1>7, <1>8, <1>10, <1>11, <1>12, HolderRecords DEF SameSent

LEMMA RegisteredGemNames ==
  ASSUME KeptAndNamed, SellerInv', NEW w \in Workers, RegisteredGem(w)  PROVE KeptAndNamed'
<1>1. run[w].pc = "registered" /\ ActivationRun(run[w]) /\ Holds(run[w])
  BY ActivationsRun DEF KeptAndNamed, RegisteredGem, ActivationRun, Holds
<1>2. PICK rc \in ReceiptOf(run[w].tx) :
        /\ run' = [run EXCEPT ![w].gem = rc.gem, ![w].status = gems[rc.gem].status, ![w].pc = "advance"]
        /\ persistStep(run[w].s, [row[run[w].s] EXCEPT !.gem = rc.gem, !.activation = "registered"])
        /\ OffChain /\ Chain
  BY DEF RegisteredGem
<1>3. PICK r : r = [run[w] EXCEPT !.gem = rc.gem, !.status = gems[rc.gem].status, !.pc = "advance"]  OBVIOUS
<1>4. run' = [run EXCEPT ![w] = r]  BY <1>2, <1>3, Zenon
<1>5. PICK s \in Submissions : s = run[w].s  BY <1>1, ClaimsRun DEF KeptAndNamed
<1>6. PICK n : n = [row[s] EXCEPT !.gem = rc.gem, !.activation = "registered"]  OBVIOUS
<1>7. row' = [row EXCEPT ![s] = n]  BY <1>2, <1>5, <1>6 DEF persistStep
<1>8. SameSent(row[s], n) /\ SameClaim(row[s], n) /\ n.hash = row[s].hash /\ n.gem = rc.gem
  BY <1>5, <1>6, RowIs DEF KeptAndNamed, RowFields, SameClaim, SameSent
<1>9. Named(run[w])  BY DEF KeptAndNamed, NamesInv
<1>10. OwnGem(s, rc.gem) /\ rc.gem # None
  <2>1. rc \in receipts /\ rc.tx = run[w].tx  BY DEF ReceiptOf
  <2>2. rc.gem \in DOMAIN gems /\ gems[rc.gem].pkg = run[w].tx.arg  BY <2>1 DEF KeptAndNamed, NamesInv, ReceiptsSound
  <2>3. run[w].tx.arg[1] = s  BY <1>1, <1>5, <1>9 DEF Named
  <2>4. rc.gem # None  BY <2>2, NoneIsNoStamp DEF KeptAndNamed, SellerInv, World, RegistryCounted, IsSeq
  <2>. QED  BY <2>2, <2>3, <2>4 DEF OwnGem
<1>11. r.pc = "advance" /\ r.s = s /\ r.read = run[w].read /\ r.kind = "activation" /\ r.gem = rc.gem
  BY <1>1, <1>3, <1>5 DEF ActivationRun
<1>12. Named(r)  BY <1>1, <1>5, <1>9, <1>10, <1>11 DEF Named, Switching, NamesGem
<1>13. RowNames(s, n)
  <2>1. RowNames(s, row[s])  BY DEF KeptAndNamed, NamesInv
  <2>. QED  BY <1>8, <1>10, <2>1 DEF RowNames
<1>14. RegistryKept /\ receipts' = receipts  BY <1>2, Quiet DEF Chain, chainVars
<1>. QED  BY <1>1, <1>4, <1>5, <1>7, <1>8, <1>11, <1>12, <1>13, <1>14, HolderRecords DEF SameSent

\* A holder that waits for a write that registers nothing.
LEMMA HolderWaits ==
  ASSUME KeptAndNamed, SellerInv', NEW w \in Workers, Holds(run[w]), run[w].pc # "lease", row' = row,
         NEW fn \in OtherFns, NEW arg, NEW then, Write(w, fn, arg, then), NamesGem(run[w]) \/ then = "recover"
  PROVE  KeptAndNamed'
<1>1. RegistryKept /\ \E tx : Waits(w, tx, then)  BY Writes
<1>2. PICK tx : run' = [run EXCEPT ![w] = [run[w] EXCEPT !.tx = tx, !.pc = "wait", !.then = then]]  BY <1>1 DEF Waits
<1>3. PICK r : r = [run[w] EXCEPT !.tx = tx, !.pc = "wait", !.then = then]  OBVIOUS
<1>4. /\ r.pc = "wait" /\ r.then = then /\ r.s = run[w].s /\ r.read = run[w].read
      /\ r.kind = "activation" /\ r.gem = run[w].gem
  BY <1>3, ClaimsRun DEF KeptAndNamed, ActivationRun
<1>5. Named(r)
  <2>1. Named(run[w])  BY DEF KeptAndNamed, NamesInv
  <2>. QED  BY <1>4, <2>1 DEF Named, Switching, NamesGem
<1>6. receipts' = receipts  BY SendsReceipts DEF Write
<1>7. run' = [run EXCEPT ![w] = r]  BY <1>2, <1>3
<1>8. r.s = run[w].s /\ r.read = run[w].read /\ r.pc \notin {"claim", "register"} /\ Named(r)  BY <1>4, <1>5
<1>. QED  BY <1>1, <1>6, <1>7, <1>8, HolderGoes

LEMMA AdvanceNames ==
  ASSUME KeptAndNamed, SellerInv', NEW w \in Workers, Advance(w)  PROVE KeptAndNamed'
<1>1. run[w].pc = "advance" /\ ActivationRun(run[w]) /\ Holds(run[w]) /\ NamesGem(run[w])
  BY ActivationsRun DEF KeptAndNamed, Advance, ActivationRun, Holds, NamesGem
<1>2. PICK fn : fn = AdvanceFn(run[w].status).fn  OBVIOUS
<1>3. fn \in OtherFns  BY <1>2 DEF AdvanceFn, OtherFns
<1>4. PICK arg : arg = IF fn = "listGem" THEN <<run[w].gem, run[w].read.mode>> ELSE run[w].gem  OBVIOUS
<1>5. Write(w, fn, arg, "advanced") /\ row' = row  BY <1>2, <1>4 DEF Advance
<1>. QED  BY <1>1, <1>3, <1>5, HolderWaits

LEMMA AdvancedNames ==
  ASSUME KeptAndNamed, SellerInv', NEW w \in Workers, Advanced(w)  PROVE KeptAndNamed'
<1>1. run[w].pc = "advanced" /\ ActivationRun(run[w]) /\ Holds(run[w]) /\ NamesGem(run[w])
  BY ActivationsRun DEF KeptAndNamed, Advanced, ActivationRun, Holds, NamesGem
<1>2. PICK s \in Submissions : s = run[w].s  BY <1>1, ClaimsRun DEF KeptAndNamed
<1>3. PICK done : done = AdvanceFn(run[w].status).done  OBVIOUS
<1>4. PICK st : st = IF run[w].status < GemStatus.Listed THEN run[w].status + 1 ELSE run[w].status  OBVIOUS
<1>5. PICK r : r = [run[w] EXCEPT !.pc = "advance", !.status = st]  OBVIOUS
<1>6. run' = [run EXCEPT ![w] = r]
  <2>1. run' = [run EXCEPT ![w].pc = "advance",
                           ![w].status = IF run[w].status < GemStatus.Listed THEN @ + 1 ELSE @]
    BY DEF Advanced
  <2>2. w \in DOMAIN run /\ DOMAIN run[w] = {"pc", "s", "version", "read", "kind", "prior", "gem", "status", "tx", "then"}
    BY <1>1 DEF KeptAndNamed, SellerInv, RunsSound, ActivationRun
  <2>. QED  BY <2>1, <2>2, <1>4, <1>5
<1>7. PICK n : n = [row[s] EXCEPT !.activation = done]  OBVIOUS
<1>8. row' = [row EXCEPT ![s] = n]  BY <1>2, <1>3, <1>7 DEF Advanced, persistStep
<1>9. SameSent(row[s], n) /\ SameClaim(row[s], n) /\ SameNames(row[s], n)
  BY <1>2, <1>7, RowIs DEF KeptAndNamed, RowFields, SameClaim, SameSent, SameNames
<1>10. r.pc = "advance" /\ r.s = s /\ r.read = run[w].read /\ r.kind = "activation" /\ r.gem = run[w].gem
  BY <1>1, <1>2, <1>5 DEF ActivationRun
<1>11. Named(r)
  <2>1. Named(run[w])  BY DEF KeptAndNamed, NamesInv
  <2>. QED  BY <1>1, <1>2, <1>10, <2>1 DEF Named, Switching, NamesGem
<1>12. RowNames(s, n)  BY <1>9 DEF KeptAndNamed, NamesInv, RowNames, SameNames
<1>13. RegistryKept /\ receipts' = receipts  BY Quiet DEF Advanced, Chain, chainVars
<1>. QED  BY <1>1, <1>2, <1>6, <1>8, <1>9, <1>10, <1>11, <1>12, <1>13, HolderRecords DEF SameSent

LEMMA ListingDoneNames ==
  ASSUME KeptAndNamed, SellerInv', NEW w \in Workers, ListingDone(w)  PROVE KeptAndNamed'
<1>1. run[w].pc = "advance" /\ ActivationRun(run[w]) /\ Holds(run[w]) /\ NamesGem(run[w])
  BY ActivationsRun DEF KeptAndNamed, ListingDone, ActivationRun, Holds, NamesGem
<1>2. PICK s \in Submissions : s = run[w].s  BY <1>1, ClaimsRun DEF KeptAndNamed
<1>3. RegistryKept /\ receipts' = receipts  BY Quiet DEF ListingDone, Chain, chainVars
<1>4. CASE run[w].read.mode = "seller_mint"
  <2>1. Go(w, "mint") /\ row' = row  BY <1>4 DEF ListingDone
  <2>2. PICK r : r = [run[w] EXCEPT !.pc = "mint"]  OBVIOUS
  <2>3. r.pc = "mint" /\ r.s = s /\ r.read = run[w].read /\ r.kind = "activation" /\ r.gem = run[w].gem
    BY <1>1, <1>2, <2>2 DEF ActivationRun
  <2>4. Named(r)
    <3>1. Named(run[w])  BY DEF KeptAndNamed, NamesInv
    <3>. QED  BY <1>1, <1>2, <2>3, <3>1 DEF Named, Switching, NamesGem
  <2>5. run' = [run EXCEPT ![w] = r]  BY <2>1, <2>2, Goes
  <2>6. r.s = run[w].s /\ r.read = run[w].read /\ r.pc \notin {"claim", "register"} /\ Named(r)  BY <1>2, <2>3, <2>4
  <2>. QED  BY <1>1, <1>3, <2>1, <2>5, <2>6, HolderGoes
<1>5. CASE run[w].read.mode # "seller_mint"
  <2>1. Go(w, "activated")  BY <1>5 DEF ListingDone
  <2>2. PICK n : n = Finished(row[s], "auction")  OBVIOUS
  <2>3. row' = [row EXCEPT ![s] = n]  BY <1>2, <1>5, <2>2 DEF ListingDone, persistStep
  <2>4. n = [row[s] EXCEPT !.status = "registered", !.started = None, !.stale = FALSE, !.activation = "auction_created"]
    BY <2>2 DEF Finished
  <2>5. SameSent(row[s], n) /\ SameNames(row[s], n) /\ n.started = None
    BY <1>2, <2>4, RowIs DEF KeptAndNamed, RowFields, SameSent, SameNames
  <2>6. RowNames(s, n)  BY <2>5 DEF KeptAndNamed, NamesInv, RowNames, SameNames
  <2>7. PICK r : r = [run[w] EXCEPT !.pc = "activated"]  OBVIOUS
  <2>8. run' = [run EXCEPT ![w] = r]  BY <2>1, <2>7, Goes
  <2>9. Loose(r)  BY <1>1, <2>7 DEF ActivationRun, Loose, Holds, Switching, NamesGem
  <2>. QED  BY <1>1, <1>2, <1>3, <2>3, <2>5, <2>6, <2>8, <2>9, HolderRecords DEF SameSent
<1>. QED  BY <1>4, <1>5

\* A run that holds no claim and changes no more of a row than its sale.
LEMMA QuietRun ==
  ASSUME KeptAndNamed, SellerInv', CalmRows, RegistryKept, receipts' = receipts,
         NEW w \in Workers, NEW r, run' = [run EXCEPT ![w] = r], ~Holds(r), r.pc \notin {"claim", "hash", "registered"},
         NamesGem(r) => r.gem # None /\ OwnGem(r.s, r.gem)
  PROVE  KeptAndNamed'
<1>1. ClaimSound(r, row'[r.s])  BY DEF ClaimSound
<1>2. Named(r)  BY DEF Named
<1>. QED  BY <1>1, <1>2, CalmMove

LEMMA MintNames ==
  ASSUME KeptAndNamed, SellerInv', NEW w \in Workers, mintSellerGem(w)  PROVE KeptAndNamed'
<1>1. run[w].pc = "mint"  BY DEF mintSellerGem
<1>2. ActivationRun(run[w]) \/ SwitchRun(run[w])  BY <1>1, MintsRun DEF KeptAndNamed
<1>3. PICK s \in Submissions : s = run[w].s  BY <1>2 DEF ActivationRun, SwitchRun
<1>4. Named(run[w])  BY DEF KeptAndNamed, NamesInv
<1>5. ASSUME NEW state, NEW old, old = row[s] \/ (old = Finished(row[s], "seller_mint") /\ ActivationRun(run[w])),
             persistStep(s, [old EXCEPT !.activation = state, !.minted = (state = "minted")]),
             NEW pc \in {"release", "activated"}, Go(w, pc), Chain
      PROVE  KeptAndNamed'
  <2>1. PICK n : n = [old EXCEPT !.activation = state, !.minted = (state = "minted")]  OBVIOUS
  <2>2. row' = [row EXCEPT ![s] = n]  BY <1>5, <2>1 DEF persistStep
  <2>3. DOMAIN row[s] = RowFields  BY RowIs DEF KeptAndNamed
  <2>4. /\ DOMAIN old = RowFields /\ SameSent(row[s], old) /\ SameNames(row[s], old)
        /\ SameClaim(row[s], old) \/ (old.started = None /\ ActivationRun(run[w]))
    <3>1. CASE old = row[s]  BY <2>3, <3>1 DEF SameSent, SameNames, SameClaim
    <3>2. CASE old = Finished(row[s], "seller_mint") /\ ActivationRun(run[w])
      <4>1. PICK a : a = row[s].activation  OBVIOUS
      <4>2. old = [row[s] EXCEPT !.status = "registered", !.started = None, !.stale = FALSE, !.activation = a]
        BY <3>2, <4>1, <2>3 DEF Finished
      <4>. QED  BY <2>3, <3>2, <4>2 DEF RowFields, SameSent, SameNames
    <3>. QED  BY <1>5, <3>1, <3>2
  <2>5. /\ SameSent(row[s], n) /\ SameNames(row[s], n)
        /\ SameClaim(row[s], n) \/ (n.started = None /\ ActivationRun(run[w]))
    BY <2>1, <2>4 DEF RowFields, SameSent, SameNames, SameClaim
  <2>6. PICK r : r = [run[w] EXCEPT !.pc = pc]  OBVIOUS
  <2>7. run' = [run EXCEPT ![w] = r]  BY <1>5, <2>6, Goes
  <2>8. r.pc = pc  BY <1>2, <2>6 DEF ActivationRun, SwitchRun
  <2>9. Loose(r)  BY <2>8 DEF Loose, Holds, Switching, NamesGem
  <2>10. RegistryKept /\ receipts' = receipts  BY <1>5, Quiet DEF Chain, chainVars
  <2>11. CASE SameClaim(row[s], n)
    <3>1. CalmRows  BY <2>2, <2>5, <2>11, CalmRow DEF KeptAndNamed
    <3>. QED  BY <2>7, <2>9, <2>10, <3>1, CalmLoose
  <2>12. CASE n.started = None /\ ActivationRun(run[w])
    <3>1. Holds(run[w])  BY <1>1, <2>12 DEF Holds, ActivationRun
    <3>2. RowNames(s, n)  BY <2>5 DEF KeptAndNamed, NamesInv, RowNames, SameNames
    <3>. QED  BY <1>1, <1>3, <2>2, <2>5, <2>7, <2>9, <2>10, <2>12, <3>1, <3>2, HolderRecords DEF SameSent
  <2>. QED  BY <2>5, <2>11, <2>12
<1>6. CASE Write(w, "mintToSeller", run[w].gem, "mint") /\ UNCHANGED <<row, lease>>
  <2>1. "mintToSeller" \in OtherFns  BY DEF OtherFns
  <2>2. CASE ActivationRun(run[w])
    <3>1. Holds(run[w]) /\ NamesGem(run[w])  BY <1>1, <2>2 DEF Holds, NamesGem, ActivationRun
    <3>. QED  BY <1>1, <1>6, <2>1, <3>1, HolderWaits
  <2>3. CASE SwitchRun(run[w])
    <3>1. RegistryKept /\ \E tx : Waits(w, tx, "mint")  BY <1>6, <2>1, Writes
    <3>2. PICK tx : run' = [run EXCEPT ![w] = [run[w] EXCEPT !.tx = tx, !.pc = "wait", !.then = "mint"]]
      BY <3>1 DEF Waits
    <3>3. PICK r : r = [run[w] EXCEPT !.tx = tx, !.pc = "wait", !.then = "mint"]  OBVIOUS
    <3>4. r.pc = "wait" /\ r.kind = "switch" /\ r.gem = run[w].gem /\ r.s = run[w].s  BY <2>3, <3>3 DEF SwitchRun
    <3>5. NamesGem(r) => r.gem # None /\ OwnGem(r.s, r.gem)
      BY <1>1, <1>4, <2>3, <3>4 DEF SwitchRun, Named, NamesGem, Switching
    <3>6. ~Holds(r)  BY <3>4 DEF Holds
    <3>7. receipts' = receipts  BY <1>6, SendsReceipts DEF Write
    <3>. QED  BY <1>6, <3>1, <3>2, <3>3, <3>4, <3>5, <3>6, <3>7, QuietRun, SameRowsCalm
  <2>. QED  BY <1>2, <2>2, <2>3
<1>7. CASE run[w].kind = "switch"
  <2>1. \/ Write(w, "mintToSeller", run[w].gem, "mint") /\ UNCHANGED <<row, lease>>
        \/ \E state : /\ persistStep(s, [row[s] EXCEPT !.activation = state, !.minted = (state = "minted")])
                      /\ Go(w, "release") /\ Chain
    BY <1>3, <1>7 DEF mintSellerGem
  <2>. QED  BY <1>5, <1>6, <2>1
<1>8. CASE run[w].kind # "switch"
  <2>1. \/ Write(w, "mintToSeller", run[w].gem, "mint") /\ UNCHANGED <<row, lease>>
        \/ \E state : /\ persistStep(s, [Finished(row[s], "seller_mint")
                                         EXCEPT !.activation = state, !.minted = (state = "minted")])
                      /\ Go(w, "activated") /\ Chain
    BY <1>3, <1>8 DEF mintSellerGem
  <2>2. ActivationRun(run[w])  BY <1>2, <1>8 DEF SwitchRun
  <2>. QED  BY <1>5, <1>6, <2>1, <2>2
<1>. QED  BY <1>7, <1>8

LEMMA ActivatedNames ==
  ASSUME KeptAndNamed, SellerInv', NEW w \in Workers, Activated(w) \/ Release(w) \/ ActivatedEvent(w) \/ Die(w)
  PROVE  KeptAndNamed'
<1>1. row' = row /\ RegistryKept /\ receipts' = receipts
  BY Quiet DEF Activated, Release, ActivatedEvent, Die, Chain, chainVars
<1>2. CASE Release(w) \/ ActivatedEvent(w) \/ Die(w)
  <2>1. run' = [run EXCEPT ![w] = Idle]  BY <1>2, Ends DEF Release, ActivatedEvent, Die
  <2>. QED  BY <1>1, <2>1, IdleIsLoose, CalmLoose, SameRowsCalm
<1>3. CASE Activated(w)
  <2>1. ActivationRun(run[w])  BY <1>3, ActivationsRun DEF KeptAndNamed, Activated
  <2>2. PICK r : r = [run[w] EXCEPT !.pc = "event"]  OBVIOUS
  <2>3. Loose(r)  BY <2>1, <2>2 DEF ActivationRun, Loose, Holds, Switching, NamesGem
  <2>4. run' = [run EXCEPT ![w] = r]  BY <1>3, <2>2, Goes DEF Activated
  <2>. QED  BY <1>1, <2>3, <2>4, CalmLoose, SameRowsCalm
<1>. QED  BY <1>2, <1>3

LEMMA StaleNames ==
  ASSUME KeptAndNamed, SellerInv', NEW s \in Submissions, ClaimGoesStale(s), ClaimIsKept  PROVE KeptAndNamed'
<1>1. PICK n : n = [row[s] EXCEPT !.stale = TRUE]  OBVIOUS
<1>2. row' = [row EXCEPT ![s] = n] /\ run' = run  BY <1>1 DEF ClaimGoesStale
<1>3. n.stale /\ n.started = row[s].started /\ SameSent(row[s], n) /\ SameNames(row[s], n)
  BY <1>1, RowIs DEF KeptAndNamed, RowFields, SameSent, SameNames
<1>4. row'[s] = n /\ ~row[s].stale  BY <1>2 DEF KeptAndNamed, SellerInv, World, RowsSound, ClaimGoesStale
<1>5. Alone({}, s)
  <2>1. \A v \in Workers : ~Activating(v, s)  BY <1>3, <1>4 DEF ClaimIsKept
  <2>. QED  BY <2>1 DEF Alone, Activating, Claimed, Holds
<1>6. RowStep({}, s, row[s], n)  BY <1>3, <1>5 DEF RowStep, SameSent
<1>7. SentStep /\ ReceiptsSound'  BY Quiet, QuietSent DEF ClaimGoesStale, Chain, chainVars
<1>8. RowNames(s, n)  BY <1>3 DEF KeptAndNamed, NamesInv, RowNames, SameNames
<1>9. RowSteps({}) /\ RowsNamed'  BY <1>2, <1>6, <1>7, <1>8, OneRowSteps, OneRowNamed
<1>. QED  BY <1>2, <1>7, <1>9, NoMove

LEMMA ActivationNames ==
  ASSUME KeptAndNamed, SellerInv', ActivationNext, ClaimIsKept  PROVE KeptAndNamed'
<1>1. ASSUME LeaseLapses  PROVE KeptAndNamed'
  BY <1>1, CalmStill, SameRowsCalm, Quiet DEF LeaseLapses, Chain, chainVars
<1>2. ASSUME NEW w \in Workers,
             \/ PrepareFails(w) \/ PrepareReads(w) \/ Publish(w) \/ Claim(w) \/ Lease(w) \/ Fail(w)
             \/ Approve(w) \/ Recover(w) \/ RecordFloor(w) \/ Register(w)
      PROVE  KeptAndNamed'
  BY <1>2, PrepareFailsNames, PrepareReadsNames, PublishNames, ClaimNames, LeaseNames, FailNames, ApproveNames,
     RecoverNames, RecordFloorNames, RegisterNames
<1>3. ASSUME NEW w \in Workers,
             \/ RegisterReplyLost(w) \/ RecordHash(w) \/ RegisteredGem(w)
             \/ Advance(w) \/ Advanced(w) \/ ListingDone(w) \/ mintSellerGem(w)
             \/ Activated(w) \/ Release(w) \/ ActivatedEvent(w) \/ Die(w)
      PROVE  KeptAndNamed'
  BY <1>3, RegisterReplyLostNames, RecordHashNames, RegisteredGemNames, AdvanceNames, AdvancedNames, ListingDoneNames,
     MintNames, ActivatedNames
<1>. QED  BY <1>1, <1>2, <1>3, StartNames, StaleNames DEF ActivationNext

\* The intake: no row's registration changes, and no run of it holds a claim.
LEMMA IntakeNames == ASSUME KeptAndNamed, SellerInv', IntakeNext  PROVE KeptAndNamed'
<1>1. RegistryKept /\ receipts' = receipts
  BY Quiet DEF IntakeNext, Create, Verify, ConfirmCustody, AppraiseBegins, RejectBegins, ReceiptBegins, Withdraw, Staff,
     record_gem_appraisal, reject_gem_submission, record_bank_receipt, WithdrawLoads, WithdrawEvent, Chain, chainVars
<1>2. ASSUME NEW w \in Workers, NEW pc \in {"appraise", "reject", "receive", "withdrawal"}, NEW s, NEW key,
             run' = [run EXCEPT ![w] = StaffCall(pc, s, key)], CalmRows
      PROVE  KeptAndNamed'
  <2>1. Loose(StaffCall(pc, s, key))  BY DEF StaffCall, Loose, Holds, Switching, NamesGem
  <2>. QED  BY <1>1, <1>2, <2>1, CalmLoose
<1>3. ASSUME NEW w \in Workers, End(w), CalmRows  PROVE KeptAndNamed'
  BY <1>1, <1>3, Ends, IdleIsLoose, CalmLoose
<1>4. ASSUME NEW s \in Submissions, Verify(s) \/ ConfirmCustody(s) \/ \E mode \in {"auction", "seller_mint"} : Create(s, mode)
      PROVE  KeptAndNamed'
  <2>1. CalmRows
    BY <1>4 DEF Verify, ConfirmCustody, Create, Status, KeptAndNamed, SellerInv, World, RowsSound, RowSound, RowFields,
       CalmRows, SameClaim, SameSent, SameNames
  <2>. QED  BY <1>1, <1>4, <2>1, CalmStill DEF Verify, ConfirmCustody, Create
<1>5. ASSUME NEW w \in Workers, NEW s \in Submissions,
             RejectBegins(w, s) \/ ReceiptBegins(w, s) \/ \E k \in Keys : AppraiseBegins(w, s, k)
      PROVE  KeptAndNamed'
  BY <1>2, <1>5, SameRowsCalm DEF RejectBegins, ReceiptBegins, AppraiseBegins, Staff, Begin
<1>6. ASSUME NEW w \in Workers, NEW s \in Submissions, Withdraw(w, s)  PROVE KeptAndNamed'
  <2>1. CalmRows
    BY <1>6 DEF Withdraw, Status, KeptAndNamed, SellerInv, World, RowsSound, RowSound, RowFields,
       CalmRows, SameClaim, SameSent, SameNames
  <2>2. PICK r : r = [pc |-> "withdrawn", s |-> s]  OBVIOUS
  <2>3. Loose(r)  BY <2>2 DEF Loose, Holds, Switching, NamesGem
  <2>. QED  BY <1>1, <1>6, <2>1, <2>2, <2>3, CalmLoose DEF Withdraw, Begin
<1>7. ASSUME NEW w \in Workers, record_gem_appraisal(w) \/ reject_gem_submission(w) \/ record_bank_receipt(w)
      PROVE  KeptAndNamed'
  <2>1. StaffRun(run[w])  BY <1>7, CallsRun DEF KeptAndNamed, record_gem_appraisal, reject_gem_submission, record_bank_receipt
  <2>2. PICK s \in Submissions : s = run[w].s  BY <2>1 DEF StaffRun
  <2>3. \/ row' = row
        \/ \E st : row' = [row EXCEPT ![s].appraised = TRUE, ![s].status = st]
        \/ \E st : row' = [row EXCEPT ![s].status = st]
        \/ \E st : row' = [row EXCEPT ![s].bank = TRUE, ![s].status = st]
    <3>1. CASE record_gem_appraisal(w)
      <4>1. row' = row \/ row' = [row EXCEPT ![s].appraised = TRUE, ![s].status = IF row[s].bank THEN "approved" ELSE @]
        BY <2>2, <3>1 DEF record_gem_appraisal
      <4>2. PICK st : st = IF row[s].bank THEN "approved" ELSE row[s].status  OBVIOUS
      <4>3. [row EXCEPT ![s].appraised = TRUE, ![s].status = IF row[s].bank THEN "approved" ELSE @]
              = [row EXCEPT ![s].appraised = TRUE, ![s].status = st]
        BY <4>2, RowIs DEF KeptAndNamed, RowFields, SellerInv, World, RowsSound
      <4>. QED  BY <4>1, <4>3
    <3>2. CASE reject_gem_submission(w)  BY <2>2, <3>2 DEF reject_gem_submission, Status
    <3>3. CASE record_bank_receipt(w)  BY <2>2, <3>3 DEF record_bank_receipt
    <3>. QED  BY <1>7, <3>1, <3>2, <3>3
  <2>4. ASSUME row' # row  PROVE CalmRows
    <3>1. PICK st :
            \/ row' = [row EXCEPT ![s].appraised = TRUE, ![s].status = st]
            \/ row' = [row EXCEPT ![s].status = st]
            \/ row' = [row EXCEPT ![s].bank = TRUE, ![s].status = st]
      BY <2>3, <2>4
    <3>2. PICK a, b, c : /\ a = [row[s] EXCEPT !.appraised = TRUE, !.status = st]
                         /\ b = [row[s] EXCEPT !.status = st]
                         /\ c = [row[s] EXCEPT !.bank = TRUE, !.status = st]
      OBVIOUS
    <3>3. row' = [row EXCEPT ![s] = a] \/ row' = [row EXCEPT ![s] = b] \/ row' = [row EXCEPT ![s] = c]
      BY <3>1, <3>2, Zenon
    <3>4. \A n \in {a, b, c} : SameClaim(row[s], n) /\ SameSent(row[s], n) /\ SameNames(row[s], n)
      BY <3>2, RowIs DEF KeptAndNamed, RowFields, SameClaim, SameSent, SameNames
    <3>5. PICK n \in {a, b, c} : row' = [row EXCEPT ![s] = n]  BY <3>3
    <3>. QED  BY <3>4, <3>5, CalmRow DEF KeptAndNamed
  <2>5. CalmRows  BY <2>4, SameRowsCalm
  <2>. QED  BY <1>3, <1>7, <2>5 DEF record_gem_appraisal, reject_gem_submission, record_bank_receipt
<1>8. ASSUME NEW w \in Workers, WithdrawLoads(w) \/ WithdrawEvent(w)  PROVE KeptAndNamed'
  <2>1. CalmRows  BY <1>8, SameRowsCalm DEF WithdrawLoads, WithdrawEvent
  <2>. QED  BY <1>2, <1>3, <1>8, <2>1 DEF WithdrawLoads, WithdrawEvent
<1>. QED  BY <1>4, <1>5, <1>6, <1>7, <1>8 DEF IntakeNext

-----------------------------------------------------------------------------
(* The sales and the chain. *)

LEMMA SweepsAreLoose == ASSUME NEW r, r.kind = "sweep", r.pc \notin {"claim", "hash", "registered", "advance", "advanced"}
                        PROVE  Loose(r)
BY DEF Loose, Holds, Switching, NamesGem

\* A sweep goes on, or waits for a write.
LEMMA SweepGoesOn ==
  ASSUME KeptAndNamed, SellerInv', NEW w \in Workers, SweepRun(run[w]), row' = row,
         \/ \E pc \in {"settled", "count", "clear", "create", "release"} : Go(w, pc) /\ Chain
         \/ \E fn \in OtherFns : \E arg, then : Write(w, fn, arg, then)
  PROVE  KeptAndNamed'
<1>1. ASSUME NEW pc \in {"settled", "count", "clear", "create", "release"}, Go(w, pc), Chain  PROVE KeptAndNamed'
  <2>1. PICK r : r = [run[w] EXCEPT !.pc = pc]  OBVIOUS
  <2>2. Loose(r)  BY <2>1, SweepsAreLoose DEF SweepRun
  <2>3. run' = [run EXCEPT ![w] = r]  BY <1>1, <2>1, Goes
  <2>. QED  BY <1>1, <2>2, <2>3, CalmLoose, SameRowsCalm, Quiet DEF Chain, chainVars
<1>2. ASSUME NEW fn \in OtherFns, NEW arg, NEW then, Write(w, fn, arg, then)  PROVE KeptAndNamed'
  <2>1. RegistryKept /\ \E tx : Waits(w, tx, then)  BY <1>2, Writes
  <2>2. PICK tx : run' = [run EXCEPT ![w] = [run[w] EXCEPT !.tx = tx, !.pc = "wait", !.then = then]]  BY <2>1 DEF Waits
  <2>3. PICK r : r = [run[w] EXCEPT !.tx = tx, !.pc = "wait", !.then = then]  OBVIOUS
  <2>4. Loose(r)  BY <2>3, SweepsAreLoose DEF SweepRun
  <2>5. receipts' = receipts  BY <1>2, SendsReceipts DEF Write
  <2>. QED  BY <2>1, <2>2, <2>3, <2>4, <2>5, CalmLoose, SameRowsCalm
<1>. QED  BY <1>1, <1>2

LEMMA SweepNames ==
  ASSUME KeptAndNamed, SellerInv', NEW w \in Workers,
         \/ \E g \in DOMAIN gems : SweepClaims(w, g)
         \/ SweepReads(w) \/ SweepSettled(w) \/ SweepCounts(w) \/ SweepClears(w) \/ SweepCreates(w)
         \/ SweepUpserts(w) \/ SweepFails(w) \/ SweepReleases(w)
  PROVE  KeptAndNamed'
<1>1. row' = row
  BY DEF SweepClaims, SweepReads, SweepSettled, SweepCounts, SweepClears, SweepCreates, SweepUpserts, SweepFails,
     SweepReleases, Record
<1>2. ASSUME NEW g \in DOMAIN gems, SweepClaims(w, g)  PROVE KeptAndNamed'
  <2>1. PICK r : r = [pc |-> "sweep", kind |-> "sweep", gem |-> g, auction |-> NoAuction,
                      rounds |-> 0, tx |-> None, then |-> "none"]
    OBVIOUS
  <2>2. run' = [run EXCEPT ![w] = r]  BY <1>2, <2>1 DEF SweepClaims, Begin
  <2>3. Loose(r)  BY <2>1, SweepsAreLoose
  <2>. QED  BY <1>1, <1>2, <2>2, <2>3, CalmLoose, SameRowsCalm, Quiet DEF SweepClaims, Chain, chainVars
<1>3. CASE SweepReads(w)
  <2>1. SweepRun(run[w])  BY <1>3, SweepsRun DEF KeptAndNamed, SweepReads
  <2>2. CASE run' = [run EXCEPT ![w].auction = gems[run[w].gem].auction, ![w].pc = "count"] /\ Chain
    <3>1. PICK r : r = [run[w] EXCEPT !.auction = gems[run[w].gem].auction, !.pc = "count"]  OBVIOUS
    <3>2. Loose(r)  BY <2>1, <3>1, SweepsAreLoose DEF SweepRun
    <3>3. run' = [run EXCEPT ![w] = r]  BY <2>2, <3>1, Zenon
    <3>. QED  BY <1>1, <2>2, <3>2, <3>3, CalmLoose, SameRowsCalm, Quiet DEF Chain, chainVars
  <2>3. CASE (Go(w, "release") /\ Chain) \/ SweepWrite(w, "settleAuction", "settled")
    BY <1>1, <2>1, <2>3, SweepGoesOn DEF SweepWrite, OtherFns
  <2>. QED  BY <1>3, <2>2, <2>3 DEF SweepReads
<1>4. CASE SweepSettled(w) \/ SweepFails(w)
  <2>1. SweepRun(run[w])  BY <1>4, SweepsRun DEF KeptAndNamed, SweepSettled, SweepFails
  <2>. QED  BY <1>1, <1>4, <2>1, SweepGoesOn DEF SweepSettled, SweepFails
<1>5. CASE SweepCounts(w)
  <2>1. SweepRun(run[w]) /\ Chain  BY <1>5, SweepsRun DEF KeptAndNamed, SweepCounts
  <2>2. CASE run' = [run EXCEPT ![w].pc = "clear", ![w].rounds = cycle[run[w].gem].rounds]
    <3>1. PICK r : r = [run[w] EXCEPT !.pc = "clear", !.rounds = cycle[run[w].gem].rounds]  OBVIOUS
    <3>2. Loose(r)  BY <2>1, <3>1, SweepsAreLoose DEF SweepRun
    <3>3. run' = [run EXCEPT ![w] = r]  BY <2>2, <3>1, Zenon
    <3>. QED  BY <1>1, <2>1, <3>2, <3>3, CalmLoose, SameRowsCalm, Quiet DEF Chain, chainVars
  <2>3. CASE Go(w, "release")  BY <1>1, <2>1, <2>3, SweepGoesOn
  <2>. QED  BY <1>5, <2>2, <2>3 DEF SweepCounts
<1>6. CASE SweepClears(w) \/ SweepCreates(w)
  <2>1. SweepRun(run[w])  BY <1>6, SweepsRun DEF KeptAndNamed, SweepClears, SweepCreates
  <2>2. \/ Go(w, "create") /\ Chain
        \/ Write(w, "cancelAuction", run[w].gem, "create") \/ Write(w, "createDailyAuction", run[w].gem, "counted")
    BY <1>6 DEF SweepClears, SweepCreates, SweepWrite
  <2>. QED  BY <1>1, <2>1, <2>2, SweepGoesOn DEF OtherFns
<1>7. CASE SweepUpserts(w)
  <2>1. SweepRun(run[w])  BY <1>7, SweepsRun DEF KeptAndNamed, SweepUpserts
  <2>. QED  BY <1>1, <1>7, <2>1, SweepGoesOn DEF SweepUpserts
<1>8. CASE SweepReleases(w)
  BY <1>1, <1>8, Ends, IdleIsLoose, CalmLoose, SameRowsCalm, Quiet DEF SweepReleases, Chain, chainVars
<1>. QED  BY <1>2, <1>3, <1>4, <1>5, <1>6, <1>7, <1>8

\* A switch goes on with its gem.
LEMMA SwitchGoesOn ==
  ASSUME KeptAndNamed, SellerInv', NEW w \in Workers, SwitchRun(run[w]), Switching(run[w]), CalmRows,
         RegistryKept, receipts' = receipts,
         NEW r, run' = [run EXCEPT ![w] = r], r.kind = "switch", r.s = run[w].s, r.gem = run[w].gem,
         r.pc \notin {"claim", "hash", "registered"}
  PROVE  KeptAndNamed'
<1>1. Named(run[w])  BY DEF KeptAndNamed, NamesInv
<1>2. r.gem # None /\ OwnGem(r.s, r.gem)  BY <1>1 DEF Named, NamesGem
<1>3. ~Holds(r)  BY DEF Holds
<1>. QED  BY <1>2, <1>3, QuietRun

LEMMA SwitchNames ==
  ASSUME KeptAndNamed, SellerInv', NEW w \in Workers,
         \/ \E s \in Submissions : SwitchBegins(w, s)
         \/ SwitchReads(w) \/ SwitchEnds(w) \/ SwitchSets(w) \/ SwitchMode(w) \/ SwitchFails(w)
  PROVE  KeptAndNamed'
<1>1. ASSUME NEW s \in Submissions, SwitchBegins(w, s)  PROVE KeptAndNamed'
  <2>1. PICK r : r = [pc |-> "switch", kind |-> "switch", s |-> s, read |-> row[s], gem |-> row[s].gem,
                      status |-> GemStatus.Listed, tx |-> None, then |-> "none"]
    OBVIOUS
  <2>2. run' = [run EXCEPT ![w] = r]  BY <1>1, <2>1 DEF SwitchBegins, Begin
  <2>3. r.gem # None /\ OwnGem(r.s, r.gem)  BY <1>1, <2>1 DEF SwitchBegins, KeptAndNamed, NamesInv, RowNames
  <2>4. row' = row  BY <1>1 DEF SwitchBegins, Record
  <2>5. ~Holds(r) /\ r.pc \notin {"claim", "hash", "registered"}  BY <2>1 DEF Holds
  <2>6. RegistryKept /\ receipts' = receipts  BY <1>1, Quiet DEF SwitchBegins, Chain, chainVars
  <2>. QED  BY <2>2, <2>3, <2>4, <2>5, <2>6, QuietRun, SameRowsCalm
<1>2. ASSUME NEW pc \in {"mode", "release", "end", "set", "mint"}, Go(w, pc), Chain, SwitchRun(run[w]), Switching(run[w]),
             CalmRows
      PROVE  KeptAndNamed'
  <2>1. PICK r : r = [run[w] EXCEPT !.pc = pc]  OBVIOUS
  <2>2. run' = [run EXCEPT ![w] = r]  BY <1>2, <2>1, Goes
  <2>3. r.kind = "switch" /\ r.s = run[w].s /\ r.gem = run[w].gem /\ r.pc = pc  BY <1>2, <2>1 DEF SwitchRun
  <2>4. RegistryKept /\ receipts' = receipts  BY <1>2, Quiet DEF Chain, chainVars
  <2>. QED  BY <1>2, <2>2, <2>3, <2>4, SwitchGoesOn
<1>3. ASSUME NEW fn \in OtherFns, NEW arg, NEW then, Write(w, fn, arg, then), SwitchRun(run[w]), Switching(run[w]),
             CalmRows
      PROVE  KeptAndNamed'
  <2>1. RegistryKept /\ \E tx : Waits(w, tx, then)  BY <1>3, Writes
  <2>2. PICK tx : run' = [run EXCEPT ![w] = [run[w] EXCEPT !.tx = tx, !.pc = "wait", !.then = then]]  BY <2>1 DEF Waits
  <2>3. PICK r : r = [run[w] EXCEPT !.tx = tx, !.pc = "wait", !.then = then]  OBVIOUS
  <2>4. r.kind = "switch" /\ r.s = run[w].s /\ r.gem = run[w].gem /\ r.pc = "wait"  BY <1>3, <2>3 DEF SwitchRun
  <2>5. receipts' = receipts  BY <1>3, SendsReceipts DEF Write
  <2>6. run' = [run EXCEPT ![w] = r]  BY <2>2, <2>3
  <2>. QED  BY <1>3, <2>1, <2>4, <2>5, <2>6, SwitchGoesOn
<1>4. ASSUME SwitchReads(w) \/ SwitchEnds(w) \/ SwitchSets(w) \/ SwitchMode(w) \/ SwitchFails(w)
      PROVE  SwitchRun(run[w]) /\ Switching(run[w])
  BY <1>4, SwitchesRun DEF KeptAndNamed, SwitchReads, SwitchEnds, SwitchSets, SwitchMode, SwitchFails, SwitchRun, Switching
<1>5. CASE SwitchReads(w) \/ SwitchFails(w)
  <2>1. CalmRows  BY <1>5, SameRowsCalm DEF SwitchReads, SwitchFails, Record
  <2>. QED  BY <1>2, <1>4, <1>5, <2>1 DEF SwitchReads, SwitchFails
<1>6. CASE SwitchEnds(w) \/ SwitchSets(w)
  <2>1. CalmRows  BY <1>6, SameRowsCalm DEF SwitchEnds, SwitchSets, Record
  <2>. QED  BY <1>3, <1>4, <1>6, <2>1 DEF SwitchEnds, SwitchSets, OtherFns
<1>7. CASE SwitchMode(w)
  <2>1. PICK s \in Submissions : s = run[w].s  BY <1>4, <1>7 DEF SwitchRun
  <2>2. PICK n : n = [row[s] EXCEPT !.mode = "seller_mint"]  OBVIOUS
  <2>3. row' = [row EXCEPT ![s] = n]  BY <1>7, <2>1, <2>2 DEF SwitchMode, persistStep
  <2>4. SameClaim(row[s], n) /\ SameSent(row[s], n) /\ SameNames(row[s], n)
    BY <2>2, RowIs DEF KeptAndNamed, RowFields, SameClaim, SameSent, SameNames
  <2>5. CalmRows  BY <2>3, <2>4, CalmRow DEF KeptAndNamed
  <2>. QED  BY <1>2, <1>4, <1>7, <2>5 DEF SwitchMode
<1>. QED  BY <1>1, <1>5, <1>6, <1>7

LEMMA SyncMintNames == ASSUME KeptAndNamed, SellerInv', NEW s \in Submissions, SyncMint(s)  PROVE KeptAndNamed'
<1>1. PICK n : n = [row[s] EXCEPT !.minted = TRUE, !.activation = "minted"]  OBVIOUS
<1>2. row' = [row EXCEPT ![s] = n] /\ run' = run /\ Chain  BY <1>1 DEF SyncMint, persistStep
<1>3. SameClaim(row[s], n) /\ SameSent(row[s], n) /\ SameNames(row[s], n)
  BY <1>1, RowIs DEF KeptAndNamed, RowFields, SameClaim, SameSent, SameNames
<1>4. CalmRows  BY <1>2, <1>3, CalmRow DEF KeptAndNamed
<1>. QED  BY <1>2, <1>4, CalmStill, Quiet DEF Chain, chainVars

\* A gem that changes stays the stone it is.
LEMMA StonesSent ==
  ASSUME KeptAndNamed, SameStones, pending' \subseteq pending, receipts' = receipts  PROVE SentStep /\ ReceiptsSound'
<1>1. SentStep  BY DEF SameStones, SentStep, Registering
<1>2. ReceiptsSound'  BY DEF KeptAndNamed, NamesInv, SameStones, ReceiptsSound
<1>. QED  BY <1>1, <1>2

LEMMA MineSent == ASSUME KeptAndNamed, NEW tx \in pending, Mine(tx)  PROVE SentStep /\ ReceiptsSound'
<1>1. pending' = pending \ {tx}  BY DEF Mine
<1>2. World /\ tx.fn \in OtherFns \cup {"registerGem"}  BY DEF KeptAndNamed, SellerInv, World, RegistryCounted
<1>3. CASE ~Accepts(tx) \/ tx.fn = "setSellerApproval"
  <2>1. UNCHANGED <<gems, opened, receipts>>  BY <1>3 DEF Mine
  <2>. QED  BY <1>1, <1>2, <2>1, SameRegistry, StonesSent
<1>4. CASE Accepts(tx) /\ tx.fn = "registerGem"
  <2>1. PICK gem : gem = [NewGem EXCEPT !.pkg = tx.arg]  OBVIOUS
  <2>2. gem.pkg = tx.arg  BY <2>1 DEF NewGem
  <2>3. gems' = Append(gems, gem) /\ receipts' = receipts \cup {Receipt(tx, Len(gems'))}  BY <1>4, <2>1 DEF Mine
  <2>4. PICK q, u : q = gems /\ u = gems'  OBVIOUS
  <2>5. IsSeq(q) /\ u = Append(q, gem)  BY <1>2, <2>3, <2>4 DEF World, RegistryCounted
  <2>6. /\ Len(u) = Len(q) + 1 /\ Len(q) \in Nat /\ DOMAIN q = 1..Len(q) /\ DOMAIN u = 1..(Len(q) + 1)
        /\ u[Len(q) + 1] = gem /\ \A i \in DOMAIN q : u[i] = q[i]
    BY <2>5, Appending
  <2>7. tx \in Registering  BY <1>4 DEF Registering
  <2>8. SentStep  BY <1>1, <2>2, <2>4, <2>6, <2>7 DEF SentStep, Registering
  <2>9. ASSUME NEW r \in receipts'  PROVE r.gem \in DOMAIN gems' /\ gems'[r.gem].pkg = r.tx.arg
    <3>1. CASE r \in receipts  BY <2>4, <2>6, <3>1 DEF KeptAndNamed, NamesInv, ReceiptsSound
    <3>2. CASE r = Receipt(tx, Len(gems'))
      <4>1. r.tx = tx /\ r.gem = Len(gems')  BY <3>2 DEF Receipt
      <4>. QED  BY <2>2, <2>4, <2>6, <4>1
    <3>. QED  BY <2>3, <3>1, <3>2
  <2>. QED  BY <2>8, <2>9 DEF ReceiptsSound
<1>5. CASE Accepts(tx) /\ tx.fn \notin {"registerGem", "setSellerApproval"}
  <2>1. PICK i : i = GemOf(tx)  OBVIOUS
  <2>2. PICK g \in Executed(tx, gems[i]) : gems' = [gems EXCEPT ![i] = g]  BY <1>5, <2>1 DEF Mine
  <2>3. i \in DOMAIN gems => "pkg" \in DOMAIN g /\ g.pkg = gems[i].pkg
    <3>1. ASSUME i \in DOMAIN gems  PROVE "pkg" \in DOMAIN g /\ g.pkg = gems[i].pkg
      <4>1. "pkg" \in DOMAIN gems[i]  BY <1>2, <3>1 DEF World, RegistryCounted
      <4>2. PICK h : h = gems[i]  OBVIOUS
      <4>3. tx.fn \in OtherFns \ {"setSellerApproval"}  BY <1>2, <1>5
      <4>4. "pkg" \in DOMAIN g /\ g.pkg = h.pkg  BY <2>2, <4>1, <4>2, <4>3, ExecutedIsStone
      <4>. QED  BY <4>2, <4>4
    <3>. QED  BY <3>1
  <2>4. SameStones  BY <1>2, <2>2, <2>3, OneGem
  <2>5. receipts' = receipts  BY <1>5 DEF Mine
  <2>. QED  BY <1>1, <2>4, <2>5, StonesSent
<1>. QED  BY <1>2, <1>3, <1>4, <1>5

\* The run that waited for a transaction goes on as it was.
Resumed(r) == [r EXCEPT !.tx = None, !.pc = r.then, !.then = "none"]
LEMMA ResumedIs ==
  ASSUME SellerInv, NEW w \in Workers, run[w].pc = "wait", NEW n, n = Resumed(run[w])
  PROVE  /\ n.pc = run[w].then /\ n.kind = run[w].kind /\ n.gem = run[w].gem
         /\ run[w].kind = "activation" => ActivationRun(run[w]) /\ n.s = run[w].s /\ n.read = run[w].read
         /\ run[w].kind = "switch" => SwitchRun(run[w]) /\ n.s = run[w].s
         /\ run[w].kind = "sweep" => SweepRun(run[w])
         /\ run[w].kind \in {"activation", "switch", "sweep"}
BY DEF SellerInv, RunsSound, RunSound, Idle, StaffRun, LeavingRun, ActivationRun, SweepRun, SwitchRun, Resumed

LEMMA ResumesNames ==
  ASSUME KeptAndNamed, NEW w \in Workers, run[w].pc = "wait", NEW n, n = Resumed(run[w]), row' = row
  PROVE  ClaimSound(n, row'[n.s]) /\ HoldsOn(run[w], n) /\ Named(n)
<1>1. /\ n.pc = run[w].then /\ n.kind = run[w].kind /\ n.gem = run[w].gem
      /\ run[w].kind = "activation" => ActivationRun(run[w]) /\ n.s = run[w].s /\ n.read = run[w].read
      /\ run[w].kind = "switch" => SwitchRun(run[w]) /\ n.s = run[w].s
      /\ run[w].kind = "sweep" => SweepRun(run[w])
      /\ run[w].kind \in {"activation", "switch", "sweep"}
  BY ResumedIs DEF KeptAndNamed
<1>2. Named(run[w])  BY DEF KeptAndNamed, NamesInv
<1>3. CASE run[w].kind = "activation"
  <2>1. Holds(run[w]) /\ n.pc \in {"recover", "advanced", "mint"}  BY <1>1, <1>3 DEF Holds, ActivationRun
  <2>2. ClaimSound(n, row'[n.s]) /\ HoldsOn(run[w], n)  BY <1>1, <1>3, <2>1, ClaimGoesOn
  <2>3. Named(n)  BY <1>1, <1>2, <1>3, <2>1 DEF Named, Holds, Switching, NamesGem
  <2>. QED  BY <2>2, <2>3
<1>4. CASE run[w].kind = "switch"
  <2>1. n.pc \in {"set", "mode", "mint"} /\ n.gem = run[w].gem /\ n.s = run[w].s /\ ~Holds(n)
    BY <1>1, <1>4 DEF SwitchRun, Holds
  <2>2. ClaimSound(n, row'[n.s]) /\ HoldsOn(run[w], n)  BY <2>1 DEF ClaimSound, HoldsOn
  <2>3. Named(n)  BY <1>2, <1>4, <2>1 DEF Named, Switching, NamesGem
  <2>. QED  BY <2>2, <2>3
<1>5. CASE run[w].kind = "sweep"
  <2>1. n.pc \in {"settled", "create", "counted"} /\ n.kind = "sweep"  BY <1>1, <1>5 DEF SweepRun
  <2>2. Loose(n)  BY <2>1, SweepsAreLoose
  <2>. QED  BY <2>2 DEF Loose, ClaimSound, HoldsOn, Named
<1>. QED  BY <1>1, <1>3, <1>4, <1>5

LEMMA OutsideNames == ASSUME KeptAndNamed, SellerInv', Outside  PROVE KeptAndNamed'
<1>1. row' = row  BY DEF Outside
<1>2. ASSUME NEW tx \in pending, Mine(tx), Receive(tx)  PROVE KeptAndNamed'
  <2>1. SentStep /\ ReceiptsSound'  BY <1>2, MineSent
  <2>2. PICK W : W = {w \in Workers : run'[w] # run[w]}  OBVIOUS
  <2>3. W \subseteq Workers /\ \A v \in Workers \ W : run'[v] = run[v]  BY <2>2
  <2>4. RowSteps(W) /\ RowsNamed'  BY <1>1, <2>1, SameRowsCalm, CalmSteps, NamesKept DEF CalmRows
  <2>5. ASSUME NEW w \in W
        PROVE  ClaimSound(run'[w], row'[run'[w].s]) /\ HoldsOn(run[w], run'[w]) /\ Named(run[w])'
    <3>1. PICK n : n = Resumed(run[w])  OBVIOUS
    <3>2. w \in Workers /\ run'[w] = n /\ run[w].pc = "wait"  BY <1>2, <2>2, <3>1 DEF Receive, Resumed
    <3>3. ClaimSound(n, row'[n.s]) /\ HoldsOn(run[w], n) /\ Named(n)  BY <1>1, <3>1, <3>2, ResumesNames
    <3>4. Named(n)'  BY <2>1, <3>3, NamedStays
    <3>. QED  BY <3>2, <3>3, <3>4
  <2>. QED  BY <2>1, <2>3, <2>4, <2>5, KeptFrame
<1>3. ASSUME SameStones, pending' \subseteq pending, receipts' = receipts, run' = run  PROVE KeptAndNamed'
  <2>1. SentStep /\ ReceiptsSound'  BY <1>3, StonesSent
  <2>. QED  BY <1>1, <1>3, <2>1, SameRowsCalm, CalmSteps, NamesKept, NoMove DEF CalmRows
<1>4. ASSUME NEW tx \in pending, Drop(tx), run' = run  PROVE KeptAndNamed'
  <2>1. SameStones  BY <1>4, SameRegistry DEF Drop, KeptAndNamed, SellerInv
  <2>. QED  BY <1>3, <1>4, <2>1 DEF Drop
<1>5. ASSUME NEW g \in DOMAIN gems, RoundEnds(g) \/ SellerMints(g) \/ (\E b \in Bidders : Bid(g, b)), run' = run
      PROVE  KeptAndNamed'
  <2>1. SameStones  BY <1>5, TouchedIsStone DEF KeptAndNamed, SellerInv
  <2>. QED  BY <1>3, <1>5, <2>1 DEF RoundEnds, SellerMints, Bid
<1>. QED  BY <1>2, <1>4, <1>5 DEF Outside

-----------------------------------------------------------------------------
(* The kept claims, as a specification. *)

LEMMA KeptInit == Init => KeptAndNamed
<1>. SUFFICES ASSUME Init  PROVE KeptAndNamed
  OBVIOUS
<1>1. \A w \in Workers : run[w] = Idle  BY DEF Init
<1>2. \A w \in Workers : ~Holds(run[w]) /\ run[w].pc = "idle"  BY <1>1 DEF Idle, Holds
<1>3. \A w \in Workers : ClaimSound(run[w], row[run[w].s])  BY <1>2 DEF ClaimSound, Holds
<1>4. OneHolder  BY <1>2 DEF OneHolder
<1>5. PackagesSent  BY DEF Init, PackagesSent, Registering
<1>6. ReceiptsSound  BY DEF Init, ReceiptsSound
<1>7. \A s \in Submissions : RowNames(s, row[s])  BY DEF Init, NewRow, RowNames, OwnGem
<1>8. \A w \in Workers : Named(run[w])  BY <1>2 DEF Named, Holds, Switching, NamesGem
<1>. QED  BY <1>3, <1>4, <1>5, <1>6, <1>7, <1>8, InitIsSound DEF KeptAndNamed, KeptInv, NamesInv

LEMMA KeptStep == KeptAndNamed /\ [Next /\ ClaimIsKept]_auctionVars => KeptAndNamed'
<1>. SUFFICES ASSUME KeptAndNamed, [Next /\ ClaimIsKept]_auctionVars  PROVE KeptAndNamed'
  OBVIOUS
<1>1. SellerInv'  BY StepKeeps DEF KeptAndNamed
<1>2. CASE UNCHANGED auctionVars
  <2>1. row' = row /\ run' = run /\ Chain /\ receipts' = receipts  BY <1>2 DEF auctionVars, Chain, chainVars
  <2>. QED  BY <1>1, <2>1, CalmStill, SameRowsCalm, Quiet
<1>3. CASE Next /\ ClaimIsKept
  BY <1>1, <1>3, IntakeNames, ActivationNames, SweepNames, SwitchNames, SyncMintNames, OutsideNames DEF Next
<1>. QED  BY <1>2, <1>3

\* However activations of a stone overlap, fail, die, or are evicted: as long as
\* a claim is taken over only after its run ended, what reaches the registry is
\* the package its row has from then on, which is what recovery searches for.
THEOREM PackageStays == KeptSpec => []PackageIsRegistered
<1>1. KeptAndNamed => PackageIsRegistered
  BY DEF KeptAndNamed, KeptInv, PackagesSent, SentOf, Registering, PackageIsRegistered
<1>. QED  BY <1>1, KeptInit, KeptStep, PTL DEF KeptSpec

\* A stone is on the chain once, or on its way once, and nobody is about to send it again.
Clean(s) == (\A tx \in Registering : tx.arg[1] # s) /\ (\A g \in DOMAIN gems : gems[g].pkg[1] # s)
OneSent ==
  /\ \A t, u \in Registering : t.arg[1] = u.arg[1] => t = u
  /\ \A g, h \in DOMAIN gems : gems[g].pkg[1] = gems[h].pkg[1] => g = h
  /\ \A t \in Registering, g \in DOMAIN gems : gems[g].pkg[1] # t.arg[1]
Looking(r) == r.pc \in {"approve", "recover"} \/ (r.pc = "wait" /\ r.then = "recover")
LookSound(r, n) ==
  /\ Holds(r) /\ r.pc \in {"floor", "register"} => Clean(r.s)
  /\ Holds(r) /\ Looking(r) /\ n.floor => r.read.floor
OnceInv == OneSent /\ \A w \in Workers : LookSound(run[w], row[run[w].s])

\* The row's mode is the gem's, and so is what a run or a transaction is about to list.
GemSound(g) ==
  /\ DOMAIN g = {"pkg", "status", "mode", "auction"} /\ DOMAIN g.auction = {"exists", "settled", "ended", "bidder"}
  /\ g.status \in 1..5 /\ (g.auction.exists => g.status >= GemStatus.Listed)
OnSale(s, g) == g \in DOMAIN gems /\ gems[g].pkg[1] = s /\ gems[g].status >= GemStatus.Listed
SaleOf(s, n) ==
  /\ n.mode = "seller_mint" => \A g \in DOMAIN gems : OnSale(s, g) => gems[g].mode = "seller_mint"
  /\ n.minted => \E g \in DOMAIN gems : OnSale(s, g) /\ gems[g].status = GemStatus.Minted
  /\ n.status = "none" => ~n.bank
ListingSound(tx) ==
  tx.fn = "listGem" =>
    /\ tx.arg[1] \in DOMAIN gems
    /\ row[gems[tx.arg[1]].pkg[1]].mode = tx.arg[2] \/ gems[tx.arg[1]].status >= GemStatus.Listed
SaleRun(r, n) ==
  /\ Holds(r) /\ r.pc # "lease" => r.read.mode = n.mode \/ \E g \in DOMAIN gems : OnSale(r.s, g)
  /\ Switching(r) =>
       /\ OnSale(r.s, r.gem)
       /\ r.pc = "mode" => gems[r.gem].mode = "seller_mint"
       /\ r.pc = "wait" /\ r.then = "mode" => r.tx.fn = "setPrimarySaleMode" /\ r.tx.arg = r.gem
SaleInv ==
  /\ \A g \in DOMAIN gems : GemSound(gems[g])
  /\ \A s \in Submissions : SaleOf(s, row[s])
  /\ \A tx \in pending : ListingSound(tx)
  /\ \A w \in Workers : SaleRun(run[w], row[run[w].s])

-----------------------------------------------------------------------------
(* One registration and one sale: what a step may do. *)

OnceAndSold == KeptAndNamed /\ OnceInv /\ SaleInv

\* Only the workers of W move.
Moved(W) == \A v \in Workers \ W : run'[v] = run[v]
\* The floor of a row is recorded by its holder only.
FloorStep(W) == \A s \in Submissions : row'[s].floor = row[s].floor \/ Alone(W, s)
\* What is sent is of a submission nobody else holds.
FreshStep(W) == \A tx \in Registering' : tx \in Registering \/ Alone(W, tx.arg[1])

LEMMA CleanStays ==
  ASSUME SentStep, NEW s, Clean(s), \A tx \in Registering' : tx \in Registering \/ tx.arg[1] # s
  PROVE  Clean(s)'
<1>1. \A tx \in Registering' : tx.arg[1] # s  BY DEF Clean
<1>2. ASSUME NEW g \in DOMAIN gems'  PROVE gems'[g].pkg[1] # s
  <2>1. CASE g \in DOMAIN gems  BY <2>1 DEF Clean, SentStep
  <2>2. CASE g \notin DOMAIN gems  BY <2>2 DEF Clean, SentStep
  <2>. QED  BY <2>1, <2>2
<1>. QED  BY <1>1, <1>2 DEF Clean

LEMMA OnceFrame ==
  ASSUME KeptAndNamed, OnceInv, NEW W, Moved(W), FloorStep(W), FreshStep(W), SentStep,
         OneSent', \A w \in W : LookSound(run[w], row[run[w].s])'
  PROVE  OnceInv'
<1>1. ASSUME NEW v \in Workers \ W  PROVE LookSound(run[v], row[run[v].s])'
  <2>1. PICK r : r = run[v] /\ r = run'[v]  BY DEF Moved
  <2>2. CASE ~Holds(r)  BY <2>1, <2>2 DEF LookSound, Holds
  <2>3. CASE Holds(r)
    <3>1. r.s \in Submissions /\ ~Alone(W, r.s)  BY <2>1, <2>3, ClaimsRun DEF KeptAndNamed, Alone
    <3>2. PICK m, n : m = row[r.s] /\ n = row'[r.s]  OBVIOUS
    <3>3. n.floor = m.floor  BY <3>1, <3>2 DEF FloorStep
    <3>4. LookSound(r, m)  BY <2>1, <3>2 DEF OnceInv
    <3>5. \A tx \in Registering' : tx \in Registering \/ tx.arg[1] # r.s  BY <3>1 DEF FreshStep
    <3>6. r.pc \in {"floor", "register"} => Clean(r.s)'  BY <2>3, <3>4, <3>5, CleanStays DEF LookSound
    <3>7. Looking(r) /\ n.floor => r.read.floor  BY <2>3, <3>3, <3>4 DEF LookSound
    <3>8. run'[v] = r /\ row'[r.s] = n  BY <2>1, <3>2
    <3>. QED  BY <3>6, <3>7, <3>8 DEF LookSound, Holds, Looking
  <2>. QED  BY <2>2, <2>3
<1>. QED  BY <1>1 DEF OnceInv

\* A gem on sale stays on sale, and does not go back to the auctions.
GemsMove ==
  \A g \in DOMAIN gems :
    /\ g \in DOMAIN gems' /\ gems'[g].pkg = gems[g].pkg
    /\ gems[g].status >= GemStatus.Listed =>
         /\ gems'[g].status >= GemStatus.Listed
         /\ gems[g].mode = "seller_mint" => gems'[g].mode = "seller_mint"
\* The mode is chosen before the bank received the stone, or changed once it is on sale.
ModesMove ==
  \A s \in Submissions :
    \/ row'[s].mode = row[s].mode
    \/ ~row[s].bank
    \/ \E g \in DOMAIN gems : OnSale(s, g)

LEMMA OnSaleStays == ASSUME GemsMove, NEW s, NEW g, OnSale(s, g)  PROVE OnSale(s, g)'
BY DEF OnSale, GemsMove

LEMMA SaleFrame ==
  ASSUME OnceAndSold, NEW W, Moved(W), GemsMove, ModesMove,
         \A g \in DOMAIN gems' : GemSound(gems[g])', \A s \in Submissions : SaleOf(s, row[s])',
         \A tx \in pending' : tx \in pending \/ ListingSound(tx)',
         \A w \in W : SaleRun(run[w], row[run[w].s])'
  PROVE  SaleInv'
<1>1. ASSUME NEW tx \in pending  PROVE ListingSound(tx)'
  <2>1. SUFFICES ASSUME tx.fn = "listGem"
                 PROVE  /\ tx.arg[1] \in DOMAIN gems'
                        /\ row'[gems'[tx.arg[1]].pkg[1]].mode = tx.arg[2] \/ gems'[tx.arg[1]].status >= GemStatus.Listed
    BY DEF ListingSound
  <2>2. PICK g, s : g = tx.arg[1] /\ s = gems[g].pkg[1]  OBVIOUS
  <2>3. g \in DOMAIN gems /\ (row[s].mode = tx.arg[2] \/ gems[g].status >= GemStatus.Listed)
    BY <2>1, <2>2 DEF OnceAndSold, SaleInv, ListingSound
  <2>4. g \in DOMAIN gems' /\ gems'[g].pkg[1] = s  BY <2>2, <2>3 DEF GemsMove
  <2>5. s \in Submissions /\ row[s].bank
    <3>1. PICK p : p = gems[g].pkg  OBVIOUS
    <3>2. Received(p) /\ p[1] = s  BY <2>2, <2>3, <3>1 DEF OnceAndSold, KeptAndNamed, SellerInv, World, RegistryReceived
    <3>. QED  BY <3>2 DEF Received, Packages
  <2>6. gems[g].status >= GemStatus.Listed => gems'[g].status >= GemStatus.Listed  BY <2>3 DEF GemsMove
  <2>7. (\E h \in DOMAIN gems : OnSale(s, h)) => gems[g].status >= GemStatus.Listed
    BY <2>2, <2>3 DEF OnSale, OnceAndSold, OnceInv, OneSent
  <2>. QED  BY <2>2, <2>3, <2>4, <2>5, <2>6, <2>7 DEF ModesMove
<1>2. ASSUME NEW v \in Workers \ W  PROVE SaleRun(run[v], row[run[v].s])'
  <2>1. PICK r : r = run[v] /\ r = run'[v]  BY DEF Moved
  <2>2. SaleRun(r, row[r.s])  BY <2>1 DEF OnceAndSold, SaleInv
  <2>3. Holds(r) /\ r.pc # "lease" => r.read.mode = row'[r.s].mode \/ (\E g \in DOMAIN gems' : OnSale(r.s, g)')
    <3>1. SUFFICES ASSUME Holds(r), r.pc # "lease"
                   PROVE  r.read.mode = row'[r.s].mode \/ (\E g \in DOMAIN gems' : OnSale(r.s, g)')
      OBVIOUS
    <3>2. r.s \in Submissions /\ row[r.s].bank
      BY <2>1, <3>1, ClaimsRun DEF OnceAndSold, KeptAndNamed, ActivationRun
    <3>3. CASE \E g \in DOMAIN gems : OnSale(r.s, g)
      <4>1. PICK g \in DOMAIN gems : OnSale(r.s, g)  BY <3>3
      <4>2. OnSale(r.s, g)' /\ g \in DOMAIN gems'  BY <4>1, OnSaleStays DEF GemsMove
      <4>. QED  BY <4>2
    <3>4. CASE row'[r.s].mode = row[r.s].mode /\ r.read.mode = row[r.s].mode  BY <3>4
    <3>. QED  BY <2>2, <3>1, <3>2, <3>3, <3>4 DEF ModesMove, SaleRun
  <2>4. Switching(r) =>
          /\ OnSale(r.s, r.gem)'
          /\ r.pc = "mode" => gems'[r.gem].mode = "seller_mint"
          /\ r.pc = "wait" /\ r.then = "mode" => r.tx.fn = "setPrimarySaleMode" /\ r.tx.arg = r.gem
    <3>1. SUFFICES ASSUME Switching(r)
                   PROVE  /\ OnSale(r.s, r.gem)'
                          /\ r.pc = "mode" => gems'[r.gem].mode = "seller_mint"
                          /\ r.pc = "wait" /\ r.then = "mode" => r.tx.fn = "setPrimarySaleMode" /\ r.tx.arg = r.gem
      OBVIOUS
    <3>2. OnSale(r.s, r.gem)  BY <2>2, <3>1 DEF SaleRun
    <3>3. OnSale(r.s, r.gem)'  BY <3>2, OnSaleStays
    <3>4. r.pc = "mode" => gems'[r.gem].mode = "seller_mint"  BY <2>2, <3>1, <3>2 DEF SaleRun, OnSale, GemsMove
    <3>. QED  BY <2>2, <3>1, <3>3, <3>4 DEF SaleRun
  <2>5. SaleRun(r, row[r.s])'  BY <2>3, <2>4 DEF SaleRun, Holds, Switching
  <2>6. run'[v] = r  BY <2>1
  <2>. QED  BY <2>5, <2>6
<1>3. \A w \in Workers : SaleRun(run[w], row[run[w].s])'  BY <1>2
<1>4. \A tx \in pending' : ListingSound(tx)'  BY <1>1
<1>. QED  BY <1>3, <1>4 DEF SaleInv

\* Rows whose sale stays as it is, and a registry where nothing is listed.
SameSale(r, n) ==
  /\ n.floor = r.floor /\ n.mode = r.mode /\ (n.minted => r.minted)
  /\ n.status = "none" => r.status = "none" /\ n.bank = r.bank
SaleRows == \A s \in Submissions : SameSale(row[s], row'[s])
Unlisted == RegistryKept /\ \A tx \in pending' : tx \in pending \/ tx.fn # "listGem"
\* A run goes on with the row it read and the gem it had.
GoesOn(r, n) ==
  /\ Holds(n) /\ n.pc # "lease" =>
       /\ Holds(r) /\ r.pc # "lease" /\ n.s = r.s /\ n.read = r.read
       /\ n.pc \notin {"floor", "register"} /\ (Looking(n) => Looking(r))
  /\ Switching(n) => Switching(r) /\ n.s = r.s /\ n.gem = r.gem /\ n.pc # "mode" /\ ~(n.pc = "wait" /\ n.then = "mode")

\* A step that leaves the gems alone and registers nothing.
LEMMA QuietFrame ==
  ASSUME OnceAndSold, KeptAndNamed', NEW W, Moved(W), FloorStep(W), ModesMove, RegistryKept,
         \A s \in Submissions : SaleOf(s, row'[s]), \A tx \in pending' : tx \in pending \/ ListingSound(tx)',
         \A w \in W : LookSound(run[w], row[run[w].s])' /\ SaleRun(run[w], row[run[w].s])'
  PROVE  OnceAndSold'
<1>1. gems' = gems /\ Registering' = Registering
  BY CountStays DEF RegistryKept, OnceAndSold, KeptAndNamed, SellerInv, World
<1>2. FreshStep(W) /\ SentStep /\ GemsMove  BY <1>1 DEF FreshStep, SentStep, GemsMove
<1>3. OneSent'  BY <1>1 DEF OnceAndSold, OnceInv, OneSent
<1>4. OnceInv'  BY <1>2, <1>3, OnceFrame DEF OnceAndSold
<1>5. \A g \in DOMAIN gems' : GemSound(gems[g])'  BY <1>1 DEF OnceAndSold, SaleInv, GemSound
<1>6. \A s \in Submissions : SaleOf(s, row[s])'  BY <1>1 DEF SaleOf, OnSale
<1>7. SaleInv'  BY <1>2, <1>5, <1>6, SaleFrame
<1>. QED  BY <1>4, <1>7 DEF OnceAndSold

LEMMA QuietSold ==
  ASSUME OnceAndSold, KeptAndNamed', NEW W, Moved(W), SaleRows, Unlisted,
         \A w \in W : LookSound(run[w], row[run[w].s])' /\ SaleRun(run[w], row[run[w].s])'
  PROVE  OnceAndSold'
<1>1. FloorStep(W) /\ ModesMove /\ RegistryKept  BY DEF SaleRows, SameSale, FloorStep, ModesMove, Unlisted
<1>2. ASSUME NEW s \in Submissions  PROVE SaleOf(s, row'[s])
  <2>1. SaleOf(s, row[s]) /\ SameSale(row[s], row'[s])  BY DEF OnceAndSold, SaleInv, SaleRows
  <2>. QED  BY <2>1 DEF SaleOf, SameSale
<1>3. \A tx \in pending' : tx \in pending \/ ListingSound(tx)'  BY DEF Unlisted, ListingSound
<1>. QED  BY <1>1, <1>2, <1>3, QuietFrame

LEMMA GoneOn ==
  ASSUME OnceAndSold, SaleRows, gems' = gems, NEW w \in Workers, GoesOn(run[w], run'[w])
  PROVE  LookSound(run[w], row[run[w].s])' /\ SaleRun(run[w], row[run[w].s])'
<1>1. gems' = gems  OBVIOUS
<1>2. PICK r, n : r = run[w] /\ n = run'[w]  OBVIOUS
<1>3. GoesOn(r, n) /\ LookSound(r, row[r.s]) /\ SaleRun(r, row[r.s])  BY <1>2 DEF OnceAndSold, OnceInv, SaleInv
<1>4. Holds(r) => SameSale(row[r.s], row'[r.s])  BY <1>2, ClaimsRun DEF OnceAndSold, KeptAndNamed, SaleRows
<1>5. LookSound(n, row[n.s])'  BY <1>3, <1>4 DEF GoesOn, LookSound, SameSale, Holds, Looking
<1>6. SaleRun(n, row[n.s])'
  <2>1. Holds(n) /\ n.pc # "lease" => n.read.mode = row'[n.s].mode \/ \E g \in DOMAIN gems : OnSale(n.s, g)
    BY <1>3, <1>4 DEF GoesOn, SaleRun, SameSale
  <2>2. Switching(n) => OnSale(n.s, n.gem) /\ n.pc # "mode" /\ ~(n.pc = "wait" /\ n.then = "mode")
    BY <1>3 DEF GoesOn, SaleRun
  <2>. QED  BY <1>1, <2>1, <2>2 DEF SaleRun, Holds, Switching, OnSale
<1>. QED  BY <1>2, <1>5, <1>6

\* The step of a run that goes on, or that has nothing to do with a sale.
LEMMA PlainSold ==
  ASSUME OnceAndSold, KeptAndNamed', SaleRows, Unlisted, NEW w \in Workers, Moved({w}), GoesOn(run[w], run'[w])
  PROVE  OnceAndSold'
<1>1. \A v \in {w} : LookSound(run[v], row[run[v].s])' /\ SaleRun(run[v], row[run[v].s])'  BY GoneOn DEF Unlisted, RegistryKept
<1>. QED  BY <1>1, QuietSold
LEMMA StillSold == ASSUME OnceAndSold, KeptAndNamed', SaleRows, Unlisted, run' = run  PROVE OnceAndSold'
<1>1. Moved({})  BY DEF Moved
<1>. QED  BY <1>1, QuietSold

LEMMA SaleRow ==
  ASSUME SellerInv, NEW s \in Submissions, NEW n, row' = [row EXCEPT ![s] = n], SameSale(row[s], n)  PROVE SaleRows
BY DEF SellerInv, World, RowsSound, SaleRows, SameSale
LEMMA SameRowsSale == ASSUME row' = row  PROVE SaleRows
BY DEF SaleRows, SameSale
LEMMA QuietChain == ASSUME Chain  PROVE Unlisted
BY Quiet DEF Unlisted, Chain, chainVars
LEMMA Sends ==
  ASSUME NEW w \in Workers, NEW fn \in OtherFns \ {"listGem"}, NEW arg, NEW then, Write(w, fn, arg, then)
  PROVE  Unlisted /\ \E tx : Waits(w, tx, then) /\ tx.fn = fn /\ tx.arg = arg
<1>1. RegistryKept /\ \E tx : tx.fn = fn /\ tx.arg = arg /\ Waits(w, tx, then)  BY Writes
<1>2. PICK tx : tx = Tx(fn, arg, IF run[w].kind = "sweep" THEN w ELSE run[w].s)  OBVIOUS
<1>3. tx.fn = fn /\ pending' = pending \cup {tx}  BY <1>2, TxIs DEF Write, Send
<1>. QED  BY <1>1, <1>3 DEF Unlisted

-----------------------------------------------------------------------------
(* The steps that leave the sale alone. *)

LEMMA MovesTo ==
  ASSUME SellerInv, NEW w \in Workers, NEW r, run' = [run EXCEPT ![w] = r]  PROVE Moved({w}) /\ run'[w] = r
BY DEF SellerInv, RunsSound, Moved
LEMMA LooseGoesOn == ASSUME NEW r, NEW n, Loose(n)  PROVE GoesOn(r, n)
BY DEF Loose, GoesOn

LEMMA MoveSold ==
  ASSUME OnceAndSold, KeptAndNamed', SaleRows, Unlisted, NEW w \in Workers, NEW r, run' = [run EXCEPT ![w] = r],
         GoesOn(run[w], r)
  PROVE  OnceAndSold'
<1>1. Moved({w}) /\ run'[w] = r  BY MovesTo DEF OnceAndSold, KeptAndNamed
<1>. QED  BY <1>1, PlainSold

LEMMA EndSold ==
  ASSUME OnceAndSold, KeptAndNamed', SaleRows, Unlisted, NEW w \in Workers, End(w)  PROVE OnceAndSold'
<1>1. Moved({w}) /\ run'[w] = Idle  BY Ends, MovesTo DEF OnceAndSold, KeptAndNamed
<1>. QED  BY <1>1, IdleIsLoose, LooseGoesOn, PlainSold

\* A step that goes to another part of the run.
LEMMA GoSold ==
  ASSUME OnceAndSold, KeptAndNamed', SaleRows, Unlisted, NEW w \in Workers,
         NEW pc \in {"publish", "claim", "lease", "recover", "hash", "registered", "advance", "mint", "activated", "event",
                     "release", "end", "set", "settled", "count", "clear", "create"},
         Go(w, pc),
         \/ ActivationRun(run[w]) /\ (pc = "recover" => run[w].pc = "approve")
              /\ (pc \in {"recover", "hash", "registered", "advance", "mint"} => run[w].pc # "lease" /\ Holds(run[w]))
         \/ SweepRun(run[w]) /\ pc # "mint"
         \/ SwitchRun(run[w]) /\ (pc \in {"end", "set", "mint"} => Switching(run[w]))
  PROVE  OnceAndSold'
<1>1. PICK r : r = [run[w] EXCEPT !.pc = pc]  OBVIOUS
<1>2. Moved({w}) /\ run'[w] = r  BY <1>1, Goes, MovesTo DEF OnceAndSold, KeptAndNamed
<1>3. CASE ActivationRun(run[w])
  <2>1. r.pc = pc /\ r.s = run[w].s /\ r.read = run[w].read /\ r.kind = "activation"  BY <1>1, <1>3 DEF ActivationRun
  <2>2. ~SweepRun(run[w]) /\ ~SwitchRun(run[w])  BY <1>3 DEF ActivationRun, SweepRun, SwitchRun
  <2>3. GoesOn(run[w], r)  BY <2>1, <2>2 DEF GoesOn, Holds, Switching, Looking
  <2>. QED  BY <1>2, <2>3, PlainSold
<1>4. CASE SweepRun(run[w])
  <2>1. r.pc = pc /\ r.kind = "sweep"  BY <1>1, <1>4 DEF SweepRun
  <2>2. GoesOn(run[w], r)  BY <2>1 DEF GoesOn, Holds, Switching
  <2>. QED  BY <1>2, <2>2, PlainSold
<1>5. CASE SwitchRun(run[w])
  <2>1. r.pc = pc /\ r.s = run[w].s /\ r.gem = run[w].gem /\ r.kind = "switch"  BY <1>1, <1>5 DEF SwitchRun
  <2>2. ~SweepRun(run[w]) /\ ~ActivationRun(run[w])  BY <1>5 DEF ActivationRun, SweepRun, SwitchRun
  <2>3. GoesOn(run[w], r)  BY <2>1, <2>2 DEF GoesOn, Holds, Switching
  <2>. QED  BY <1>2, <2>3, PlainSold
<1>. QED  BY <1>3, <1>4, <1>5

LEMMA FailedSale ==
  ASSUME SellerInv, NEW s \in Submissions,
         persistStep(s, [row[s] EXCEPT !.activation = "failed", !.started = None, !.stale = FALSE])
  PROVE  SaleRows
<1>1. PICK n : n = [row[s] EXCEPT !.activation = "failed", !.started = None, !.stale = FALSE]  OBVIOUS
<1>2. row' = [row EXCEPT ![s] = n]  BY <1>1 DEF persistStep
<1>3. SameSale(row[s], n)  BY <1>1, RowIs DEF RowFields, SameSale
<1>. QED  BY <1>2, <1>3, SaleRow

LEMMA StartSold ==
  ASSUME OnceAndSold, KeptAndNamed', NEW w \in Workers, NEW s \in Submissions, StartActivation(w, s)  PROVE OnceAndSold'
<1>1. PICK r : r = [pc |-> "prepare", s |-> s, version |-> log[s].version, read |-> row[s], kind |-> "activation",
                    prior |-> 0, gem |-> None, status |-> 0, tx |-> None, then |-> "none"]
  OBVIOUS
<1>2. run' = [run EXCEPT ![w] = r]  BY <1>1 DEF StartActivation, Begin
<1>3. GoesOn(run[w], r)  BY <1>1 DEF GoesOn, Holds, Switching
<1>. QED  BY <1>2, <1>3, MoveSold, SameRowsSale, QuietChain DEF StartActivation

LEMMA PrepareSold ==
  ASSUME OnceAndSold, KeptAndNamed', NEW w \in Workers, PrepareFails(w) \/ PrepareReads(w)  PROVE OnceAndSold'
<1>1. ActivationRun(run[w]) /\ run[w].s \in Submissions /\ SellerInv
  BY ActivationsRun DEF OnceAndSold, KeptAndNamed, PrepareFails, PrepareReads, ActivationRun
<1>2. CASE PrepareFails(w)  BY <1>1, <1>2, FailedSale, EndSold, QuietChain DEF PrepareFails
<1>3. CASE PrepareReads(w)
  <2>1. PICK pc \in {"publish", "claim"} : pc = IF commitmentMayBeRebuilt(row[run[w].s]) THEN "publish" ELSE "claim"
    OBVIOUS
  <2>2. PICK r : r = [run[w] EXCEPT !.read = row[run[w].s], !.pc = pc]  OBVIOUS
  <2>3. run' = [run EXCEPT ![w] = r]  BY <1>3, <2>1, <2>2 DEF PrepareReads
  <2>4. r.pc = pc /\ r.kind = "activation"  BY <1>1, <2>2 DEF ActivationRun
  <2>5. GoesOn(run[w], r)  BY <2>4 DEF GoesOn, Holds, Switching
  <2>. QED  BY <1>1, <1>3, <2>3, <2>5, MoveSold, SameRowsSale, QuietChain DEF PrepareReads
<1>. QED  BY <1>2, <1>3

LEMMA PublishSold == ASSUME OnceAndSold, KeptAndNamed', NEW w \in Workers, Publish(w)  PROVE OnceAndSold'
<1>. DEFINE s == run[w].s
<1>1. ActivationRun(run[w]) /\ s \in Submissions /\ SellerInv
  BY ActivationsRun DEF OnceAndSold, KeptAndNamed, Publish, ActivationRun
<1>2. CASE ~(NotRunning(row[s]) /\ commitmentMayBeRebuilt(row[s]))
  BY <1>2, EndSold, SameRowsSale, QuietChain DEF Publish
<1>3. CASE NotRunning(row[s]) /\ commitmentMayBeRebuilt(row[s])
  <2>1. PICK n : n = Prepared(s)  OBVIOUS
  <2>2. row' = [row EXCEPT ![s] = n]  BY <1>3, <2>1 DEF Publish
  <2>3. SameSale(row[s], n)  BY <1>1, <2>1, RowIs DEF Prepared, RowFields, SameSale
  <2>4. PICK r : r = [run[w] EXCEPT !.read = row'[s], !.pc = "claim"]  OBVIOUS
  <2>5. run' = [run EXCEPT ![w] = r]  BY <1>3, <2>4 DEF Publish
  <2>6. r.pc = "claim" /\ r.kind = "activation"  BY <1>1, <2>4 DEF ActivationRun
  <2>7. GoesOn(run[w], r)  BY <2>6 DEF GoesOn, Holds, Switching
  <2>. QED  BY <1>1, <2>2, <2>3, <2>5, <2>7, SaleRow, MoveSold, QuietChain DEF Publish
<1>. QED  BY <1>2, <1>3

LEMMA ClaimSold == ASSUME OnceAndSold, KeptAndNamed', NEW w \in Workers, Claim(w)  PROVE OnceAndSold'
<1>. DEFINE s == run[w].s  read == run[w].read
<1>1. ActivationRun(run[w]) /\ s \in Submissions /\ SellerInv
  BY ActivationsRun DEF OnceAndSold, KeptAndNamed, Claim, ActivationRun
<1>2. CASE ~Claimable(row[s], read)  BY <1>2, EndSold, SameRowsSale, QuietChain DEF Claim
<1>3. CASE Claimable(row[s], read)
  <2>1. PICK moment : moment = CHOOSE m \in Moments(s) : TRUE  OBVIOUS
  <2>2. PICK n : n = [row[s] EXCEPT !.activation = "registering", !.stale = FALSE, !.started = moment,
                                    !.attempts = read.attempts + 1]
    OBVIOUS
  <2>3. row' = [row EXCEPT ![s] = n]  BY <1>3, <2>1, <2>2 DEF Claim
  <2>4. SameSale(row[s], n)  BY <1>1, <2>2, RowIs DEF RowFields, SameSale
  <2>5. PICK r : r = [run[w] EXCEPT !.prior = read.attempts, !.pc = "lease"]  OBVIOUS
  <2>6. run' = [run EXCEPT ![w] = r]  BY <1>3, <2>5 DEF Claim
  <2>7. r.pc = "lease" /\ r.kind = "activation"  BY <1>1, <2>5 DEF ActivationRun
  <2>8. GoesOn(run[w], r)  BY <2>7 DEF GoesOn, Holds, Switching
  <2>. QED  BY <1>1, <2>3, <2>4, <2>6, <2>8, SaleRow, MoveSold, QuietChain DEF Claim
<1>. QED  BY <1>2, <1>3

LEMMA FailSold == ASSUME OnceAndSold, KeptAndNamed', NEW w \in Workers, Fail(w)  PROVE OnceAndSold'
<1>1. Holds(run[w]) /\ SellerInv  BY DEF Fail, Claimed, Holds, OnceAndSold, KeptAndNamed
<1>2. ActivationRun(run[w]) /\ run[w].s \in Submissions  BY <1>1, ClaimsRun
<1>3. SaleRows /\ Unlisted  BY <1>1, <1>2, FailedSale, QuietChain DEF Fail
<1>. QED  BY <1>2, <1>3, EndSold, GoSold DEF Fail

\* A holder records what is no part of the sale and goes on.
LEMMA RecordSold ==
  ASSUME OnceAndSold, KeptAndNamed', NEW w \in Workers, RecordHash(w) \/ Activated(w) \/ Release(w) \/ ActivatedEvent(w) \/ Die(w)
  PROVE  OnceAndSold'
<1>1. SellerInv /\ Unlisted
  BY QuietChain DEF OnceAndSold, KeptAndNamed, RecordHash, Activated, Release, ActivatedEvent, Die
<1>2. CASE RecordHash(w)
  <2>1. ActivationRun(run[w]) /\ Holds(run[w]) /\ run[w].pc = "hash"
    BY <1>1, <1>2, ActivationsRun DEF RecordHash, ActivationRun, Holds
  <2>2. PICK s \in Submissions : s = run[w].s  BY <2>1 DEF ActivationRun
  <2>3. PICK n : n = [row[s] EXCEPT !.hash = run[w].tx]  OBVIOUS
  <2>4. row' = [row EXCEPT ![s] = n]  BY <1>2, <2>2, <2>3 DEF RecordHash, persistStep
  <2>5. SameSale(row[s], n)  BY <1>1, <2>3, RowIs DEF RowFields, SameSale
  <2>. QED  BY <1>1, <1>2, <2>1, <2>4, <2>5, SaleRow, GoSold DEF RecordHash
<1>3. CASE Activated(w)
  <2>1. ActivationRun(run[w])  BY <1>1, <1>3, ActivationsRun DEF Activated
  <2>. QED  BY <1>1, <1>3, <2>1, SameRowsSale, GoSold DEF Activated
<1>4. CASE Release(w) \/ ActivatedEvent(w) \/ Die(w)
  BY <1>1, <1>4, SameRowsSale, EndSold DEF Release, ActivatedEvent, Die
<1>. QED  BY <1>2, <1>3, <1>4

LEMMA RegisteredGemSold == ASSUME OnceAndSold, KeptAndNamed', NEW w \in Workers, RegisteredGem(w)  PROVE OnceAndSold'
<1>1. run[w].pc = "registered" /\ ActivationRun(run[w]) /\ Holds(run[w]) /\ SellerInv
  BY ActivationsRun DEF OnceAndSold, KeptAndNamed, RegisteredGem, ActivationRun, Holds
<1>2. PICK s \in Submissions : s = run[w].s  BY <1>1 DEF ActivationRun
<1>3. PICK rc : /\ run' = [run EXCEPT ![w].gem = rc.gem, ![w].status = gems[rc.gem].status, ![w].pc = "advance"]
                /\ persistStep(s, [row[s] EXCEPT !.gem = rc.gem, !.activation = "registered"]) /\ Chain
  BY <1>2 DEF RegisteredGem
<1>4. PICK n : n = [row[s] EXCEPT !.gem = rc.gem, !.activation = "registered"]  OBVIOUS
<1>5. row' = [row EXCEPT ![s] = n]  BY <1>3, <1>4 DEF persistStep
<1>6. SameSale(row[s], n)  BY <1>1, <1>4, RowIs DEF RowFields, SameSale
<1>7. PICK r : r = [run[w] EXCEPT !.gem = rc.gem, !.status = gems[rc.gem].status, !.pc = "advance"]  OBVIOUS
<1>8. run' = [run EXCEPT ![w] = r]  BY <1>3, <1>7, Zenon
<1>9. r.pc = "advance" /\ r.s = run[w].s /\ r.read = run[w].read /\ r.kind = "activation"  BY <1>1, <1>7 DEF ActivationRun
<1>10. GoesOn(run[w], r)  BY <1>1, <1>9 DEF GoesOn, Holds, Switching, Looking
<1>. QED  BY <1>1, <1>3, <1>5, <1>6, <1>8, <1>10, SaleRow, MoveSold, QuietChain

LEMMA AdvancedSold == ASSUME OnceAndSold, KeptAndNamed', NEW w \in Workers, Advanced(w)  PROVE OnceAndSold'
<1>1. run[w].pc = "advanced" /\ ActivationRun(run[w]) /\ Holds(run[w]) /\ SellerInv
  BY ActivationsRun DEF OnceAndSold, KeptAndNamed, Advanced, ActivationRun, Holds
<1>2. PICK s \in Submissions : s = run[w].s  BY <1>1 DEF ActivationRun
<1>3. PICK n : n = [row[s] EXCEPT !.activation = AdvanceFn(run[w].status).done]  OBVIOUS
<1>4. row' = [row EXCEPT ![s] = n]  BY <1>2, <1>3 DEF Advanced, persistStep
<1>5. SameSale(row[s], n)  BY <1>1, <1>3, RowIs DEF RowFields, SameSale
<1>6. PICK st : st = IF run[w].status < GemStatus.Listed THEN run[w].status + 1 ELSE run[w].status  OBVIOUS
<1>7. PICK r : r = [run[w] EXCEPT !.pc = "advance", !.status = st]  OBVIOUS
<1>8. run' = [run EXCEPT ![w] = r]
  <2>1. run' = [run EXCEPT ![w].pc = "advance", ![w].status = IF run[w].status < GemStatus.Listed THEN @ + 1 ELSE @]
    BY DEF Advanced
  <2>. QED  BY <1>1, <1>6, <1>7, <2>1 DEF SellerInv, RunsSound, ActivationRun
<1>9. r.pc = "advance" /\ r.s = run[w].s /\ r.read = run[w].read /\ r.kind = "activation"  BY <1>1, <1>7 DEF ActivationRun
<1>10. GoesOn(run[w], r)  BY <1>1, <1>9 DEF GoesOn, Holds, Switching, Looking
<1>. QED  BY <1>1, <1>4, <1>5, <1>8, <1>10, SaleRow, MoveSold, QuietChain DEF Advanced

LEMMA ListingDoneSold == ASSUME OnceAndSold, KeptAndNamed', NEW w \in Workers, ListingDone(w)  PROVE OnceAndSold'
<1>1. run[w].pc = "advance" /\ ActivationRun(run[w]) /\ Holds(run[w]) /\ SellerInv /\ Unlisted
  BY ActivationsRun, QuietChain DEF OnceAndSold, KeptAndNamed, ListingDone, ActivationRun, Holds
<1>2. PICK s \in Submissions : s = run[w].s  BY <1>1 DEF ActivationRun
<1>3. CASE run[w].read.mode = "seller_mint"  BY <1>1, <1>3, SameRowsSale, GoSold DEF ListingDone
<1>4. CASE run[w].read.mode # "seller_mint"
  <2>1. PICK n : n = Finished(row[s], "auction")  OBVIOUS
  <2>2. Go(w, "activated") /\ row' = [row EXCEPT ![s] = n]  BY <1>2, <1>4, <2>1 DEF ListingDone, persistStep
  <2>3. n = [row[s] EXCEPT !.status = "registered", !.started = None, !.stale = FALSE, !.activation = "auction_created"]
    BY <2>1 DEF Finished
  <2>4. SameSale(row[s], n)  BY <1>1, <2>3, RowIs DEF RowFields, SameSale
  <2>. QED  BY <1>1, <2>2, <2>4, SaleRow, GoSold
<1>. QED  BY <1>3, <1>4

LEMMA ClaimsAgeSold ==
  ASSUME OnceAndSold, KeptAndNamed', LeaseLapses \/ \E s \in Submissions : ClaimGoesStale(s)  PROVE OnceAndSold'
<1>1. CASE LeaseLapses  BY <1>1, StillSold, SameRowsSale, QuietChain DEF LeaseLapses
<1>2. ASSUME NEW s \in Submissions, ClaimGoesStale(s)  PROVE OnceAndSold'
  <2>1. SellerInv  BY DEF OnceAndSold, KeptAndNamed
  <2>2. PICK n : n = [row[s] EXCEPT !.stale = TRUE]  OBVIOUS
  <2>3. row' = [row EXCEPT ![s] = n] /\ run' = run /\ Chain  BY <1>2, <2>2 DEF ClaimGoesStale
  <2>4. SameSale(row[s], n)  BY <2>1, <2>2, RowIs DEF RowFields, SameSale
  <2>. QED  BY <2>1, <2>3, <2>4, SaleRow, StillSold, QuietChain
<1>. QED  BY <1>1, <1>2

\* The intake, but for the choice of the mode.
LEMMA IntakeSold ==
  ASSUME OnceAndSold, KeptAndNamed', IntakeNext, \A s \in Submissions, mode \in {"auction", "seller_mint"} : ~Create(s, mode)
  PROVE  OnceAndSold'
<1>1. Unlisted
  BY QuietChain DEF IntakeNext, Create, Verify, ConfirmCustody, AppraiseBegins, RejectBegins, ReceiptBegins, Withdraw, Staff,
     record_gem_appraisal, reject_gem_submission, record_bank_receipt, WithdrawLoads, WithdrawEvent, Chain, chainVars
<1>2. SellerInv  BY DEF OnceAndSold, KeptAndNamed
<1>3. ASSUME NEW w \in Workers, NEW pc \in {"appraise", "reject", "receive", "withdrawal"}, NEW s, NEW key,
             run' = [run EXCEPT ![w] = StaffCall(pc, s, key)], row' = row
      PROVE  OnceAndSold'
  <2>1. Loose(StaffCall(pc, s, key))  BY DEF StaffCall, Loose, Holds, Switching, NamesGem
  <2>. QED  BY <1>1, <1>3, <2>1, LooseGoesOn, MoveSold, SameRowsSale
<1>4. ASSUME NEW s \in Submissions, Verify(s) \/ ConfirmCustody(s)  PROVE OnceAndSold'
  <2>1. PICK st \in {"awaiting_custody", "approved", "awaiting_grading"} : Status(s, st) /\ run' = run
    BY <1>4 DEF Verify, ConfirmCustody
  <2>2. PICK n : n = [row[s] EXCEPT !.status = st]  OBVIOUS
  <2>3. row' = [row EXCEPT ![s] = n]  BY <2>1, <2>2 DEF Status
  <2>4. SameSale(row[s], n)  BY <1>2, <2>2, RowIs DEF RowFields, SameSale
  <2>. QED  BY <1>1, <1>2, <2>1, <2>3, <2>4, SaleRow, StillSold
<1>5. ASSUME NEW w \in Workers, NEW s \in Submissions,
             RejectBegins(w, s) \/ ReceiptBegins(w, s) \/ \E k \in Keys : AppraiseBegins(w, s, k)
      PROVE  OnceAndSold'
  BY <1>3, <1>5 DEF RejectBegins, ReceiptBegins, AppraiseBegins, Staff, Begin
<1>6. ASSUME NEW w \in Workers, NEW s \in Submissions, Withdraw(w, s)  PROVE OnceAndSold'
  <2>1. PICK n : n = [row[s] EXCEPT !.status = "withdrawn"]  OBVIOUS
  <2>2. row' = [row EXCEPT ![s] = n]  BY <1>6, <2>1 DEF Withdraw, Status
  <2>3. SameSale(row[s], n)  BY <1>2, <2>1, RowIs DEF RowFields, SameSale
  <2>4. PICK r : r = [pc |-> "withdrawn", s |-> s]  OBVIOUS
  <2>5. Loose(r)  BY <2>4 DEF Loose, Holds, Switching, NamesGem
  <2>6. run' = [run EXCEPT ![w] = r]  BY <1>6, <2>4 DEF Withdraw, Begin
  <2>. QED  BY <1>1, <1>2, <2>2, <2>3, <2>5, <2>6, LooseGoesOn, SaleRow, MoveSold
<1>7. ASSUME NEW w \in Workers, record_gem_appraisal(w) \/ reject_gem_submission(w) \/ record_bank_receipt(w)
      PROVE  OnceAndSold'
  <2>1. StaffRun(run[w]) /\ End(w)
    BY <1>2, <1>7, CallsRun DEF record_gem_appraisal, reject_gem_submission, record_bank_receipt
  <2>2. PICK s \in Submissions : s = run[w].s  BY <2>1 DEF StaffRun
  <2>3. PICK a, b, c : /\ a = [row[s] EXCEPT !.appraised = TRUE, !.status = IF row[s].bank THEN "approved" ELSE @]
                       /\ b = [row[s] EXCEPT !.status = "rejected"]
                       /\ c = [row[s] EXCEPT !.bank = TRUE, !.status = "approved"]
    OBVIOUS
  <2>4. row' = row \/ row' = [row EXCEPT ![s] = a] \/ row' = [row EXCEPT ![s] = b] \/ row' = [row EXCEPT ![s] = c]
    <3>1. CASE record_gem_appraisal(w)
      <4>1. row' = row \/ row' = [row EXCEPT ![s].appraised = TRUE, ![s].status = IF row[s].bank THEN "approved" ELSE @]
        BY <2>2, <3>1 DEF record_gem_appraisal
      <4>2. [row EXCEPT ![s].appraised = TRUE, ![s].status = IF row[s].bank THEN "approved" ELSE @] = [row EXCEPT ![s] = a]
        BY <1>2, <2>3, RowIs DEF RowFields, SellerInv, World, RowsSound
      <4>. QED  BY <4>1, <4>2
    <3>2. CASE reject_gem_submission(w)  BY <2>2, <2>3, <3>2 DEF reject_gem_submission, Status
    <3>3. CASE record_bank_receipt(w)  BY <2>2, <2>3, <3>3 DEF record_bank_receipt
    <3>. QED  BY <1>7, <3>1, <3>2, <3>3
  <2>5. \A n \in {a, b, c} : SameSale(row[s], n)  BY <1>2, <2>3, RowIs DEF RowFields, SameSale
  <2>6. SaleRows  BY <1>2, <2>4, <2>5, SaleRow, SameRowsSale
  <2>. QED  BY <1>1, <2>1, <2>6, EndSold
<1>8. ASSUME NEW w \in Workers, WithdrawLoads(w) \/ WithdrawEvent(w)  PROVE OnceAndSold'
  BY <1>1, <1>3, <1>8, EndSold, SameRowsSale DEF WithdrawLoads, WithdrawEvent
<1>. QED  BY <1>4, <1>5, <1>6, <1>7, <1>8 DEF IntakeNext

\* A write that lists nothing, from a run that goes on.
LEMMA WaitSold ==
  ASSUME OnceAndSold, KeptAndNamed', row' = row, NEW w \in Workers, NEW fn \in OtherFns \ {"listGem"}, NEW arg, NEW then,
         Write(w, fn, arg, then), then # "mode", then = "recover" => run[w].pc = "approve",
         \/ ActivationRun(run[w]) /\ Holds(run[w]) /\ run[w].pc # "lease"
         \/ SweepRun(run[w])
         \/ SwitchRun(run[w]) /\ Switching(run[w])
  PROVE  OnceAndSold'
<1>1. Unlisted /\ \E tx : Waits(w, tx, then) /\ tx.fn = fn /\ tx.arg = arg  BY Sends
<1>2. PICK tx : Waits(w, tx, then)  BY <1>1
<1>3. PICK r : r = [run[w] EXCEPT !.tx = tx, !.pc = "wait", !.then = then]  OBVIOUS
<1>4. run' = [run EXCEPT ![w] = r]  BY <1>2, <1>3 DEF Waits
<1>5. CASE ActivationRun(run[w])
  <2>1. r.pc = "wait" /\ r.then = then /\ r.s = run[w].s /\ r.read = run[w].read /\ r.kind = "activation"
    BY <1>3, <1>5 DEF ActivationRun
  <2>2. ~SweepRun(run[w]) /\ ~SwitchRun(run[w])  BY <1>5 DEF ActivationRun, SweepRun, SwitchRun
  <2>3. GoesOn(run[w], r)  BY <2>1, <2>2 DEF GoesOn, Holds, Switching, Looking
  <2>. QED  BY <1>1, <1>4, <2>3, SameRowsSale, MoveSold
<1>6. CASE SweepRun(run[w])
  <2>1. r.kind = "sweep" /\ r.pc = "wait"  BY <1>3, <1>6 DEF SweepRun
  <2>2. GoesOn(run[w], r)  BY <2>1 DEF GoesOn, Holds, Switching
  <2>. QED  BY <1>1, <1>4, <2>2, SameRowsSale, MoveSold
<1>7. CASE SwitchRun(run[w])
  <2>1. r.pc = "wait" /\ r.then = then /\ r.s = run[w].s /\ r.gem = run[w].gem /\ r.kind = "switch"
    BY <1>3, <1>7 DEF SwitchRun
  <2>2. ~SweepRun(run[w]) /\ ~ActivationRun(run[w])  BY <1>7 DEF ActivationRun, SweepRun, SwitchRun
  <2>3. GoesOn(run[w], r)  BY <2>1, <2>2 DEF GoesOn, Holds, Switching
  <2>. QED  BY <1>1, <1>4, <2>3, SameRowsSale, MoveSold
<1>. QED  BY <1>5, <1>6, <1>7

LEMMA SweepSold ==
  ASSUME OnceAndSold, KeptAndNamed', NEW w \in Workers,
         \/ \E g \in DOMAIN gems : SweepClaims(w, g)
         \/ SweepReads(w) \/ SweepSettled(w) \/ SweepCounts(w) \/ SweepClears(w) \/ SweepCreates(w)
         \/ SweepUpserts(w) \/ SweepFails(w) \/ SweepReleases(w)
  PROVE  OnceAndSold'
<1>1. row' = row /\ SaleRows /\ SellerInv
  BY SameRowsSale DEF SweepClaims, SweepReads, SweepSettled, SweepCounts, SweepClears, SweepCreates, SweepUpserts, SweepFails,
     SweepReleases, Record, OnceAndSold, KeptAndNamed
<1>2. ASSUME NEW g \in DOMAIN gems, SweepClaims(w, g)  PROVE OnceAndSold'
  <2>1. PICK r : r = [pc |-> "sweep", kind |-> "sweep", gem |-> g, auction |-> NoAuction,
                      rounds |-> 0, tx |-> None, then |-> "none"]
    OBVIOUS
  <2>2. run' = [run EXCEPT ![w] = r]  BY <1>2, <2>1 DEF SweepClaims, Begin
  <2>3. Loose(r)  BY <2>1, SweepsAreLoose
  <2>. QED  BY <1>1, <1>2, <2>2, <2>3, LooseGoesOn, MoveSold, QuietChain DEF SweepClaims
<1>3. CASE SweepReads(w)
  <2>1. SweepRun(run[w])  BY <1>1, <1>3, SweepsRun DEF SweepReads
  <2>2. CASE run' = [run EXCEPT ![w].auction = gems[run[w].gem].auction, ![w].pc = "count"] /\ Chain
    <3>1. PICK r : r = [run[w] EXCEPT !.auction = gems[run[w].gem].auction, !.pc = "count"]  OBVIOUS
    <3>2. Loose(r)  BY <2>1, <3>1, SweepsAreLoose DEF SweepRun
    <3>3. run' = [run EXCEPT ![w] = r]  BY <2>2, <3>1, Zenon
    <3>. QED  BY <1>1, <2>2, <3>2, <3>3, LooseGoesOn, MoveSold, QuietChain
  <2>3. CASE Go(w, "release") /\ Chain  BY <1>1, <2>1, <2>3, GoSold, QuietChain
  <2>4. CASE SweepWrite(w, "settleAuction", "settled")  BY <1>1, <2>1, <2>4, WaitSold DEF SweepWrite, OtherFns
  <2>. QED  BY <1>3, <2>2, <2>3, <2>4 DEF SweepReads
<1>4. CASE SweepSettled(w) \/ SweepFails(w) \/ SweepUpserts(w)
  <2>1. SweepRun(run[w])  BY <1>1, <1>4, SweepsRun DEF SweepSettled, SweepFails, SweepUpserts
  <2>. QED  BY <1>1, <1>4, <2>1, GoSold, QuietChain DEF SweepSettled, SweepFails, SweepUpserts
<1>5. CASE SweepCounts(w)
  <2>1. SweepRun(run[w]) /\ Unlisted  BY <1>1, <1>5, SweepsRun, QuietChain DEF SweepCounts
  <2>2. CASE run' = [run EXCEPT ![w].pc = "clear", ![w].rounds = cycle[run[w].gem].rounds]
    <3>1. PICK r : r = [run[w] EXCEPT !.pc = "clear", !.rounds = cycle[run[w].gem].rounds]  OBVIOUS
    <3>2. Loose(r)  BY <2>1, <3>1, SweepsAreLoose DEF SweepRun
    <3>3. run' = [run EXCEPT ![w] = r]  BY <2>2, <3>1, Zenon
    <3>. QED  BY <1>1, <2>1, <3>2, <3>3, LooseGoesOn, MoveSold
  <2>3. CASE Go(w, "release")  BY <1>1, <2>1, <2>3, GoSold
  <2>. QED  BY <1>5, <2>2, <2>3 DEF SweepCounts
<1>6. CASE SweepClears(w) \/ SweepCreates(w)
  <2>1. SweepRun(run[w])  BY <1>1, <1>6, SweepsRun DEF SweepClears, SweepCreates
  <2>2. CASE Go(w, "create") /\ Chain  BY <1>1, <2>1, <2>2, GoSold, QuietChain
  <2>3. CASE Write(w, "cancelAuction", run[w].gem, "create")  BY <1>1, <2>1, <2>3, WaitSold DEF OtherFns
  <2>4. CASE Write(w, "createDailyAuction", run[w].gem, "counted")  BY <1>1, <2>1, <2>4, WaitSold DEF OtherFns
  <2>. QED  BY <1>6, <2>2, <2>3, <2>4 DEF SweepClears, SweepCreates, SweepWrite
<1>7. CASE SweepReleases(w)  BY <1>1, <1>7, EndSold, QuietChain DEF SweepReleases
<1>. QED  BY <1>2, <1>3, <1>4, <1>5, <1>6, <1>7

-----------------------------------------------------------------------------
(* The steps of an activation that the two are about. *)

LEMMA SoundMove ==
  ASSUME OnceAndSold, KeptAndNamed', SaleRows, Unlisted, NEW w \in Workers, NEW r, run' = [run EXCEPT ![w] = r],
         LookSound(r, row'[r.s]), SaleRun(r, row'[r.s])
  PROVE  OnceAndSold'
<1>1. Moved({w}) /\ run'[w] = r  BY MovesTo DEF OnceAndSold, KeptAndNamed
<1>2. gems' = gems /\ Registering' = Registering
  BY CountStays DEF Unlisted, RegistryKept, OnceAndSold, KeptAndNamed, SellerInv, World
<1>3. LookSound(r, row[r.s])'  BY <1>2 DEF LookSound, Holds, Looking, Clean
<1>4. SaleRun(r, row[r.s])'  BY <1>2 DEF SaleRun, Holds, Switching, OnSale
<1>5. \A v \in {w} : LookSound(run[v], row[run[v].s])' /\ SaleRun(run[v], row[run[v].s])'  BY <1>1, <1>3, <1>4
<1>. QED  BY <1>1, <1>5, QuietSold

\* A row whose sale is as it should be.
LEMMA OneSale ==
  ASSUME OnceAndSold, NEW s \in Submissions, NEW n, row' = [row EXCEPT ![s] = n], n.floor = row[s].floor, SaleOf(s, n),
         n.mode = row[s].mode \/ ~row[s].bank \/ \E g \in DOMAIN gems : OnSale(s, g)
  PROVE  (\A x \in Submissions : SaleOf(x, row'[x])) /\ ModesMove /\ \A W : FloorStep(W)
<1>1. \A x \in Submissions : row'[x] = IF x = s THEN n ELSE row[x]
  BY DEF OnceAndSold, KeptAndNamed, SellerInv, World, RowsSound
<1>2. \A x \in Submissions : SaleOf(x, row'[x])  BY <1>1 DEF OnceAndSold, SaleInv
<1>3. ModesMove  BY <1>1 DEF ModesMove
<1>4. \A W : FloorStep(W)  BY <1>1 DEF FloorStep
<1>. QED  BY <1>2, <1>3, <1>4

\* The mode is chosen before there is a gem.
LEMMA CreateSold ==
  ASSUME OnceAndSold, KeptAndNamed', NEW s \in Submissions, NEW mode, Create(s, mode)  PROVE OnceAndSold'
<1>1. PICK n : n = [row[s] EXCEPT !.status = "submitted", !.mode = mode]  OBVIOUS
<1>2. SellerInv /\ row[s].status = "none"  BY DEF OnceAndSold, KeptAndNamed, Create
<1>3. row' = [row EXCEPT ![s] = n]  BY <1>1, <1>2, RowIs DEF Create, RowFields, SellerInv, World, RowsSound
<1>4. n.status = "submitted" /\ n.floor = row[s].floor /\ n.minted = row[s].minted  BY <1>1, <1>2, RowIs DEF RowFields
<1>5. ~row[s].bank /\ SaleOf(s, row[s])  BY <1>2 DEF OnceAndSold, SaleInv, SaleOf
<1>6. ASSUME NEW g \in DOMAIN gems  PROVE ~OnSale(s, g)
  <2>1. PICK p : p = gems[g].pkg  OBVIOUS
  <2>2. Received(p)  BY <2>1 DEF OnceAndSold, KeptAndNamed, SellerInv, World, RegistryReceived
  <2>. QED  BY <1>5, <2>1, <2>2 DEF Received, OnSale
<1>7. SaleOf(s, n)  BY <1>4, <1>5, <1>6 DEF SaleOf
<1>8. (\A x \in Submissions : SaleOf(x, row'[x])) /\ ModesMove /\ FloorStep({})  BY <1>3, <1>4, <1>5, <1>7, OneSale
<1>9. Moved({}) /\ RegistryKept /\ pending' = pending  BY DEF Create, Moved, chainVars, RegistryKept
<1>. QED  BY <1>8, <1>9, QuietFrame

LEMMA LeaseSold == ASSUME OnceAndSold, KeptAndNamed', NEW w \in Workers, Lease(w)  PROVE OnceAndSold'
<1>1. ActivationRun(run[w])  BY ActivationsRun DEF OnceAndSold, KeptAndNamed, Lease
<1>2. PICK r : r = [run[w] EXCEPT !.read = row[run[w].s], !.pc = "approve"]  OBVIOUS
<1>3. run' = [run EXCEPT ![w] = r] /\ row' = row  BY <1>2 DEF Lease
<1>4. r.pc = "approve" /\ r.kind = "activation" /\ r.read = row[r.s]  BY <1>1, <1>2 DEF ActivationRun
<1>5. LookSound(r, row'[r.s]) /\ SaleRun(r, row'[r.s])  BY <1>3, <1>4 DEF LookSound, SaleRun, Looking, Switching
<1>. QED  BY <1>3, <1>5, SoundMove, SameRowsSale, QuietChain DEF Lease

LEMMA ApproveSold == ASSUME OnceAndSold, KeptAndNamed', NEW w \in Workers, Approve(w)  PROVE OnceAndSold'
<1>1. ActivationRun(run[w]) /\ Holds(run[w]) /\ run[w].pc = "approve"
  BY ActivationsRun DEF OnceAndSold, KeptAndNamed, Approve, ActivationRun, Holds
<1>2. CASE approved  BY <1>1, <1>2, GoSold, SameRowsSale, QuietChain DEF Approve
<1>3. CASE ~approved  BY <1>1, <1>3, WaitSold DEF Approve, OtherFns
<1>. QED  BY <1>2, <1>3

\* When recovery finds nothing, nothing was sent.
LEMMA NothingFound ==
  ASSUME OnceAndSold, NEW w \in Workers, run[w].pc = "recover", Holds(run[w]), run[w].read.gem = None,
         registrationMayHaveBeenSent(run[w].read) => recoverRegisteredGem(run[w].read) = None,
         \A tx \in pending : tx.fn = "registerGem" => tx.arg[1] # run[w].s
  PROVE  Clean(run[w].s)
<1>. DEFINE s == run[w].s  read == run[w].read
<1>1. ASSUME NEW g \in DOMAIN gems, gems[g].pkg[1] = s  PROVE FALSE
  <2>1. PICK p : p = gems[g].pkg  OBVIOUS
  <2>2. row[s].pkg = p /\ row[s].floor  BY <1>1, <2>1 DEF OnceAndSold, KeptAndNamed, KeptInv, PackagesSent, SentOf
  <2>3. read.floor  BY <2>2 DEF OnceAndSold, OnceInv, LookSound, Looking
  <2>4. read.pkg = p  BY <2>2 DEF OnceAndSold, KeptAndNamed, KeptInv, ClaimSound
  <2>5. recoverRegisteredGem(read) = None  BY <2>3 DEF registrationMayHaveBeenSent
  <2>6. ASSUME NEW h \in DOMAIN gems  PROVE h # None
    <3>1. h \in 1..Len(gems) /\ Len(gems) \in Nat  BY DEF OnceAndSold, KeptAndNamed, SellerInv, World, RegistryCounted, IsSeq
    <3>. QED  BY <3>1, NoneIsNoStamp
  <2>7. CASE ByHash(read) # {}
    <3>1. PICK r : r = CHOOSE rc \in ByHash(read) : TRUE  OBVIOUS
    <3>2. r \in ByHash(read) /\ r.gem = None  BY <2>5, <2>7, <3>1 DEF recoverRegisteredGem
    <3>3. r.gem \in DOMAIN gems  BY <3>2 DEF ByHash, ReceiptOf, OnceAndSold, KeptAndNamed, NamesInv, ReceiptsSound
    <3>. QED  BY <2>6, <3>2, <3>3
  <2>8. CASE ByHash(read) = {}
    <3>1. PICK found : found = {h \in DOMAIN gems : gems[h].pkg = read.pkg}  OBVIOUS
    <3>2. findRegisteredGem(read.pkg) = None  BY <2>5, <2>8 DEF recoverRegisteredGem
    <3>3. g \in found  BY <2>1, <2>4, <3>1
    <3>4. None = CHOOSE h \in found : \A k \in found : k <= h  BY <3>1, <3>2, <3>3 DEF findRegisteredGem
    <3>5. found # {} /\ found \subseteq DOMAIN gems /\ SellerInv  BY <3>1, <3>3 DEF OnceAndSold, KeptAndNamed
    <3>6. (CHOOSE h \in found : \A k \in found : k <= h) \in found  BY <3>5, LatestFound
    <3>7. None \in found  BY <3>4, <3>6
    <3>. QED  BY <2>6, <3>5, <3>7
  <2>. QED  BY <2>7, <2>8
<1>. QED  BY <1>1 DEF Clean, Registering

LEMMA RecoverSold == ASSUME OnceAndSold, KeptAndNamed', NEW w \in Workers, Recover(w), SettledFirst  PROVE OnceAndSold'
<1>1. run[w].pc = "recover" /\ ActivationRun(run[w]) /\ Holds(run[w]) /\ SellerInv /\ Unlisted
  BY ActivationsRun, QuietChain DEF OnceAndSold, KeptAndNamed, Recover, ActivationRun, Holds
<1>2. PICK s \in Submissions : s = run[w].s  BY <1>1 DEF ActivationRun
<1>3. PICK gem : gem = IF run[w].read.gem # None THEN run[w].read.gem
                       ELSE IF run[w].prior > 0 \/ registrationMayHaveBeenSent(run[w].read)
                            THEN recoverRegisteredGem(run[w].read) ELSE None
  OBVIOUS
<1>4. PICK pc \in {"floor", "advance"} : pc = IF gem = None THEN "floor" ELSE "advance"  OBVIOUS
<1>5. PICK st : st = IF gem = None THEN 0 ELSE gems[gem].status  OBVIOUS
<1>6. PICK r : r = [run[w] EXCEPT !.gem = gem, !.pc = pc, !.status = st]  OBVIOUS
<1>7. run' = [run EXCEPT ![w] = r]
  <2>1. run' = [run EXCEPT ![w].gem = gem, ![w].pc = pc, ![w].status = st]  BY <1>3, <1>4, <1>5 DEF Recover
  <2>. QED  BY <2>1, <1>6, Zenon
<1>8. r.pc = pc /\ r.s = run[w].s /\ r.read = run[w].read /\ r.kind = "activation"  BY <1>1, <1>6 DEF ActivationRun
<1>9. SaleRows
  <2>1. PICK n : n = [row[s] EXCEPT !.gem = gem, !.activation = "registered"]  OBVIOUS
  <2>2. row' = row \/ row' = [row EXCEPT ![s] = n]  BY <1>2, <1>3, <2>1 DEF Recover, persistStep
  <2>3. SameSale(row[s], n)  BY <1>1, <2>1, RowIs DEF RowFields, SameSale
  <2>. QED  BY <1>1, <2>2, <2>3, SaleRow, SameRowsSale
<1>10. CASE gem # None
  <2>1. GoesOn(run[w], r)  BY <1>1, <1>4, <1>8, <1>10 DEF GoesOn, Holds, Switching, Looking
  <2>. QED  BY <1>1, <1>7, <1>9, <2>1, MoveSold
<1>11. CASE gem = None
  <2>1. run'[w].pc = "floor"  BY <1>1, <1>4, <1>7, <1>8, <1>11, MovesTo
  <2>2. \A tx \in pending : tx.fn = "registerGem" => tx.arg[1] # run[w].s  BY <2>1 DEF SettledFirst
  <2>3. Clean(run[w].s)  BY <1>1, <1>3, <1>11, <2>2, NothingFound
  <2>4. LookSound(r, row'[r.s])  BY <1>4, <1>8, <1>11, <2>3 DEF LookSound, Looking
  <2>5. SaleRun(run[w], row[s]) /\ SameSale(row[s], row'[s])  BY <1>2, <1>9 DEF OnceAndSold, SaleInv, SaleRows
  <2>6. SaleRun(r, row'[r.s])  BY <1>1, <1>2, <1>4, <1>8, <1>11, <2>5 DEF SaleRun, SameSale, Switching
  <2>. QED  BY <1>1, <1>7, <1>9, <2>4, <2>6, SoundMove
<1>. QED  BY <1>10, <1>11

LEMMA RecordFloorSold == ASSUME OnceAndSold, KeptAndNamed', NEW w \in Workers, RecordFloor(w)  PROVE OnceAndSold'
<1>1. run[w].pc = "floor" /\ ActivationRun(run[w]) /\ Holds(run[w]) /\ SellerInv
  BY ActivationsRun DEF OnceAndSold, KeptAndNamed, RecordFloor, ActivationRun, Holds
<1>2. PICK s \in Submissions : s = run[w].s  BY <1>1 DEF ActivationRun
<1>3. PICK n : n = [row[s] EXCEPT !.floor = TRUE]  OBVIOUS
<1>4. row' = [row EXCEPT ![s] = n]  BY <1>2, <1>3 DEF RecordFloor, persistStep
<1>5. \A x \in Submissions : row'[x] = IF x = s THEN n ELSE row[x]  BY <1>1, <1>4 DEF SellerInv, World, RowsSound
<1>6. n.mode = row[s].mode /\ n.minted = row[s].minted /\ n.status = row[s].status /\ n.bank = row[s].bank
  BY <1>1, <1>3, RowIs DEF RowFields
<1>7. FloorStep({w}) /\ ModesMove
  <2>1. Alone({w}, s)  BY <1>1, <1>2, HoldsAlone DEF OnceAndSold
  <2>. QED  BY <1>5, <1>6, <2>1 DEF FloorStep, ModesMove
<1>8. ASSUME NEW x \in Submissions  PROVE SaleOf(x, row'[x])
  <2>1. SaleOf(x, row[x])  BY DEF OnceAndSold, SaleInv
  <2>. QED  BY <1>5, <1>6, <2>1 DEF SaleOf
<1>9. PICK r : r = [run[w] EXCEPT !.pc = "register"]  OBVIOUS
<1>10. Moved({w}) /\ run'[w] = r  BY <1>1, <1>9, Goes, MovesTo DEF RecordFloor
<1>11. r.pc = "register" /\ r.s = s /\ r.read = run[w].read /\ r.kind = "activation"  BY <1>1, <1>2, <1>9 DEF ActivationRun
<1>12. RegistryKept /\ gems' = gems /\ pending' = pending  BY Quiet DEF RecordFloor, Chain, chainVars
<1>13. LookSound(r, row[r.s])' /\ SaleRun(r, row[r.s])'
  <2>1. Clean(s)  BY <1>1, <1>2 DEF OnceAndSold, OnceInv, LookSound
  <2>2. SaleRun(run[w], row[s])  BY <1>2 DEF OnceAndSold, SaleInv
  <2>3. Clean(s)'  BY <2>1, <1>12 DEF Clean, Registering
  <2>4. LookSound(r, row[r.s])'  BY <1>11, <2>3 DEF LookSound, Looking
  <2>5. r.read.mode = row'[r.s].mode \/ \E g \in DOMAIN gems : OnSale(r.s, g)
    BY <1>1, <1>2, <1>5, <1>6, <1>11, <2>2 DEF SaleRun
  <2>6. SaleRun(r, row[r.s])'  BY <1>11, <1>12, <2>5 DEF SaleRun, Switching, OnSale
  <2>. QED  BY <2>4, <2>6
<1>14. \A v \in {w} : LookSound(run[v], row[run[v].s])' /\ SaleRun(run[v], row[run[v].s])'  BY <1>10, <1>13
<1>. QED  BY <1>7, <1>8, <1>10, <1>12, <1>14, QuietFrame

\* A registration is sent where none is, and none was.
LEMMA SentOnce ==
  ASSUME OnceAndSold, KeptAndNamed', NEW w \in Workers, run[w].pc = "register", Holds(run[w]),
         Send(Tx("registerGem", run[w].read.pkg, run[w].s)), RowSteps({w}), SaleRows, Moved({w}), GoesOn(run[w], run'[w])
  PROVE  OnceAndSold'
<1>1. SentStep /\ run[w].read.pkg[1] = run[w].s  BY SentIsRows DEF OnceAndSold
<1>2. PICK s, tx : s = run[w].s /\ tx = Tx("registerGem", run[w].read.pkg, run[w].s)  OBVIOUS
<1>3. tx.fn = "registerGem" /\ tx.arg[1] = s  BY <1>1, <1>2, TxIs
<1>4. pending' = pending \cup {tx} /\ gems' = gems  BY <1>2 DEF Send
<1>5. Clean(s) /\ Alone({w}, s)  BY <1>2, HoldsAlone DEF OnceAndSold, OnceInv, LookSound
<1>6. Registering' = Registering \cup {tx}  BY <1>3, <1>4 DEF Registering
<1>7. OneSent'  BY <1>3, <1>4, <1>5, <1>6 DEF OnceAndSold, OnceInv, OneSent, Clean
<1>8. FloorStep({w}) /\ FreshStep({w})  BY <1>3, <1>5, <1>6 DEF SaleRows, SameSale, FloorStep, FreshStep
<1>9. \A v \in {w} : LookSound(run[v], row[run[v].s])' /\ SaleRun(run[v], row[run[v].s])'  BY <1>4, GoneOn
<1>10. OnceInv'  BY <1>1, <1>7, <1>8, <1>9, OnceFrame DEF OnceAndSold
<1>11. GemsMove /\ ModesMove  BY <1>4 DEF GemsMove, SaleRows, SameSale, ModesMove
<1>12. \A g \in DOMAIN gems' : GemSound(gems[g])'  BY <1>4 DEF OnceAndSold, SaleInv, GemSound
<1>13. ASSUME NEW x \in Submissions  PROVE SaleOf(x, row[x])'
  <2>1. SaleOf(x, row[x]) /\ SameSale(row[x], row'[x])  BY DEF OnceAndSold, SaleInv, SaleRows
  <2>. QED  BY <1>4, <2>1 DEF SaleOf, OnSale, SameSale
<1>14. \A x \in pending' : x \in pending \/ ListingSound(x)'  BY <1>3, <1>4 DEF ListingSound
<1>15. SaleInv'  BY <1>9, <1>11, <1>12, <1>13, <1>14, SaleFrame
<1>. QED  BY <1>10, <1>15 DEF OnceAndSold

LEMMA RegisterSold ==
  ASSUME OnceAndSold, KeptAndNamed', NEW w \in Workers, Register(w) \/ RegisterReplyLost(w)  PROVE OnceAndSold'
<1>1. run[w].pc = "register" /\ ActivationRun(run[w]) /\ Holds(run[w]) /\ SellerInv /\ KeptAndNamed
  BY ActivationsRun DEF OnceAndSold, KeptAndNamed, Register, RegisterReplyLost, ActivationRun, Holds
<1>2. Send(Tx("registerGem", run[w].read.pkg, run[w].s))  BY DEF Register, RegisterReplyLost
<1>3. CASE Register(w)
  <2>1. RowSteps({w}) /\ SaleRows  BY <1>3, SameRowsCalm, CalmSteps, SameRowsSale DEF Register
  <2>2. PICK tx : tx = Tx("registerGem", run[w].read.pkg, run[w].s)  OBVIOUS
  <2>3. PICK r : r = [run[w] EXCEPT !.tx = tx, !.pc = "hash"]  OBVIOUS
  <2>4. run' = [run EXCEPT ![w] = r]  BY <1>3, <2>2, <2>3 DEF Register
  <2>5. r.pc = "hash" /\ r.s = run[w].s /\ r.read = run[w].read /\ r.kind = "activation"  BY <1>1, <2>3 DEF ActivationRun
  <2>6. GoesOn(run[w], r)  BY <1>1, <2>5 DEF GoesOn, Holds, Switching, Looking
  <2>7. Moved({w}) /\ run'[w] = r  BY <1>1, <2>4, MovesTo
  <2>. QED  BY <1>1, <1>2, <2>1, <2>6, <2>7, SentOnce
<1>4. CASE RegisterReplyLost(w)
  <2>1. Alone({w}, run[w].s) /\ run[w].s \in Submissions  BY <1>1, HoldsAlone, ClaimsRun
  <2>2. RowSteps({w}) /\ SaleRows  BY <1>1, <1>4, <2>1, Failed, FailedSale DEF RegisterReplyLost
  <2>3. PICK r : r = [run[w] EXCEPT !.pc = "release"]  OBVIOUS
  <2>4. Moved({w}) /\ run'[w] = r  BY <1>1, <1>4, <2>3, Goes, MovesTo DEF RegisterReplyLost
  <2>5. r.pc = "release"  BY <1>1, <2>3 DEF ActivationRun
  <2>6. GoesOn(run[w], r)  BY <2>5 DEF GoesOn, Holds, Switching
  <2>. QED  BY <1>1, <1>2, <2>2, <2>4, <2>6, SentOnce
<1>. QED  BY <1>3, <1>4

-----------------------------------------------------------------------------
(* The steps of the sale. *)

\* The gem a run names is the one gem of its stone.
LEMMA TheOnlyGem ==
  ASSUME OnceAndSold, NEW w \in Workers, NamesGem(run[w])
  PROVE  /\ run[w].gem \in DOMAIN gems /\ gems[run[w].gem].pkg[1] = run[w].s
         /\ \A h \in DOMAIN gems : OnSale(run[w].s, h) => h = run[w].gem
<1>1. run[w].gem # None /\ OwnGem(run[w].s, run[w].gem)  BY DEF OnceAndSold, KeptAndNamed, NamesInv, Named
<1>2. OneSent  BY DEF OnceAndSold, OnceInv
<1>. QED  BY <1>1, <1>2 DEF OwnGem, OneSent, OnSale

\* The stone is listed in the row's mode.
LEMMA AdvanceSold == ASSUME OnceAndSold, KeptAndNamed', NEW w \in Workers, Advance(w)  PROVE OnceAndSold'
<1>1. run[w].pc = "advance" /\ ActivationRun(run[w]) /\ Holds(run[w]) /\ row' = row
  BY ActivationsRun DEF OnceAndSold, KeptAndNamed, Advance, ActivationRun, Holds
<1>2. PICK fn : fn = AdvanceFn(run[w].status).fn  OBVIOUS
<1>3. fn \in {"confirmCustody", "verifyGem", "listGem", "createDailyAuction"}  BY <1>2 DEF AdvanceFn
<1>4. CASE fn # "listGem"
  <2>1. Write(w, fn, run[w].gem, "advanced")  BY <1>2, <1>4 DEF Advance
  <2>. QED  BY <1>1, <1>3, <1>4, <2>1, WaitSold DEF OtherFns
<1>5. CASE fn = "listGem"
  <2>1. PICK g, s : g = run[w].gem /\ s = run[w].s  OBVIOUS
  <2>2. PICK arg : arg = <<g, run[w].read.mode>>  OBVIOUS
  <2>3. Write(w, fn, arg, "advanced")  BY <1>2, <1>5, <2>1, <2>2 DEF Advance
  <2>4. RegistryKept /\ \E tx : tx.fn = fn /\ tx.arg = arg /\ Waits(w, tx, "advanced")  BY <1>5, <2>3, Writes DEF OtherFns
  <2>5. PICK tx : tx = Tx(fn, arg, IF run[w].kind = "sweep" THEN w ELSE run[w].s)  OBVIOUS
  <2>6. tx.fn = "listGem" /\ tx.arg = arg /\ pending' = pending \cup {tx}  BY <1>5, <2>3, <2>5, TxIs DEF Write, Send
  <2>7. g \in DOMAIN gems /\ gems[g].pkg[1] = s /\ \A h \in DOMAIN gems : OnSale(s, h) => h = g
    BY <1>1, <2>1, TheOnlyGem DEF NamesGem
  <2>8. run[w].read.mode = row[s].mode \/ \E h \in DOMAIN gems : OnSale(s, h)
    BY <1>1, <2>1 DEF OnceAndSold, SaleInv, SaleRun
  <2>9. run[w].read.mode = row[s].mode \/ gems[g].status >= GemStatus.Listed  BY <2>7, <2>8 DEF OnSale
  <2>10. gems' = gems  BY <2>4 DEF RegistryKept
  <2>11. ListingSound(tx)'
    <3>1. tx.arg[1] = g /\ tx.arg[2] = run[w].read.mode  BY <2>2, <2>6
    <3>. QED  BY <1>1, <2>7, <2>9, <2>10, <3>1 DEF ListingSound
  <2>12. PICK x : Waits(w, x, "advanced")  BY <2>4
  <2>13. PICK r : r = [run[w] EXCEPT !.tx = x, !.pc = "wait", !.then = "advanced"]  OBVIOUS
  <2>14. Moved({w}) /\ run'[w] = r  BY <2>12, <2>13, MovesTo DEF Waits, OnceAndSold, KeptAndNamed
  <2>15. r.pc = "wait" /\ r.then = "advanced" /\ r.s = run[w].s /\ r.read = run[w].read /\ r.kind = "activation"
    BY <1>1, <2>13 DEF ActivationRun
  <2>16. GoesOn(run[w], run'[w])  BY <1>1, <2>14, <2>15 DEF GoesOn, Holds, Switching, Looking
  <2>17. SaleRows /\ ModesMove /\ FloorStep({w})  BY <1>1, SameRowsSale DEF ModesMove, FloorStep
  <2>18. \A v \in {w} : LookSound(run[v], row[run[v].s])' /\ SaleRun(run[v], row[run[v].s])'
    BY <2>10, <2>16, <2>17, GoneOn
  <2>19. \A y \in Submissions : SaleOf(y, row'[y])  BY <1>1 DEF OnceAndSold, SaleInv
  <2>20. \A y \in pending' : y \in pending \/ ListingSound(y)'  BY <2>6, <2>11
  <2>. QED  BY <2>4, <2>14, <2>17, <2>18, <2>19, <2>20, QuietFrame
<1>. QED  BY <1>4, <1>5

\* The row says minted of the one gem, when that is minted.
LEMMA MintRowSold ==
  ASSUME OnceAndSold, KeptAndNamed', NEW w \in Workers, NEW s \in Submissions, s = run[w].s, NamesGem(run[w]),
         ActivationRun(run[w]) \/ SwitchRun(run[w]),
         NEW n, n.floor = row[s].floor, n.mode = row[s].mode, n.bank = row[s].bank,
         n.status = "none" => row[s].status = "none", n.minted => Minted(w),
         row' = [row EXCEPT ![s] = n], NEW pc \in {"release", "activated"}, Go(w, pc), Chain
  PROVE  OnceAndSold'
<1>1. PICK g : g = run[w].gem  OBVIOUS
<1>2. g \in DOMAIN gems /\ gems[g].pkg[1] = s  BY <1>1, TheOnlyGem
<1>3. n.minted => OnSale(s, g) /\ gems[g].status = GemStatus.Minted
  <2>1. n.minted => gems[g].status = GemStatus.Minted  BY <1>1 DEF Minted
  <2>2. gems[g].status = GemStatus.Minted => gems[g].status >= GemStatus.Listed  BY DEF GemStatus
  <2>. QED  BY <1>2, <2>1, <2>2 DEF OnSale
<1>4. SaleOf(s, n)
  <2>1. SaleOf(s, row[s])  BY DEF OnceAndSold, SaleInv
  <2>. QED  BY <1>2, <1>3, <2>1 DEF SaleOf
<1>5. (\A x \in Submissions : SaleOf(x, row'[x])) /\ ModesMove /\ FloorStep({w})  BY <1>4, OneSale
<1>6. PICK r : r = [run[w] EXCEPT !.pc = pc]  OBVIOUS
<1>7. Moved({w}) /\ run'[w] = r  BY <1>6, Goes, MovesTo DEF OnceAndSold, KeptAndNamed
<1>8. r.pc = pc  BY <1>6 DEF ActivationRun, SwitchRun
<1>9. LookSound(run[w], row[run[w].s])' /\ SaleRun(run[w], row[run[w].s])'
  BY <1>7, <1>8 DEF LookSound, SaleRun, Holds, Switching
<1>10. RegistryKept /\ pending' = pending  BY Quiet DEF Chain, chainVars
<1>11. \A v \in {w} : LookSound(run[v], row[run[v].s])' /\ SaleRun(run[v], row[run[v].s])'  BY <1>9
<1>. QED  BY <1>5, <1>7, <1>10, <1>11, QuietFrame

LEMMA MintSold == ASSUME OnceAndSold, KeptAndNamed', NEW w \in Workers, mintSellerGem(w)  PROVE OnceAndSold'
<1>1. run[w].pc = "mint" /\ SellerInv  BY DEF mintSellerGem, OnceAndSold, KeptAndNamed
<1>2. ActivationRun(run[w]) \/ SwitchRun(run[w])  BY <1>1, MintsRun
<1>3. NamesGem(run[w]) /\ (ActivationRun(run[w]) => Holds(run[w])) /\ (SwitchRun(run[w]) => Switching(run[w]))
  <2>1. ActivationRun(run[w]) => Holds(run[w])  BY <1>1 DEF ActivationRun, Holds
  <2>2. SwitchRun(run[w]) => Switching(run[w])  BY <1>1 DEF SwitchRun, Switching
  <2>. QED  BY <1>1, <1>2, <2>1, <2>2 DEF NamesGem
<1>4. PICK s \in Submissions : s = run[w].s  BY <1>2 DEF ActivationRun, SwitchRun
<1>5. DOMAIN row[s] = RowFields  BY <1>1, RowIs
<1>6. PICK old : old = IF run[w].kind = "switch" THEN row[s] ELSE Finished(row[s], "seller_mint")  OBVIOUS
<1>7. /\ DOMAIN old = RowFields /\ old.floor = row[s].floor /\ old.mode = row[s].mode /\ old.bank = row[s].bank
      /\ old.status = "none" => row[s].status = "none"
  <2>1. CASE run[w].kind = "switch"  BY <1>5, <1>6, <2>1
  <2>2. CASE run[w].kind # "switch"
    <3>1. PICK a : a = row[s].activation  OBVIOUS
    <3>2. old = [row[s] EXCEPT !.status = "registered", !.started = None, !.stale = FALSE, !.activation = a]
      BY <1>5, <1>6, <2>2, <3>1 DEF Finished
    <3>. QED  BY <1>5, <3>2 DEF RowFields
  <2>. QED  BY <2>1, <2>2
<1>8. PICK pc \in {"release", "activated"} : pc = IF run[w].kind = "switch" THEN "release" ELSE "activated"  OBVIOUS
<1>9. \/ Write(w, "mintToSeller", run[w].gem, "mint") /\ row' = row
      \/ /\ Go(w, pc) /\ Chain
         /\ \/ Minted(w) /\ row' = [row EXCEPT ![s] = [old EXCEPT !.activation = "minted", !.minted = TRUE]]
            \/ row' = [row EXCEPT ![s] = [old EXCEPT !.activation = "awaiting_seller_mint", !.minted = FALSE]]
  BY <1>4, <1>6, <1>8 DEF mintSellerGem, persistStep
<1>10. CASE Write(w, "mintToSeller", run[w].gem, "mint") /\ row' = row
  BY <1>1, <1>2, <1>3, <1>10, WaitSold DEF OtherFns
<1>11. CASE Go(w, pc) /\ Chain /\ Minted(w)
            /\ row' = [row EXCEPT ![s] = [old EXCEPT !.activation = "minted", !.minted = TRUE]]
  <2>1. PICK n : n = [old EXCEPT !.activation = "minted", !.minted = TRUE]  OBVIOUS
  <2>2. n.floor = row[s].floor /\ n.mode = row[s].mode /\ n.bank = row[s].bank /\ n.status = old.status
    BY <1>7, <2>1 DEF RowFields
  <2>. QED  BY <1>2, <1>3, <1>4, <1>7, <1>11, <2>1, <2>2, MintRowSold
<1>12. CASE Go(w, pc) /\ Chain
            /\ row' = [row EXCEPT ![s] = [old EXCEPT !.activation = "awaiting_seller_mint", !.minted = FALSE]]
  <2>1. PICK n : n = [old EXCEPT !.activation = "awaiting_seller_mint", !.minted = FALSE]  OBVIOUS
  <2>2. n.floor = row[s].floor /\ n.mode = row[s].mode /\ n.bank = row[s].bank /\ n.status = old.status /\ ~n.minted
    BY <1>7, <2>1 DEF RowFields
  <2>. QED  BY <1>2, <1>3, <1>4, <1>7, <1>12, <2>1, <2>2, MintRowSold
<1>. QED  BY <1>9, <1>10, <1>11, <1>12

LEMMA SyncMintSold == ASSUME OnceAndSold, KeptAndNamed', NEW s \in Submissions, SyncMint(s)  PROVE OnceAndSold'
<1>1. PICK n : n = [row[s] EXCEPT !.minted = TRUE, !.activation = "minted"]  OBVIOUS
<1>2. row' = [row EXCEPT ![s] = n] /\ run' = run /\ Chain  BY <1>1 DEF SyncMint, persistStep
<1>3. SellerInv /\ OwnGem(s, row[s].gem) /\ SaleOf(s, row[s])
  BY DEF OnceAndSold, KeptAndNamed, NamesInv, RowNames, SaleInv
<1>4. n.floor = row[s].floor /\ n.mode = row[s].mode /\ n.minted /\ n.status = row[s].status /\ n.bank = row[s].bank
  BY <1>1, <1>3, RowIs DEF RowFields
<1>5. OnSale(s, row[s].gem) /\ gems[row[s].gem].status = GemStatus.Minted /\ row[s].gem \in DOMAIN gems
  BY <1>3 DEF SyncMint, OwnGem, OnSale, GemStatus
<1>6. SaleOf(s, n)  BY <1>3, <1>4, <1>5 DEF SaleOf
<1>7. (\A x \in Submissions : SaleOf(x, row'[x])) /\ ModesMove /\ FloorStep({})  BY <1>2, <1>4, <1>6, OneSale
<1>8. Moved({}) /\ RegistryKept /\ pending' = pending  BY <1>2, Quiet DEF Moved, Chain, chainVars
<1>. QED  BY <1>7, <1>8, QuietFrame

LEMMA SwitchSold ==
  ASSUME OnceAndSold, KeptAndNamed', NEW w \in Workers,
         \/ \E s \in Submissions : SwitchBegins(w, s)
         \/ SwitchReads(w) \/ SwitchEnds(w) \/ SwitchSets(w) \/ SwitchMode(w) \/ SwitchFails(w)
  PROVE  OnceAndSold'
<1>1. SellerInv  BY DEF OnceAndSold, KeptAndNamed
<1>2. ASSUME NEW s \in Submissions, SwitchBegins(w, s)  PROVE OnceAndSold'
  <2>1. PICK r : r = [pc |-> "switch", kind |-> "switch", s |-> s, read |-> row[s], gem |-> row[s].gem,
                      status |-> GemStatus.Listed, tx |-> None, then |-> "none"]
    OBVIOUS
  <2>2. run' = [run EXCEPT ![w] = r] /\ row' = row  BY <1>2, <2>1 DEF SwitchBegins, Begin, Record
  <2>3. OwnGem(s, row[s].gem)  BY DEF OnceAndSold, KeptAndNamed, NamesInv, RowNames
  <2>4. OnSale(s, row[s].gem)  BY <1>2, <2>3 DEF SwitchBegins, OwnGem, OnSale, GemStatus
  <2>5. LookSound(r, row'[r.s]) /\ SaleRun(r, row'[r.s])  BY <2>1, <2>4 DEF LookSound, SaleRun, Holds
  <2>. QED  BY <1>2, <2>2, <2>5, SoundMove, SameRowsSale, QuietChain DEF SwitchBegins
<1>3. ASSUME SwitchReads(w) \/ SwitchEnds(w) \/ SwitchSets(w) \/ SwitchMode(w) \/ SwitchFails(w)
      PROVE  SwitchRun(run[w]) /\ Switching(run[w]) /\ OnSale(run[w].s, run[w].gem)
  <2>1. SwitchRun(run[w]) /\ Switching(run[w])
    BY <1>1, <1>3, SwitchesRun DEF SwitchReads, SwitchEnds, SwitchSets, SwitchMode, SwitchFails, SwitchRun, Switching
  <2>. QED  BY <2>1 DEF OnceAndSold, SaleInv, SaleRun
<1>4. ASSUME NEW r, run' = [run EXCEPT ![w] = r], row' = row, Unlisted, r.kind = "switch", r.s = run[w].s, r.gem = run[w].gem,
             OnSale(run[w].s, run[w].gem), r.pc = "mode" => gems[r.gem].mode = "seller_mint",
             r.pc = "wait" /\ r.then = "mode" => r.tx.fn = "setPrimarySaleMode" /\ r.tx.arg = r.gem
      PROVE  OnceAndSold'
  <2>1. LookSound(r, row'[r.s]) /\ SaleRun(r, row'[r.s])  BY <1>4 DEF LookSound, SaleRun, Holds
  <2>. QED  BY <1>4, <2>1, SoundMove, SameRowsSale
<1>5. CASE SwitchReads(w)
  <2>1. row' = row /\ Unlisted  BY <1>5, QuietChain DEF SwitchReads, Record
  <2>2. CASE Go(w, "mode") /\ gems[run[w].gem].mode = "seller_mint"
    <3>1. PICK r : r = [run[w] EXCEPT !.pc = "mode"]  OBVIOUS
    <3>2. run' = [run EXCEPT ![w] = r]  BY <2>2, <3>1, Goes
    <3>3. r.pc = "mode" /\ r.kind = "switch" /\ r.s = run[w].s /\ r.gem = run[w].gem  BY <1>3, <1>5, <3>1 DEF SwitchRun
    <3>. QED  BY <1>3, <1>4, <1>5, <2>1, <2>2, <3>2, <3>3
  <2>3. CASE \E pc \in {"release", "end", "set"} : Go(w, pc)  BY <1>3, <1>5, <2>1, <2>3, GoSold, SameRowsSale
  <2>. QED  BY <1>5, <2>2, <2>3 DEF SwitchReads
<1>6. CASE SwitchEnds(w)  BY <1>3, <1>6, WaitSold DEF SwitchEnds, OtherFns, Record
<1>7. CASE SwitchSets(w)
  <2>1. Write(w, "setPrimarySaleMode", run[w].gem, "mode") /\ row' = row  BY <1>7 DEF SwitchSets, Record
  <2>2. Unlisted /\ \E tx : Waits(w, tx, "mode") /\ tx.fn = "setPrimarySaleMode" /\ tx.arg = run[w].gem
    BY <2>1, Sends DEF OtherFns
  <2>3. PICK tx : Waits(w, tx, "mode") /\ tx.fn = "setPrimarySaleMode" /\ tx.arg = run[w].gem  BY <2>2
  <2>4. PICK r : r = [run[w] EXCEPT !.tx = tx, !.pc = "wait", !.then = "mode"]  OBVIOUS
  <2>5. run' = [run EXCEPT ![w] = r]  BY <2>3, <2>4 DEF Waits
  <2>6. r.pc = "wait" /\ r.tx = tx /\ r.kind = "switch" /\ r.s = run[w].s /\ r.gem = run[w].gem
    BY <1>3, <1>7, <2>4 DEF SwitchRun
  <2>. QED  BY <1>3, <1>4, <1>7, <2>1, <2>2, <2>3, <2>5, <2>6
<1>8. CASE SwitchMode(w)
  <2>1. PICK s \in Submissions : s = run[w].s  BY <1>3, <1>8 DEF SwitchRun
  <2>2. PICK n : n = [row[s] EXCEPT !.mode = "seller_mint"]  OBVIOUS
  <2>3. row' = [row EXCEPT ![s] = n]  BY <1>8, <2>1, <2>2 DEF SwitchMode, persistStep
  <2>4. n.floor = row[s].floor /\ n.minted = row[s].minted /\ n.status = row[s].status /\ n.bank = row[s].bank
    BY <1>1, <2>2, RowIs DEF RowFields
  <2>5. run[w].pc = "mode" /\ SaleRun(run[w], row[s])  BY <1>8, <2>1 DEF SwitchMode, OnceAndSold, SaleInv
  <2>6. gems[run[w].gem].mode = "seller_mint"  BY <1>3, <1>8, <2>5 DEF SaleRun
  <2>7. run[w].gem \in DOMAIN gems /\ \A h \in DOMAIN gems : OnSale(s, h) => h = run[w].gem
    BY <1>3, <1>8, <2>1, TheOnlyGem DEF NamesGem
  <2>8. SaleOf(s, n)
    <3>1. SaleOf(s, row[s])  BY DEF OnceAndSold, SaleInv
    <3>. QED  BY <2>4, <2>6, <2>7, <3>1 DEF SaleOf
  <2>9. (\A x \in Submissions : SaleOf(x, row'[x])) /\ ModesMove /\ FloorStep({w})
    BY <1>3, <1>8, <2>1, <2>3, <2>4, <2>7, <2>8, OneSale
  <2>10. PICK r : r = [run[w] EXCEPT !.pc = "mint"]  OBVIOUS
  <2>11. Moved({w}) /\ run'[w] = r  BY <1>1, <1>8, <2>10, Goes, MovesTo DEF SwitchMode
  <2>12. r.pc = "mint" /\ r.kind = "switch" /\ r.s = run[w].s /\ r.gem = run[w].gem  BY <1>3, <1>8, <2>10 DEF SwitchRun
  <2>13. RegistryKept /\ pending' = pending /\ gems' = gems  BY <1>8, Quiet DEF SwitchMode, Chain, chainVars
  <2>14. LookSound(r, row[r.s])' /\ SaleRun(r, row[r.s])'
    BY <1>3, <1>8, <2>12, <2>13 DEF LookSound, SaleRun, Holds, OnSale
  <2>15. \A v \in {w} : LookSound(run[v], row[run[v].s])' /\ SaleRun(run[v], row[run[v].s])'  BY <2>11, <2>14
  <2>. QED  BY <2>9, <2>11, <2>13, <2>15, QuietFrame
<1>9. CASE SwitchFails(w)  BY <1>3, <1>9, GoSold, SameRowsSale, QuietChain DEF SwitchFails, Record
<1>. QED  BY <1>2, <1>5, <1>6, <1>7, <1>8, <1>9

-----------------------------------------------------------------------------
(* What the registry does to a gem. *)

GemStep(g, h) ==
  /\ GemSound(h) /\ h.pkg = g.pkg
  /\ g.status >= GemStatus.Listed =>
       h.status >= GemStatus.Listed /\ (g.mode = "seller_mint" => h.mode = "seller_mint")
  /\ g.status = GemStatus.Minted => h.status = GemStatus.Minted

LEMMA ExecutedSteps ==
  ASSUME NEW tx, NEW i, i = GemOf(tx), NEW g, g = gems[i], GemSound(g), Accepts(tx),
         tx.fn \in OtherFns \ {"setSellerApproval"}, NEW h \in Executed(tx, g)
  PROVE  /\ GemStep(g, h)
         /\ tx.fn = "listGem" => h.mode = tx.arg[2]
         /\ tx.fn = "setPrimarySaleMode" => h.mode = "seller_mint"
         /\ h.status >= GemStatus.Listed => g.status >= GemStatus.Listed \/ tx.fn = "listGem"
<1>1. CASE tx.fn = "confirmCustody"
  <2>1. g.status = 1 /\ h = [g EXCEPT !.status = 2]  BY <1>1 DEF Accepts, Executed, GemOf, GemStatus
  <2>. QED  BY <1>1, <2>1 DEF GemSound, GemStep, GemStatus
<1>2. CASE tx.fn = "verifyGem"
  <2>1. g.status = 2 /\ h = [g EXCEPT !.status = 3]  BY <1>2 DEF Accepts, Executed, GemOf, GemStatus
  <2>. QED  BY <1>2, <2>1 DEF GemSound, GemStep, GemStatus
<1>3. CASE tx.fn = "listGem"
  <2>1. g.status = 3 /\ h = [g EXCEPT !.status = 4, !.mode = tx.arg[2]]  BY <1>3 DEF Accepts, Executed, GemOf, GemStatus
  <2>. QED  BY <1>3, <2>1 DEF GemSound, GemStep, GemStatus
<1>4. CASE tx.fn = "mintToSeller"
  <2>1. g.status = 4 /\ h = [g EXCEPT !.status = 5]  BY <1>4 DEF Accepts, Executed, GemOf, GemStatus
  <2>. QED  BY <1>4, <2>1 DEF GemSound, GemStep, GemStatus
<1>5. CASE tx.fn = "createDailyAuction"
  <2>1. g.status = 4 /\ h = [g EXCEPT !.auction = OpenAuction]  BY <1>5 DEF Accepts, Executed, GemOf, GemStatus
  <2>2. DOMAIN OpenAuction = {"exists", "settled", "ended", "bidder"}  BY DEF OpenAuction, NoAuction
  <2>. QED  BY <1>5, <2>1, <2>2 DEF GemSound, GemStep, GemStatus
<1>6. CASE tx.fn = "cancelAuction"
  <2>1. h = [g EXCEPT !.auction = NoAuction]  BY <1>6 DEF Executed
  <2>2. DOMAIN NoAuction = {"exists", "settled", "ended", "bidder"} /\ ~NoAuction.exists  BY DEF NoAuction
  <2>. QED  BY <1>6, <2>1, <2>2 DEF GemSound, GemStep, GemStatus
<1>7. CASE tx.fn = "settleAuction"
  <2>1. LiveAuction(i)  BY <1>7 DEF Accepts, GemOf
  <2>2. g.status >= 4  BY <2>1 DEF LiveAuction, GemSound, GemStatus
  <2>3. PICK b : b = [g.auction EXCEPT !.settled = TRUE]  OBVIOUS
  <2>4. DOMAIN b = DOMAIN g.auction /\ (b.exists => g.auction.exists)  BY <2>3 DEF GemSound
  <2>5. h = [g EXCEPT !.auction = b] \/ h = [g EXCEPT !.auction = b, !.status = 5]
    BY <1>7, <2>3 DEF Executed, GemStatus, GemSound
  <2>6. /\ DOMAIN h = DOMAIN g /\ h.pkg = g.pkg /\ h.mode = g.mode /\ h.auction = b
        /\ h.status = g.status \/ h.status = 5
    BY <2>5 DEF GemSound
  <2>. QED  BY <1>7, <2>2, <2>4, <2>6 DEF GemSound, GemStep, GemStatus
<1>8. CASE tx.fn = "setPrimarySaleMode"
  <2>1. h = [g EXCEPT !.mode = "seller_mint"]  BY <1>8 DEF Executed
  <2>. QED  BY <1>8, <2>1 DEF GemSound, GemStep, GemStatus
<1>. QED  BY <1>1, <1>2, <1>3, <1>4, <1>5, <1>6, <1>7, <1>8 DEF OtherFns

\* A bid, the end of a round, or the seller's own mint.
LEMMA TouchedSteps ==
  ASSUME OnceAndSold, NEW i \in DOMAIN gems, RoundEnds(i) \/ SellerMints(i) \/ (\E b \in Bidders : Bid(i, b))
  PROVE  \E h : /\ gems' = [gems EXCEPT ![i] = h] /\ GemStep(gems[i], h)
                /\ h.status >= GemStatus.Listed => gems[i].status >= GemStatus.Listed
<1>1. PICK g : g = gems[i]  OBVIOUS
<1>2. GemSound(g)  BY <1>1 DEF OnceAndSold, SaleInv
<1>3. CASE SellerMints(i)
  <2>1. PICK h : h = [g EXCEPT !.status = GemStatus.Minted]  OBVIOUS
  <2>2. gems' = [gems EXCEPT ![i] = h]  BY <1>1, <1>3, <2>1, Zenon DEF SellerMints
  <2>3. g.status = GemStatus.Listed  BY <1>1, <1>3 DEF SellerMints
  <2>4. GemStep(g, h) /\ g.status >= GemStatus.Listed  BY <1>2, <2>1, <2>3 DEF GemSound, GemStep, GemStatus
  <2>. QED  BY <1>1, <2>2, <2>4
<1>4. ASSUME NEW a, DOMAIN a = DOMAIN g.auction, a.exists = g.auction.exists, gems' = [gems EXCEPT ![i].auction = a]
      PROVE  \E h : /\ gems' = [gems EXCEPT ![i] = h] /\ GemStep(gems[i], h)
                    /\ h.status >= GemStatus.Listed => gems[i].status >= GemStatus.Listed
  <2>1. PICK h : h = [g EXCEPT !.auction = a]  OBVIOUS
  <2>2. gems' = [gems EXCEPT ![i] = h]  BY <1>1, <1>4, <2>1, Zenon
  <2>3. GemStep(g, h) /\ h.status = g.status  BY <1>2, <1>4, <2>1 DEF GemSound, GemStep, GemStatus
  <2>. QED  BY <1>1, <2>2, <2>3
<1>5. CASE RoundEnds(i)
  <2>1. PICK a : a = [g.auction EXCEPT !.ended = TRUE]  OBVIOUS
  <2>2. gems' = [gems EXCEPT ![i].auction = a]  BY <1>1, <1>5, <2>1, Zenon DEF RoundEnds
  <2>3. DOMAIN a = DOMAIN g.auction /\ a.exists = g.auction.exists  BY <1>2, <2>1 DEF GemSound
  <2>. QED  BY <1>4, <2>2, <2>3
<1>6. ASSUME NEW b, Bid(i, b)  PROVE \E a : /\ DOMAIN a = DOMAIN g.auction /\ a.exists = g.auction.exists
                                           /\ gems' = [gems EXCEPT ![i].auction = a]
  <2>1. PICK a : a = [g.auction EXCEPT !.bidder = b]  OBVIOUS
  <2>2. gems' = [gems EXCEPT ![i].auction = a]  BY <1>1, <1>6, <2>1, Zenon DEF Bid
  <2>3. DOMAIN a = DOMAIN g.auction /\ a.exists = g.auction.exists  BY <1>2, <2>1 DEF GemSound
  <2>. QED  BY <2>2, <2>3
<1>. QED  BY <1>3, <1>4, <1>5, <1>6

MintedStays == \A g \in DOMAIN gems : gems[g].status = GemStatus.Minted => gems'[g].status = GemStatus.Minted
\* A gem is put on sale in the mode of its row.
ListedAsSaid ==
  \A g \in DOMAIN gems' :
    gems'[g].status >= GemStatus.Listed =>
      g \in DOMAIN gems /\ (gems[g].status >= GemStatus.Listed \/ gems'[g].mode = row[gems[g].pkg[1]].mode)

\* A step of the registry.
LEMMA GemsFrame ==
  ASSUME OnceAndSold, KeptAndNamed', row' = row, pending' \subseteq pending, SentStep, OneSent',
         GemsMove, MintedStays, ListedAsSaid, \A g \in DOMAIN gems' : GemSound(gems'[g]),
         NEW W, Moved(W), \A w \in W : LookSound(run[w], row[run[w].s])' /\ SaleRun(run[w], row[run[w].s])'
  PROVE  OnceAndSold'
<1>1. FloorStep(W) /\ FreshStep(W) /\ ModesMove  BY DEF FloorStep, FreshStep, ModesMove, Registering
<1>2. OnceInv'  BY <1>1, OnceFrame DEF OnceAndSold
<1>3. ASSUME NEW s \in Submissions  PROVE SaleOf(s, row[s])'
  <2>1. PICK n : n = row[s] /\ n = row'[s]  OBVIOUS
  <2>2. SaleOf(s, n)  BY <2>1 DEF OnceAndSold, SaleInv
  <2>3. ASSUME n.mode = "seller_mint", NEW g \in DOMAIN gems', OnSale(s, g)'  PROVE gems'[g].mode = "seller_mint"
    <3>1. g \in DOMAIN gems /\ (gems[g].status >= GemStatus.Listed \/ gems'[g].mode = row[gems[g].pkg[1]].mode)
      BY <2>3 DEF ListedAsSaid, OnSale
    <3>2. gems[g].pkg[1] = s  BY <2>3, <3>1 DEF OnSale, GemsMove
    <3>3. CASE gems[g].status >= GemStatus.Listed
      <4>1. OnSale(s, g)  BY <3>1, <3>2, <3>3 DEF OnSale
      <4>2. gems[g].mode = "seller_mint"  BY <2>2, <2>3, <3>1, <4>1 DEF SaleOf
      <4>. QED  BY <3>1, <3>3, <4>2 DEF GemsMove
    <3>4. CASE gems'[g].mode = row[gems[g].pkg[1]].mode  BY <2>1, <2>3, <3>2, <3>4
    <3>. QED  BY <3>1, <3>3, <3>4
  <2>4. ASSUME n.minted  PROVE \E g \in DOMAIN gems' : OnSale(s, g)' /\ gems'[g].status = GemStatus.Minted
    <3>1. PICK g \in DOMAIN gems : OnSale(s, g) /\ gems[g].status = GemStatus.Minted  BY <2>2, <2>4 DEF SaleOf
    <3>2. OnSale(s, g)' /\ g \in DOMAIN gems' /\ gems'[g].status = GemStatus.Minted
      BY <3>1, OnSaleStays DEF GemsMove, MintedStays
    <3>. QED  BY <3>2
  <2>. QED  BY <2>1, <2>2, <2>3, <2>4 DEF SaleOf
<1>4. \A g \in DOMAIN gems' : GemSound(gems[g])'  BY DEF GemSound
<1>5. SaleInv'  BY <1>1, <1>3, <1>4, SaleFrame
<1>. QED  BY <1>2, <1>5 DEF OnceAndSold

LEMMA StonesOnce == ASSUME OneSent, SameStones, pending' \subseteq pending  PROVE OneSent'
BY DEF OneSent, SameStones, Registering

LEMMA OneGemMoves ==
  ASSUME OnceAndSold, SameStones, NEW i, NEW h, gems' = [gems EXCEPT ![i] = h],
         i \in DOMAIN gems =>
           /\ GemStep(gems[i], h)
           /\ h.status >= GemStatus.Listed =>
                gems[i].status >= GemStatus.Listed \/ h.mode = row[gems[i].pkg[1]].mode
  PROVE  GemsMove /\ MintedStays /\ ListedAsSaid /\ \A g \in DOMAIN gems' : GemSound(gems'[g])
<1>1. DOMAIN gems' = DOMAIN gems /\ \A g \in DOMAIN gems : gems'[g].pkg = gems[g].pkg /\ GemSound(gems[g])
  BY DEF SameStones, OnceAndSold, SaleInv
<1>2. ASSUME NEW g \in DOMAIN gems  PROVE gems'[g] = gems[g] \/ (g = i /\ gems'[g] = h)
  <2>1. PICK q, t : q = gems /\ t = gems'  OBVIOUS
  <2>2. IsSeq(q) /\ t = [q EXCEPT ![i] = h]  BY <2>1 DEF OnceAndSold, KeptAndNamed, SellerInv, World, RegistryCounted
  <2>3. (i \in DOMAIN q => t[i] = h) /\ \A j \in DOMAIN q : j # i => t[j] = q[j]  BY <2>2, Replacing
  <2>. QED  BY <2>1, <2>3
<1>3. \A g \in DOMAIN gems :
        /\ GemSound(gems'[g])
        /\ gems[g].status >= GemStatus.Listed =>
             /\ gems'[g].status >= GemStatus.Listed
             /\ gems[g].mode = "seller_mint" => gems'[g].mode = "seller_mint"
        /\ gems[g].status = GemStatus.Minted => gems'[g].status = GemStatus.Minted
        /\ gems'[g].status >= GemStatus.Listed =>
             gems[g].status >= GemStatus.Listed \/ gems'[g].mode = row[gems[g].pkg[1]].mode
  BY <1>1, <1>2 DEF GemStep
<1>. QED  BY <1>1, <1>3 DEF GemsMove, MintedStays, ListedAsSaid

\* The run whose transaction is mined goes on, and a switch finds its gem switched.
LEMMA ResumesSold ==
  ASSUME OnceAndSold, row' = row, GemsMove, NEW w \in Workers, run[w].pc = "wait", NEW n, n = Resumed(run[w]),
         Switching(run[w]) /\ run[w].then = "mode" => gems'[run[w].gem].mode = "seller_mint", run'[w] = n
  PROVE  LookSound(run[w], row[run[w].s])' /\ SaleRun(run[w], row[run[w].s])'
<1>1. PICK r : r = run[w]  OBVIOUS
<1>2. LookSound(r, row[r.s]) /\ SaleRun(r, row[r.s])  BY <1>1 DEF OnceAndSold, OnceInv, SaleInv
<1>3. /\ n.pc = r.then /\ n.kind = r.kind /\ n.gem = r.gem
      /\ r.kind = "activation" => ActivationRun(r) /\ n.s = r.s /\ n.read = r.read
      /\ r.kind = "switch" => SwitchRun(r) /\ n.s = r.s
      /\ r.kind \in {"activation", "switch", "sweep"}
  BY <1>1, ResumedIs DEF OnceAndSold, KeptAndNamed
<1>4. CASE r.kind = "activation"
  <2>1. Holds(r) /\ n.pc \in {"recover", "advanced", "mint"} /\ (n.pc = "recover" => Looking(r)) /\ ~Switching(n)
    BY <1>1, <1>3, <1>4 DEF Holds, ActivationRun, Looking, Switching
  <2>2. LookSound(n, row'[n.s])  BY <1>2, <1>3, <1>4, <2>1 DEF LookSound, Looking
  <2>3. LookSound(n, row[n.s])'  BY <2>1, <2>2 DEF LookSound, Looking
  <2>4. r.read.mode = row[r.s].mode \/ \E g \in DOMAIN gems : OnSale(r.s, g)  BY <1>1, <1>2, <2>1 DEF SaleRun
  <2>5. (\E g \in DOMAIN gems : OnSale(r.s, g)) => \E g \in DOMAIN gems' : OnSale(r.s, g)'
    BY OnSaleStays DEF GemsMove
  <2>6. SaleRun(n, row[n.s])'  BY <1>3, <1>4, <2>1, <2>4, <2>5 DEF SaleRun, Switching
  <2>. QED  BY <2>3, <2>6
<1>5. CASE r.kind = "switch"
  <2>1. Switching(r) /\ ~Holds(n) /\ n.pc \in {"set", "mode", "mint"}
    BY <1>1, <1>3, <1>5 DEF Switching, SwitchRun, Holds
  <2>2. OnSale(n.s, n.gem)'  BY <1>2, <1>3, <1>5, <2>1, OnSaleStays DEF SaleRun
  <2>3. n.pc = "mode" => gems'[n.gem].mode = "seller_mint"  BY <1>1, <1>3, <2>1
  <2>4. LookSound(n, row[n.s])'  BY <2>1 DEF LookSound, Holds
  <2>5. SaleRun(n, row[n.s])'  BY <2>1, <2>2, <2>3 DEF SaleRun, Holds
  <2>. QED  BY <2>4, <2>5
<1>6. CASE r.kind = "sweep"
  <2>1. ~Holds(n) /\ ~Switching(n)  BY <1>3, <1>6 DEF Holds, Switching
  <2>. QED  BY <2>1 DEF LookSound, SaleRun, Holds, Switching
<1>. QED  BY <1>3, <1>4, <1>5, <1>6

\* A mined transaction registers a stone nobody registered, lists it in the mode
\* of its row, or moves it on.
LEMMA MineSold ==
  ASSUME OnceAndSold, NEW tx \in pending, Mine(tx)
  PROVE  /\ pending' \subseteq pending /\ SentStep /\ OneSent'
         /\ GemsMove /\ MintedStays /\ ListedAsSaid /\ (\A g \in DOMAIN gems' : GemSound(gems'[g]))
         /\ Accepts(tx) /\ tx.fn = "setPrimarySaleMode" /\ tx.arg \in DOMAIN gems => gems'[tx.arg].mode = "seller_mint"
<1>1. pending' = pending \ {tx} /\ SentStep  BY MineSent DEF Mine, OnceAndSold
<1>2. World /\ OneSent /\ tx.fn \in OtherFns \cup {"registerGem"}
  BY DEF OnceAndSold, OnceInv, KeptAndNamed, SellerInv, World, RegistryCounted
<1>3. \A g \in DOMAIN gems : GemSound(gems[g])  BY DEF OnceAndSold, SaleInv
<1>4. CASE ~Accepts(tx) \/ tx.fn = "setSellerApproval"
  <2>1. gems' = gems /\ opened' = opened  BY <1>4 DEF Mine
  <2>2. GemsMove /\ MintedStays /\ ListedAsSaid  BY <2>1 DEF GemsMove, MintedStays, ListedAsSaid
  <2>3. OneSent'  BY <1>1, <1>2, <2>1, SameRegistry, StonesOnce
  <2>. QED  BY <1>1, <1>3, <1>4, <2>1, <2>2, <2>3
<1>5. CASE Accepts(tx) /\ tx.fn = "registerGem"
  <2>1. PICK gem : gem = [NewGem EXCEPT !.pkg = tx.arg]  OBVIOUS
  <2>2. /\ gem.pkg = tx.arg /\ gem.status = 1 /\ DOMAIN gem = {"pkg", "status", "mode", "auction"}
        /\ DOMAIN gem.auction = {"exists", "settled", "ended", "bidder"} /\ ~gem.auction.exists
    BY <2>1 DEF NewGem, NoAuction, GemStatus
  <2>3. gems' = Append(gems, gem)  BY <1>5, <2>1 DEF Mine
  <2>4. PICK q, u : q = gems /\ u = gems'  OBVIOUS
  <2>5. IsSeq(q) /\ u = Append(q, gem)  BY <1>2, <2>3, <2>4 DEF World, RegistryCounted
  <2>6. /\ Len(u) = Len(q) + 1 /\ Len(q) \in Nat /\ DOMAIN q = 1..Len(q) /\ DOMAIN u = 1..(Len(q) + 1)
        /\ u[Len(q) + 1] = gem /\ \A i \in DOMAIN q : u[i] = q[i]
    BY <2>5, Appending
  <2>7. tx \in Registering /\ Registering' = Registering \ {tx}  BY <1>1, <1>5 DEF Registering
  <2>8. \A g \in DOMAIN u : (g \in DOMAIN q /\ u[g] = q[g]) \/ (g = Len(q) + 1 /\ u[g] = gem)  BY <2>6
  <2>9. GemsMove /\ MintedStays  BY <2>4, <2>6 DEF GemsMove, MintedStays
  <2>10. ListedAsSaid  BY <2>2, <2>4, <2>8 DEF ListedAsSaid, GemStatus
  <2>11. \A g \in DOMAIN gems' : GemSound(gems'[g])
    <3>1. GemSound(gem)  BY <2>2 DEF GemSound
    <3>. QED  BY <1>3, <2>4, <2>8, <3>1
  <2>12. OneSent'
    <3>1. \A t, x \in Registering' : t.arg[1] = x.arg[1] => t = x  BY <1>2, <2>7 DEF OneSent
    <3>2. \A g, h \in DOMAIN u : u[g].pkg[1] = u[h].pkg[1] => g = h
      BY <1>2, <2>2, <2>4, <2>7, <2>8 DEF OneSent
    <3>3. \A t \in Registering', g \in DOMAIN u : u[g].pkg[1] # t.arg[1]
      BY <1>2, <2>2, <2>4, <2>7, <2>8 DEF OneSent
    <3>. QED  BY <2>4, <3>1, <3>2, <3>3 DEF OneSent
  <2>. QED  BY <1>1, <1>5, <2>9, <2>10, <2>11, <2>12
<1>6. CASE Accepts(tx) /\ tx.fn \notin {"registerGem", "setSellerApproval"}
  <2>1. PICK i : i = GemOf(tx)  OBVIOUS
  <2>2. PICK h \in Executed(tx, gems[i]) : gems' = [gems EXCEPT ![i] = h]  BY <1>6, <2>1 DEF Mine
  <2>3. tx.fn \in OtherFns \ {"setSellerApproval"}  BY <1>2, <1>6
  <2>4. ASSUME i \in DOMAIN gems
        PROVE  /\ GemStep(gems[i], h) /\ (tx.fn = "setPrimarySaleMode" => h.mode = "seller_mint")
               /\ h.status >= GemStatus.Listed =>
                    gems[i].status >= GemStatus.Listed \/ h.mode = row[gems[i].pkg[1]].mode
    <3>1. PICK g : g = gems[i]  OBVIOUS
    <3>2. /\ GemStep(g, h) /\ (tx.fn = "listGem" => h.mode = tx.arg[2])
          /\ tx.fn = "setPrimarySaleMode" => h.mode = "seller_mint"
          /\ h.status >= GemStatus.Listed => g.status >= GemStatus.Listed \/ tx.fn = "listGem"
      BY <1>3, <1>6, <2>1, <2>2, <2>3, <2>4, <3>1, ExecutedSteps
    <3>3. tx.fn = "listGem" => row[g.pkg[1]].mode = tx.arg[2] \/ g.status >= GemStatus.Listed
      BY <2>1, <3>1 DEF OnceAndSold, SaleInv, ListingSound, GemOf
    <3>. QED  BY <3>1, <3>2, <3>3
  <2>5. SameStones
    <3>1. i \in DOMAIN gems => "pkg" \in DOMAIN h /\ h.pkg = gems[i].pkg  BY <2>4 DEF GemStep, GemSound
    <3>. QED  BY <1>2, <2>2, <3>1, OneGem
  <2>6. GemsMove /\ MintedStays /\ ListedAsSaid /\ \A g \in DOMAIN gems' : GemSound(gems'[g])
    BY <2>2, <2>4, <2>5, OneGemMoves
  <2>7. OneSent'  BY <1>1, <1>2, <2>5, StonesOnce
  <2>8. tx.fn = "setPrimarySaleMode" /\ tx.arg \in DOMAIN gems => gems'[tx.arg].mode = "seller_mint"
    <3>1. SUFFICES ASSUME tx.fn = "setPrimarySaleMode", i \in DOMAIN gems  PROVE gems'[i].mode = "seller_mint"
      BY <2>1 DEF GemOf
    <3>2. PICK q, t : q = gems /\ t = gems'  OBVIOUS
    <3>3. IsSeq(q) /\ t = [q EXCEPT ![i] = h]  BY <1>2, <2>2, <3>2 DEF World, RegistryCounted
    <3>4. t[i] = h  BY <3>1, <3>2, <3>3, Replacing
    <3>. QED  BY <2>4, <3>1, <3>2, <3>4
  <2>. QED  BY <1>1, <2>6, <2>7, <2>8
<1>. QED  BY <1>2, <1>4, <1>5, <1>6

LEMMA OutsideSold == ASSUME OnceAndSold, KeptAndNamed', Outside  PROVE OnceAndSold'
<1>1. row' = row  BY DEF Outside
<1>2. ASSUME NEW tx \in pending, Mine(tx), Receive(tx)  PROVE OnceAndSold'
  <2>1. /\ pending' \subseteq pending /\ SentStep /\ OneSent'
        /\ GemsMove /\ MintedStays /\ ListedAsSaid /\ (\A g \in DOMAIN gems' : GemSound(gems'[g]))
        /\ Accepts(tx) /\ tx.fn = "setPrimarySaleMode" /\ tx.arg \in DOMAIN gems => gems'[tx.arg].mode = "seller_mint"
    BY <1>2, MineSold
  <2>2. PICK W : W = {w \in Workers : run'[w] # run[w]}  OBVIOUS
  <2>3. Moved(W)  BY <2>2 DEF Moved
  <2>4. ASSUME NEW w \in W  PROVE LookSound(run[w], row[run[w].s])' /\ SaleRun(run[w], row[run[w].s])'
    <3>1. PICK n : n = Resumed(run[w])  OBVIOUS
    <3>2. w \in Workers /\ run'[w] = n /\ run[w].pc = "wait" /\ run[w].tx = tx /\ Accepts(tx)
      BY <1>2, <2>2, <3>1 DEF Receive, Resumed
    <3>3. Switching(run[w]) /\ run[w].then = "mode" => gems'[run[w].gem].mode = "seller_mint"
      <4>1. SUFFICES ASSUME Switching(run[w]), run[w].then = "mode"  PROVE gems'[run[w].gem].mode = "seller_mint"
        OBVIOUS
      <4>2. SaleRun(run[w], row[run[w].s])  BY <3>2 DEF OnceAndSold, SaleInv
      <4>3. OnSale(run[w].s, run[w].gem) /\ tx.fn = "setPrimarySaleMode" /\ tx.arg = run[w].gem
        BY <3>2, <4>1, <4>2 DEF SaleRun
      <4>. QED  BY <2>1, <3>2, <4>3 DEF OnSale
    <3>. QED  BY <1>1, <2>1, <3>1, <3>2, <3>3, ResumesSold
  <2>. QED  BY <1>1, <2>1, <2>3, <2>4, GemsFrame
<1>3. ASSUME SameStones, pending' \subseteq pending, receipts' = receipts, run' = run,
             GemsMove, MintedStays, ListedAsSaid, \A g \in DOMAIN gems' : GemSound(gems'[g])
      PROVE  OnceAndSold'
  <2>1. SentStep /\ OneSent'  BY <1>3, StonesSent, StonesOnce DEF OnceAndSold, OnceInv
  <2>2. Moved({})  BY <1>3 DEF Moved
  <2>3. \A w \in {} : LookSound(run[w], row[run[w].s])' /\ SaleRun(run[w], row[run[w].s])'  OBVIOUS
  <2>. QED  BY <1>1, <1>3, <2>1, <2>2, <2>3, GemsFrame
<1>4. ASSUME NEW tx \in pending, Drop(tx), run' = run  PROVE OnceAndSold'
  <2>1. gems' = gems /\ SameStones /\ pending' \subseteq pending /\ receipts' = receipts
    BY <1>4, SameRegistry DEF Drop, OnceAndSold, KeptAndNamed, SellerInv
  <2>2. GemsMove /\ MintedStays /\ ListedAsSaid  BY <2>1 DEF GemsMove, MintedStays, ListedAsSaid
  <2>3. \A g \in DOMAIN gems' : GemSound(gems'[g])  BY <2>1 DEF OnceAndSold, SaleInv
  <2>. QED  BY <1>3, <1>4, <2>1, <2>2, <2>3
<1>5. ASSUME NEW g \in DOMAIN gems, RoundEnds(g) \/ SellerMints(g) \/ (\E b \in Bidders : Bid(g, b)), run' = run
      PROVE  OnceAndSold'
  <2>1. SameStones  BY <1>5, TouchedIsStone DEF OnceAndSold, KeptAndNamed, SellerInv
  <2>2. PICK h : /\ gems' = [gems EXCEPT ![g] = h] /\ GemStep(gems[g], h)
                 /\ h.status >= GemStatus.Listed => gems[g].status >= GemStatus.Listed
    BY <1>5, TouchedSteps
  <2>3. GemsMove /\ MintedStays /\ ListedAsSaid /\ \A i \in DOMAIN gems' : GemSound(gems'[i])
    BY <2>1, <2>2, OneGemMoves
  <2>4. pending' = pending /\ receipts' = receipts  BY <1>5 DEF RoundEnds, SellerMints, Bid
  <2>. QED  BY <1>3, <1>5, <2>1, <2>3, <2>4
<1>. QED  BY <1>2, <1>4, <1>5 DEF Outside

-----------------------------------------------------------------------------
(* One registration and one sale, for good. *)

LEMMA SoldInit == Init => OnceAndSold
<1>. SUFFICES ASSUME Init  PROVE OnceAndSold
  OBVIOUS
<1>1. gems = <<>> /\ pending = {} /\ \A w \in Workers : run[w] = Idle  BY DEF Init
<1>2. \A w \in Workers : ~Holds(run[w]) /\ ~Switching(run[w])  BY <1>1 DEF Idle, Holds, Switching
<1>3. \A w \in Workers : LookSound(run[w], row[run[w].s]) /\ SaleRun(run[w], row[run[w].s])
  BY <1>2 DEF LookSound, SaleRun
<1>4. OneSent  BY <1>1 DEF OneSent, Registering
<1>5. \A s \in Submissions : SaleOf(s, row[s])  BY <1>1 DEF Init, NewRow, SaleOf
<1>6. (\A g \in DOMAIN gems : GemSound(gems[g])) /\ \A tx \in pending : ListingSound(tx)  BY <1>1
<1>. QED  BY <1>3, <1>4, <1>5, <1>6, KeptInit DEF OnceAndSold, OnceInv, SaleInv

LEMMA IntakeOnce == ASSUME OnceAndSold, KeptAndNamed', IntakeNext  PROVE OnceAndSold'
<1>1. CASE \E s \in Submissions, mode \in {"auction", "seller_mint"} : Create(s, mode)  BY <1>1, CreateSold
<1>2. CASE \A s \in Submissions, mode \in {"auction", "seller_mint"} : ~Create(s, mode)  BY <1>2, IntakeSold
<1>. QED  BY <1>1, <1>2

LEMMA ActivationSold == ASSUME OnceAndSold, KeptAndNamed', ActivationNext, SettledFirst  PROVE OnceAndSold'
<1>1. CASE \E w \in Workers, s \in Submissions : StartActivation(w, s)  BY <1>1, StartSold
<1>2. CASE LeaseLapses \/ \E s \in Submissions : ClaimGoesStale(s)  BY <1>2, ClaimsAgeSold
<1>3. ASSUME NEW w \in Workers,
             PrepareFails(w) \/ PrepareReads(w) \/ Publish(w) \/ Claim(w) \/ Lease(w) \/ Fail(w)
               \/ Approve(w) \/ Recover(w) \/ RecordFloor(w) \/ Register(w) \/ RegisterReplyLost(w)
      PROVE  OnceAndSold'
  BY <1>3, PrepareSold, PublishSold, ClaimSold, LeaseSold, FailSold, ApproveSold, RecoverSold, RecordFloorSold, RegisterSold
<1>4. ASSUME NEW w \in Workers,
             RecordHash(w) \/ RegisteredGem(w) \/ Advance(w) \/ Advanced(w) \/ ListingDone(w) \/ mintSellerGem(w)
               \/ Activated(w) \/ Release(w) \/ ActivatedEvent(w) \/ Die(w)
      PROVE  OnceAndSold'
  BY <1>4, RecordSold, RegisteredGemSold, AdvanceSold, AdvancedSold, ListingDoneSold, MintSold
<1>. QED  BY <1>1, <1>2, <1>3, <1>4 DEF ActivationNext

LEMMA SoldStep == OnceAndSold /\ [Next /\ ClaimIsKept /\ SettledFirst]_auctionVars => OnceAndSold'
<1>. SUFFICES ASSUME OnceAndSold, [Next /\ ClaimIsKept /\ SettledFirst]_auctionVars  PROVE OnceAndSold'
  OBVIOUS
<1>1. KeptAndNamed'  BY KeptStep DEF OnceAndSold
<1>2. CASE UNCHANGED auctionVars
  <2>1. row' = row /\ run' = run /\ Chain  BY <1>2 DEF auctionVars, Chain, chainVars
  <2>. QED  BY <1>1, <2>1, StillSold, SameRowsSale, QuietChain
<1>3. CASE Next /\ SettledFirst
  BY <1>1, <1>3, IntakeOnce, ActivationSold, SweepSold, SwitchSold, SyncMintSold, OutsideSold DEF Next
<1>. QED  BY <1>2, <1>3

\* Overlapping and repeated activations, lost replies and late receipts register
\* a stone once, as long as a claim outlives its run and a registration nobody
\* recorded is settled before the next attempt searches the logs in vain.
THEOREM StoneIsRegisteredOnce == SettledSpec => []RegisteredOnce
<1>1. OnceAndSold => RegisteredOnce
  <2>. SUFFICES ASSUME OnceAndSold, NEW s \in Submissions  PROVE Cardinality(GemsOf(s)) <= 1
    BY DEF RegisteredOnce
  <2>1. CASE GemsOf(s) = {}  BY <2>1, FS_EmptySet
  <2>2. CASE GemsOf(s) # {}
    <3>1. PICK g : g \in GemsOf(s)  BY <2>2
    <3>2. GemsOf(s) = {g}  BY <3>1 DEF GemsOf, OnceAndSold, OnceInv, OneSent
    <3>. QED  BY <3>2, FS_Singleton
  <2>. QED  BY <2>1, <2>2
<1>. QED  BY <1>1, SoldInit, SoldStep, PTL DEF SettledSpec

\* Through switches, sweeps and the seller's own mint, racing and failing halfway,
\* the row says minting only of a gem that left the auctions, and minted only of
\* a minted one.
THEOREM RowsFollowTheSale == SettledSpec => []RowFollowsSale
<1>1. OnceAndSold => RowFollowsSale
  <2>. SUFFICES ASSUME OnceAndSold, NEW s \in Submissions, row[s].gem # None,
                       gems[row[s].gem].status >= GemStatus.Listed
                PROVE  /\ row[s].mode = "seller_mint" => gems[row[s].gem].mode = "seller_mint"
                       /\ row[s].minted => gems[row[s].gem].status = GemStatus.Minted
    BY DEF RowFollowsSale
  <2>1. PICK g : g = row[s].gem  OBVIOUS
  <2>2. OnSale(s, g)  BY <2>1 DEF OnceAndSold, KeptAndNamed, NamesInv, RowNames, OwnGem, OnSale
  <2>3. \A h \in DOMAIN gems : OnSale(s, h) => h = g  BY <2>2 DEF OnSale, OnceAndSold, OnceInv, OneSent
  <2>4. SaleOf(s, row[s])  BY DEF OnceAndSold, SaleInv
  <2>. QED  BY <2>1, <2>2, <2>3, <2>4 DEF SaleOf, OnSale
<1>. QED  BY <1>1, SoldInit, SoldStep, PTL DEF SettledSpec
=============================================================================
