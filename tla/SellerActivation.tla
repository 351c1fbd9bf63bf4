-------------------------- MODULE SellerActivation --------------------------
(***************************************************************************)
(* sellerAutomation's activation, started by an administrator: prepare and *)
(* publish the package, claim the row, take the operator lease, register   *)
(* or recover the gem, take it through custody, valuation and listing, and *)
(* record the event.  The run keeps the row it read when it claimed it.    *)
(*                                                                         *)
(* The lease's holder is the submission, so a second run of a submission   *)
(* re-enters it.  A run can fail or die at every step.                     *)
(***************************************************************************)
EXTENDS SellerSubmission

CONSTANTS
  Stamps,        \* moments of claims; bound: as many are in use at a time
  MaxAttempts

ASSUME NoneIsNoStamp == None \notin Stamps /\ None \notin Nat

VARIABLE
  lease       \* protocol_operator_leases: holder, and whether it lapsed

Free == [holder |-> None, lapsed |-> TRUE]

claimOperatorLease(h) ==
  /\ lease.lapsed \/ lease.holder = h
  /\ lease' = [holder |-> h, lapsed |-> FALSE]
\* A step's record renews the lease of its submission, when it still holds it.
Renewed(h) == IF lease.holder = h THEN [lease EXCEPT !.lapsed = FALSE] ELSE lease
releaseOperatorLease(h) == lease' = IF lease.holder = h THEN Free ELSE lease

\* The step a run goes to, with what it learned.
Go(w, pc) == run' = [run EXCEPT ![w].pc = pc]
persistStep(s, new) == row' = [row EXCEPT ![s] = new] /\ lease' = Renewed(s)
OffChain == UNCHANGED <<log, appraisals>>
Chain == UNCHANGED chainVars

\* start_seller_activation
StartActivation(w, s) ==
  /\ log[s].state = "bank_received" /\ row[s].appraised /\ row[s].bank
  /\ Begin(w, [pc |-> "prepare", s |-> s, version |-> log[s].version, read |-> row[s],
               kind |-> "activation", prior |-> 0, gem |-> None, status |-> 0, tx |-> None,
               then |-> "none"])
  /\ UNCHANGED <<row, lease>> /\ OffChain /\ Chain

\* Whatever fails before the claim is recorded without regard to another run.
PrepareFails(w) ==
  LET s == run[w].s IN
  /\ run[w].pc \in {"prepare", "publish"}
  /\ persistStep(s, [row[s] EXCEPT !.activation = "failed", !.started = None, !.stale = FALSE])
  /\ End(w) /\ OffChain /\ Chain

commitmentMayBeRebuilt(r) == ~registrationMayHaveBeenSent(r)

\* The package is rebuilt until a registration may have been sent.
PrepareReads(w) ==
  LET r == row[run[w].s] IN
  /\ run[w].pc = "prepare" /\ r.status \in {"approved", "registered"}
  /\ run' = [run EXCEPT ![w].read = r,
                        ![w].pc = IF commitmentMayBeRebuilt(r) THEN "publish" ELSE "claim"]
  /\ UNCHANGED <<row, lease>> /\ OffChain /\ Chain

NextPackage(s) == <<s, IF row[s].pkg = None THEN 1 ELSE row[s].pkg[2] + 1>>
Prepared(s) == [row[s] EXCEPT !.pkg = NextPackage(s), !.activation = "prepared"]
NotRunning(r) == r.started = None \/ r.stale

\* As it would be if the write looked only for a running activation.
PublishAnyway(w) ==
  LET s == run[w].s IN
  /\ run[w].pc = "publish"
  /\ row' = [row EXCEPT ![s] = Prepared(s)]
  /\ run' = [run EXCEPT ![w].read = row'[s], ![w].pc = "claim"]
  /\ UNCHANGED lease /\ OffChain /\ Chain

\* Published: the row is written unless a run owns it or a registration may be out.
Publish(w) ==
  LET s == run[w].s IN
  /\ run[w].pc = "publish"
  /\ IF NotRunning(row[s]) /\ commitmentMayBeRebuilt(row[s])
       THEN /\ row' = [row EXCEPT ![s] = Prepared(s)]
            /\ run' = [run EXCEPT ![w].read = row'[s], ![w].pc = "claim"]
       ELSE UNCHANGED row /\ End(w)
  /\ UNCHANGED lease /\ OffChain /\ Chain

\* A claim is free, or stale and still the one that was read.
Claimable(r, read) ==
  IF read.started # None /\ (read.stale \/ (r.started = read.started /\ r.stale))
    THEN r.started = read.started ELSE r.started = None

\* The moment of a claim is nobody else's.
Moments(s) ==
  Stamps \ ({row[s].started} \cup {run[w].read.started : w \in {w \in Workers : run[w].pc = "claim"}})

\* The claim does not look at the status again.
Claim(w) ==
  LET s == run[w].s read == run[w].read IN
  /\ run[w].pc = "claim" /\ read.attempts < MaxAttempts /\ Moments(s) # {}
  /\ IF Claimable(row[s], read)
       THEN /\ row' = [row EXCEPT ![s] = [@ EXCEPT !.activation = "registering", !.stale = FALSE,
                                                   !.started = CHOOSE moment \in Moments(s) : TRUE,
                                                   !.attempts = read.attempts + 1]]
            /\ run' = [run EXCEPT ![w].prior = read.attempts, ![w].pc = "lease"]
       ELSE UNCHANGED row /\ End(w)
  /\ UNCHANGED lease /\ OffChain /\ Chain

Lease(w) ==
  /\ run[w].pc = "lease" /\ claimOperatorLease(run[w].s)
  /\ run' = [run EXCEPT ![w].read = row[run[w].s], ![w].pc = "approve"]
  /\ UNCHANGED row /\ OffChain /\ Chain

Claimed(w) == run[w].pc \in {"lease", "approve", "recover", "floor", "register", "hash",
                             "registered", "advance", "advanced", "mint", "wait"}
                /\ run[w].kind = "activation"

\* Any failure after the claim, a busy operator and a receipt that times out included.
Fail(w) ==
  LET s == run[w].s IN
  /\ Claimed(w) /\ row[s].status # "none"
  /\ persistStep(s, [row[s] EXCEPT !.activation = "failed", !.started = None, !.stale = FALSE])
  /\ IF run[w].pc = "lease" THEN End(w) ELSE Go(w, "release")
  /\ OffChain /\ Chain

-----------------------------------------------------------------------------
\* A write waits for its receipt, and goes on at "then" once it succeeded.
Write(w, fn, arg, then) ==
  LET tx == Tx(fn, arg, IF run[w].kind = "sweep" THEN w ELSE run[w].s) IN
  /\ Send(tx) /\ run' = [run EXCEPT ![w].tx = tx, ![w].pc = "wait", ![w].then = then]
Receive(tx) ==
  run' = [w \in Workers |->
            IF run[w].pc = "wait" /\ run[w].tx = tx /\ Accepts(tx)
              THEN [run[w] EXCEPT !.tx = None, !.pc = run[w].then, !.then = "none"] ELSE run[w]]

Approve(w) ==
  /\ run[w].pc = "approve"
  /\ IF approved THEN Go(w, "recover") /\ Chain
                 ELSE Write(w, "setSellerApproval", run[w].s, "recover")
  /\ UNCHANGED <<row, lease>> /\ OffChain

\* The gem of an earlier attempt: by its recorded transaction, which may still
\* be pending, and otherwise by a search of the logs.
ByHash(read) == {r \in ReceiptOf(read.hash) : read.hash # None}
recoverRegisteredGem(read) ==
  IF ByHash(read) # {} THEN (CHOOSE r \in ByHash(read) : TRUE).gem
                       ELSE findRegisteredGem(read.pkg)
recoverByHashOnly(read) ==
  IF ByHash(read) # {} THEN (CHOOSE r \in ByHash(read) : TRUE).gem ELSE None

\* As it would be without the search.
RecoverByHash(w) ==
  LET read == run[w].read gem == IF read.gem # None THEN read.gem ELSE recoverByHashOnly(read) IN
  /\ run[w].pc = "recover" /\ read.hash \notin pending
  /\ run' = [run EXCEPT ![w].gem = gem, ![w].pc = IF gem = None THEN "floor" ELSE "advance",
                        ![w].status = IF gem = None THEN 0 ELSE gems[gem].status]
  /\ IF gem = None THEN UNCHANGED <<row, lease>>
       ELSE persistStep(run[w].s, [row[run[w].s] EXCEPT !.gem = gem, !.activation = "registered"])
  /\ OffChain /\ Chain

Recover(w) ==
  LET read == run[w].read
      earlier == run[w].prior > 0 \/ registrationMayHaveBeenSent(read)
      gem == IF read.gem # None THEN read.gem
             ELSE IF earlier THEN recoverRegisteredGem(read) ELSE None
  IN /\ run[w].pc = "recover" /\ read.hash \notin pending
     /\ run' = [run EXCEPT ![w].gem = gem, ![w].pc = IF gem = None THEN "floor" ELSE "advance",
                           ![w].status = IF gem = None THEN 0 ELSE gems[gem].status]
     /\ IF gem = None \/ read.gem # None THEN UNCHANGED <<row, lease>>
          ELSE persistStep(run[w].s,
                           [row[run[w].s] EXCEPT !.gem = gem, !.activation = "registered"])
     /\ OffChain /\ Chain

RecordFloor(w) ==
  /\ run[w].pc = "floor" /\ Go(w, "register")
  /\ persistStep(run[w].s, [row[run[w].s] EXCEPT !.floor = TRUE])
  /\ OffChain /\ Chain

Register(w) ==
  LET tx == Tx("registerGem", run[w].read.pkg, run[w].s) IN
  /\ run[w].pc = "register" /\ Send(tx)
  /\ run' = [run EXCEPT ![w].tx = tx, ![w].pc = "hash"]
  /\ UNCHANGED <<row, lease>> /\ OffChain
\* The RPC accepts the registration and its answer is lost.
RegisterReplyLost(w) ==
  LET s == run[w].s IN
  /\ run[w].pc = "register" /\ Send(Tx("registerGem", run[w].read.pkg, run[w].s))
  /\ persistStep(s, [row[s] EXCEPT !.activation = "failed", !.started = None, !.stale = FALSE])
  /\ Go(w, "release") /\ OffChain

RecordHash(w) ==
  /\ run[w].pc = "hash" /\ Go(w, "registered")
  /\ persistStep(run[w].s, [row[run[w].s] EXCEPT !.hash = run[w].tx])
  /\ OffChain /\ Chain
RegisteredGem(w) ==
  run[w].pc = "registered" /\ \E r \in ReceiptOf(run[w].tx) :
    /\ run' = [run EXCEPT ![w].gem = r.gem, ![w].status = gems[r.gem].status, ![w].pc = "advance"]
    /\ persistStep(run[w].s, [row[run[w].s] EXCEPT !.gem = r.gem, !.activation = "registered"])
    /\ OffChain /\ Chain

-----------------------------------------------------------------------------
\* From a registered gem to a listed one: the status is read once and each
\* step that was due moves it on.
AdvanceFn(status) ==
  CASE status = GemStatus.Registered -> [fn |-> "confirmCustody", done |-> "custody_confirmed"]
    [] status = GemStatus.CustodyConfirmed -> [fn |-> "verifyGem", done |-> "verified"]
    [] status = GemStatus.Verified -> [fn |-> "listGem", done |-> "listed"]
    [] OTHER -> [fn |-> "createDailyAuction", done |-> "auction_created"]

AuctionDue(w) ==
  /\ run[w].status = GemStatus.Listed /\ run[w].read.mode = "auction"
  /\ ~gems[run[w].gem].auction.exists
StepDue(w) == run[w].status < GemStatus.Listed \/ AuctionDue(w)

Advance(w) ==
  LET step == AdvanceFn(run[w].status) g == run[w].gem IN
  /\ run[w].pc = "advance" /\ StepDue(w)
  /\ Write(w, step.fn, IF step.fn = "listGem" THEN <<g, run[w].read.mode>> ELSE g, "advanced")
  /\ UNCHANGED <<row, lease>> /\ OffChain
Advanced(w) ==
  LET r == run[w] IN
  /\ r.pc = "advanced"
  /\ persistStep(r.s, [row[r.s] EXCEPT !.activation = AdvanceFn(r.status).done])
  /\ run' = [run EXCEPT ![w].pc = "advance",
                        ![w].status = IF r.status < GemStatus.Listed THEN @ + 1 ELSE @]
  /\ OffChain /\ Chain

Finished(r, mode) ==
  [r EXCEPT !.status = "registered", !.started = None, !.stale = FALSE,
            !.activation = IF mode = "auction" THEN "auction_created" ELSE @]

ListingDone(w) ==
  /\ run[w].pc = "advance" /\ ~StepDue(w)
  /\ IF run[w].read.mode = "seller_mint"
       THEN Go(w, "mint") /\ UNCHANGED <<row, lease>>
       ELSE /\ Go(w, "activated")
            /\ persistStep(run[w].s, Finished(row[run[w].s], "auction"))
  /\ OffChain /\ Chain

\* mintSellerGem: minted already, something due from the seller, or minted here.
Minted(w) == gems[run[w].gem].status = GemStatus.Minted
mintSellerGem(w) ==
  LET s == run[w].s
      switching == run[w].kind = "switch"
      outcome(state) ==
        /\ persistStep(s, [(IF switching THEN row[s] ELSE Finished(row[s], "seller_mint"))
                           EXCEPT !.activation = state, !.minted = (state = "minted")])
        /\ Go(w, IF switching THEN "release" ELSE "activated") /\ Chain
  IN /\ run[w].pc = "mint"
     /\ IF Minted(w) THEN outcome("minted")
        ELSE \/ outcome("awaiting_seller_mint")
             \/ /\ Write(w, "mintToSeller", run[w].gem, "mint") /\ UNCHANGED <<row, lease>>
     /\ OffChain

\* The lease goes back first, then the event is appended at the version the
\* administrator saw.
Activated(w) ==
  /\ run[w].pc = "activated" /\ releaseOperatorLease(run[w].s) /\ Go(w, "event")
  /\ UNCHANGED row /\ OffChain /\ Chain
Release(w) ==
  /\ run[w].pc = "release" /\ run[w].kind # "sweep"
  /\ releaseOperatorLease(run[w].s) /\ End(w)
  /\ UNCHANGED row /\ OffChain /\ Chain
ActivatedEvent(w) ==
  LET r == run[w]
      e == AppendWorkflowEvent(log[r.s], r.version,
             WorkflowEvent("activate", "seller_activated", "bank_received", "activated", r.gem))
  IN /\ r.pc = "event" /\ log' = IF e.ok THEN [log EXCEPT ![r.s] = e.log] ELSE log
     /\ End(w) /\ UNCHANGED <<row, appraisals, lease>> /\ Chain

\* Five minutes after a claim it may be taken over; the lease lapses by itself.
ClaimGoesStale(s) ==
  /\ row[s].started # None /\ ~row[s].stale /\ row' = [row EXCEPT ![s].stale = TRUE]
  /\ UNCHANGED <<run, lease>> /\ OffChain /\ Chain
LeaseLapses ==
  /\ ~lease.lapsed /\ lease' = [lease EXCEPT !.lapsed = TRUE]
  /\ UNCHANGED <<row, run>> /\ OffChain /\ Chain
Die(w) == run[w] # Idle /\ End(w) /\ UNCHANGED <<row, lease>> /\ OffChain /\ Chain

ActivationNext ==
  \/ \E w \in Workers, s \in Submissions : StartActivation(w, s)
  \/ \E w \in Workers :
       \/ PrepareFails(w) \/ PrepareReads(w) \/ Publish(w) \/ Claim(w) \/ Lease(w) \/ Fail(w)
       \/ Approve(w) \/ Recover(w) \/ RecordFloor(w) \/ Register(w)
       \/ RegisterReplyLost(w) \/ RecordHash(w) \/ RegisteredGem(w)
       \/ Advance(w) \/ Advanced(w) \/ ListingDone(w) \/ mintSellerGem(w)
       \/ Activated(w) \/ Release(w) \/ ActivatedEvent(w) \/ Die(w)
  \/ \E s \in Submissions : ClaimGoesStale(s)
  \/ LeaseLapses
=============================================================================
