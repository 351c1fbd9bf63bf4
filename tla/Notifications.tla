---------------------------- MODULE Notifications ----------------------------
(***************************************************************************)
(* Recording a notification and delivering it (_shared/notify.ts).  A note *)
(* is a row of the notifications table: its key is what the unique index   *)
(* covers; attached is whether a profile may read it in the feed.          *)
(***************************************************************************)
EXTENDS LogScan

CONSTANT Wallets

VARIABLES
  notes,    \* key -> [attached, emailed], for the keys that were recorded
  mailed,   \* keys of which a mail has left
  linked    \* wallets that belong to a profile

noteVars == <<notes, mailed, linked>>

EMAIL_KINDS == {"offer.refundable", "swap.recoverable"}

Key(wallet, kind, entity) == [wallet |-> wallet, kind |-> kind, entity |-> entity]
Noted(key) == key \in DOMAIN notes
Note(key, value) == notes' = [k \in DOMAIN notes \cup {key} |-> IF k = key THEN value ELSE notes[k]]

Sending(r) == Head(run[r].sends)

\* Where an invocation stands once its notifications are out: back in the log
\* pass with the next event, or at the row of the deadline pass it warned about.
AfterSends(r) ==
  IF run[r].due = <<>>
  THEN [run[r] EXCEPT !.pc = "event", !.sends = <<>>, !.logs = Tail(run[r].logs)]
  ELSE [run[r] EXCEPT !.pc = "resolve", !.sends = <<>>]
Sent1(r) ==
  run' = [run EXCEPT ![r] = IF Len(run[r].sends) > 1
                            THEN [run[r] EXCEPT !.sends = Tail(@), !.pc = "send"]
                            ELSE AfterSends(r)]

-----------------------------------------------------------------------------
NotifyReadsLink(r) ==
  /\ run[r].pc = "send"
  /\ run' = [run EXCEPT ![r].profile = Sending(r).wallet \in linked, ![r].pc = "insert"]
  /\ UNCHANGED <<blocks, sent, cursor, noteVars>>

Mails(key) == key.kind \in EMAIL_KINDS

\* retryUndeliveredEmail: a refused duplicate means recorded, not delivered.
retryUndeliveredEmail(r) == Mails(Sending(r)) /\ ~notes[Sending(r)].emailed

NotifyInserts(r) ==
  /\ run[r].pc = "insert"
  /\ IF Noted(Sending(r)) THEN UNCHANGED notes
     ELSE Note(Sending(r), [attached |-> run[r].profile, emailed |-> FALSE])
  /\ IF run[r].profile /\ Mails(Sending(r)) /\ (Noted(Sending(r)) => retryUndeliveredEmail(r))
     THEN Go(r, "mail") ELSE Sent1(r)
  /\ UNCHANGED <<blocks, sent, cursor, mailed, linked>>

NotifyMails(r) ==
  /\ run[r].pc = "mail"
  /\ \/ mailed' = mailed \cup {Sending(r)} /\ Go(r, "mark")
     \/ Sent1(r) /\ UNCHANGED mailed   \* the provider refuses: the sweep moves on
  /\ UNCHANGED <<blocks, sent, cursor, notes, linked>>

NotifyMarks(r) ==
  /\ run[r].pc = "mark"
  /\ Note(Sending(r), [notes[Sending(r)] EXCEPT !.emailed = TRUE]) /\ Sent1(r)
  /\ UNCHANGED <<blocks, sent, cursor, mailed, linked>>

-----------------------------------------------------------------------------
Attached(wallets) ==
  [k \in DOMAIN notes |-> [notes[k] EXCEPT !.attached = @ \/ k.wallet \in wallets]]

\* Mutant: linking is trusted to have attached everything.
AttachNothing(r) ==
  /\ run[r].pc = "attach" /\ Go(r, "cursor") /\ UNCHANGED <<blocks, sent, cursor, noteVars>>
reconcileNotificationProfileLinks(r) ==
  /\ run[r].pc = "attach" /\ Go(r, "cursor") /\ notes' = Attached(linked)
  /\ UNCHANGED <<blocks, sent, cursor, mailed, linked>>

\* Signing in links a wallet; its backfill may fail without failing the sign-in.
LinkWallet(wallet) ==
  /\ wallet \notin linked /\ linked' = linked \cup {wallet}
  /\ notes' \in {notes, Attached({wallet})}
  /\ UNCHANGED <<scanVars, mailed>>

NotesInit == notes = [k \in {} |-> {}] /\ mailed = {} /\ linked \in SUBSET Wallets
=============================================================================
