----------------------------- MODULE GiftCreate -----------------------------
(***************************************************************************)
(* The handlers of v1-gift-create that write: prepare, confirm and resume. *)
(***************************************************************************)
EXTENDS GiftLedger

untouched == <<lease, owner, locked, approved, txs, latest, deposit, expired,
               clock, abandoned>>

Enter(p, op, c, pc, code) ==
  /\ op \in Handlers /\ req[p].pc = "idle"
  /\ req' = [req EXCEPT ![p] = [Idle EXCEPT !.op = op, !.gift = c, !.pc = pc,
                                            !.code = code]]

-----------------------------------------------------------------------------
\* prepare

\* No prior row for this client request; the chain says the sender's wallet
\* holds the token, unlocked, and the gem's custody term has not ended.
PrepareRead(p, c) ==
  /\ card[c].status = "absent"
  /\ owner[TokenOf[c]] = SenderOf[c] /\ TokenOf[c] \notin locked
  /\ c \notin expired
  /\ Enter(p, "prepare", c, "supersede", 0)
  /\ UNCHANGED <<card, told, mail, untouched>>

\* The browser prepares with the card's first code, and keeps it for repeats.
FirstCode == 1

\* A repeated request with the code still in force is answered with its prior
\* row, whatever the status of that row.
PrepareRepeat(c) ==
  /\ "prepare" \in Handlers
  /\ card[c].status # "absent" /\ Escrowed(c) /\ card[c].code = FirstCode
  /\ told' = told \cup {c}
  /\ UNCHANGED <<card, req, mail, untouched>>

\* Every pending setup of the token is retired, without regard to whose it is.
PrepareSupersede(p) ==
  /\ At(p, "prepare", "supersede")
  /\ card' = [d \in Cards |->
                IF /\ TokenOf[d] = TokenOf[req[p].gift]
                   /\ card[d].status = "pending_escrow"
                THEN [card[d] EXCEPT !.status = "cancelled"]
                ELSE card[d]]
  /\ Goto(p, "insert")
  /\ UNCHANGED <<told, mail, untouched>>

\* The unique index on a sender's client_request_id, and the one on a token's
\* open card.  The row that won the first one answers the request like a prior
\* row; a loser of the second is told that the token is taken.
DuplicateRequest(c) == card[c].status # "absent"
TokenTaken(c) == \E d \in Cards \ {c} : TokenOf[d] = TokenOf[c] /\ Open(d)

PrepareInsert(p) ==
  LET c == req[p].gift
  IN  /\ At(p, "prepare", "insert")
      /\ card' = IF DuplicateRequest(c) \/ TokenTaken(c) THEN card
                 ELSE [card EXCEPT ![c] = [NoRow EXCEPT !.status = "pending_escrow",
                                                        !.code = FirstCode]]
      /\ told' = IF card'[c].code = FirstCode THEN told \cup {c} ELSE told
      /\ Return(p)
      /\ UNCHANGED <<mail, untouched>>

-----------------------------------------------------------------------------
\* confirm: k is the one-time code the calling tab holds.

\* The row is found by id and code hash.  An active card only has its mail
\* delivered; a pending one must be unexpired.
ConfirmRead(p, c, k) ==
  /\ Escrowed(c) /\ c \in told /\ k = card[c].code
  /\ \/ /\ card[c].status = "active"
        /\ Enter(p, "confirm", c, "mail", k)
     \/ /\ card[c].status = "pending_escrow" /\ c \notin expired
        /\ Enter(p, "confirm", c, "proof", k)
  /\ UNCHANGED <<card, told, mail, untouched>>

\* A bug: a transfer hash counts before its receipt.
escrowTransferSeen(c) == owner[TokenOf[c]] = Escrow \/ deposit[c] # "none"

\* escrowTransferProven: escrow holds the token now, or the browser's own
\* transfer hash has a successful receipt that moved it from sender to escrow.
escrowTransferProven(c) ==
  owner[TokenOf[c]] = Escrow \/ deposit[c] = "done"

ConfirmProof(p) ==
  LET c == req[p].gift
  IN  /\ At(p, "confirm", "proof")
      /\ IF TokenOf[c] \notin locked /\ escrowTransferProven(c)
         THEN Goto(p, "activate") ELSE Return(p)
      /\ UNCHANGED <<card, told, mail, untouched>>

\* A bug: the activation is written whatever the row has become.
ActivateAnyway(p) ==
  LET c == req[p].gift
  IN  /\ At(p, "confirm", "activate")
      /\ card' = [card EXCEPT ![c].status = "active"]
      /\ Goto(p, "mail")
      /\ UNCHANGED <<told, mail, untouched>>

ConfirmActivate(p) ==
  LET c == req[p].gift
      pending == card[c].status = "pending_escrow"
  IN  /\ At(p, "confirm", "activate")
      /\ Update(c, pending, [card[c] EXCEPT !.status = "active"])
      /\ IF pending THEN Goto(p, "mail") ELSE Return(p)
      /\ UNCHANGED <<told, mail, untouched>>

\* deliverRecipientInvitation: unless an invitation is on record, one is sent
\* with the code the caller presented.  The record is written with the mail; a
\* mail that fails is only reported.
ConfirmMailCheck(p) ==
  /\ At(p, "confirm", "mail")
  /\ IF mail[req[p].gift] = <<>> THEN Goto(p, "send") ELSE Return(p)
  /\ UNCHANGED <<card, told, mail, untouched>>

sendGiftInvitation(p) ==
  /\ At(p, "confirm", "send")
  /\ \/ mail' = [mail EXCEPT ![req[p].gift] = Append(@, req[p].code)]
     \/ UNCHANGED mail
  /\ Return(p)
  /\ UNCHANGED <<card, told, untouched>>

-----------------------------------------------------------------------------
\* resume: a tab without the code replaces it.

ResumeRead(p, c) ==
  /\ Escrowed(c) /\ card[c].status = "pending_escrow" /\ c \notin expired
  /\ Enter(p, "resume", c, "custody", 0)
  /\ UNCHANGED <<card, told, mail, untouched>>

ResumeCustody(p) ==
  /\ At(p, "resume", "custody")
  /\ IF owner[TokenOf[req[p].gift]] \in {Escrow, SenderOf[req[p].gift]}
     THEN Goto(p, "reissue") ELSE Return(p)
  /\ UNCHANGED <<card, told, mail, untouched>>

\* A bug: the code is replaced whatever the row has become.
ReissueAnyway(p) ==
  LET c == req[p].gift
  IN  /\ At(p, "resume", "reissue")
      /\ card[c].code < MaxCodes
      /\ card' = [card EXCEPT ![c].code = @ + 1]
      /\ Return(p)
      /\ UNCHANGED <<told, mail, untouched>>

\* The fresh code differs from every earlier code of the card.
ResumeReissue(p) ==
  LET c == req[p].gift
      pending == card[c].status = "pending_escrow"
  IN  /\ At(p, "resume", "reissue")
      /\ pending => card[c].code < MaxCodes
      /\ Update(c, pending, [card[c] EXCEPT !.code = @ + 1])
      /\ told' = IF pending THEN told \cup {c} ELSE told
      /\ Return(p)
      /\ UNCHANGED <<mail, untouched>>

CreateNext ==
  \/ \E c \in Cards : PrepareRepeat(c)
  \/ \E p \in Reqs, c \in Cards :
       \/ PrepareRead(p, c) \/ ResumeRead(p, c)
       \/ \E k \in 1 .. MaxCodes : ConfirmRead(p, c, k)
  \/ \E p \in Reqs :
       \/ PrepareSupersede(p) \/ PrepareInsert(p)
       \/ ConfirmProof(p) \/ ConfirmActivate(p)
       \/ ConfirmMailCheck(p) \/ sendGiftInvitation(p)
       \/ ResumeCustody(p) \/ ResumeReissue(p)
=============================================================================
