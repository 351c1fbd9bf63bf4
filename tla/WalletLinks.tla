----------------------------- MODULE WalletLinks -----------------------------
(***************************************************************************)
(* The record of which wallets a profile proved to hold (v1-siwe-nonce,    *)
(* v1-siwe-verify): a nonce is consumed by one conditional update, and the *)
(* link is written by statements of their own that other requests overlap. *)
(***************************************************************************)
EXTENDS Integers, FiniteSets

CONSTANTS Profiles, Wallets, Nonces, Requests, Nobody

VARIABLES
  nonce,   \* siwe_nonces: [profile, state]
  links,   \* wallet_links: [profile, primary, nonce], unique by wallet
  verify   \* requests to v1-siwe-verify

linkVars == <<nonce, links, verify>>
NotVerifying == [pc |-> "idle"]
LinksOf(p) == {w \in Wallets : links[w] # Nobody /\ links[w].profile = p}
Primary(p) == {w \in LinksOf(p) : links[w].primary}

IssueNonce(n, p) ==
  /\ nonce[n].state = "none" /\ nonce' = [nonce EXCEPT ![n] = [profile |-> p, state |-> "issued"]]
  /\ UNCHANGED <<links, verify>>

\* External: ten minutes pass.
NonceExpires(n) ==
  /\ nonce[n].state = "issued" /\ nonce' = [nonce EXCEPT ![n].state = "expired"]
  /\ UNCHANGED <<links, verify>>

\* Mutant: a nonce counts until it expires.
ConsumeAgain(v, p, n, w, confirm) ==
  /\ verify[v] = NotVerifying /\ nonce[n].profile = p /\ nonce[n].state \in {"issued", "used"}
  /\ nonce' = [nonce EXCEPT ![n].state = "used"]
  /\ verify' = [verify EXCEPT ![v] = [pc |-> "primary", profile |-> p, wallet |-> w, nonce |-> n, confirm |-> confirm]]
  /\ UNCHANGED links
\* The message was signed by the wallet and names the nonce.
ConsumeNonce(v, p, n, w, confirm) ==
  /\ verify[v] = NotVerifying /\ nonce[n] = [profile |-> p, state |-> "issued"]
  /\ nonce' = [nonce EXCEPT ![n].state = "used"]
  /\ verify' = [verify EXCEPT ![v] = [pc |-> "primary", profile |-> p, wallet |-> w, nonce |-> n, confirm |-> confirm]]
  /\ UNCHANGED links

Refused(v) == Primary(verify[v].profile) \ {verify[v].wallet} # {} /\ ~verify[v].confirm
Cleared(p) == [w \in Wallets |-> IF w \in LinksOf(p) THEN [links[w] EXCEPT !.primary = FALSE] ELSE links[w]]

\* Another primary wallet gives way only to a confirmed relink.
ReadPrimary(v) ==
  /\ verify[v].pc = "primary"
  /\ verify' = [verify EXCEPT ![v] = IF Refused(v) THEN NotVerifying ELSE [@ EXCEPT !.pc = "clear"]]
  /\ UNCHANGED <<nonce, links>>

\* Its error is not looked at.
ClearPrimary(v) ==
  /\ verify[v].pc = "clear"
  /\ links' \in {links, Cleared(verify[v].profile)}
  /\ verify' = [verify EXCEPT ![v].pc = "upsert"] /\ UNCHANGED nonce

\* One row per wallet, whoever had it; one primary per profile, or an error.
UpsertLink(v) ==
  LET p == verify[v].profile w == verify[v].wallet IN
  /\ verify[v].pc = "upsert"
  /\ links' = IF Primary(p) \ {w} = {}
              THEN [links EXCEPT ![w] = [profile |-> p, primary |-> TRUE, nonce |-> verify[v].nonce]] ELSE links
  /\ verify' = [verify EXCEPT ![v] = NotVerifying] /\ UNCHANGED nonce

\* External: the worker is killed.
VerifyDies(v) ==
  /\ verify[v] # NotVerifying /\ verify' = [verify EXCEPT ![v] = NotVerifying]
  /\ UNCHANGED <<nonce, links>>

LinksInit ==
  /\ nonce = [n \in Nonces |-> [profile |-> Nobody, state |-> "none"]]
  /\ links = [w \in Wallets |-> Nobody] /\ verify = [v \in Requests |-> NotVerifying]
VerifyStep(v) == ReadPrimary(v) \/ ClearPrimary(v) \/ UpsertLink(v)
LinksNext ==
  \/ \E n \in Nonces : NonceExpires(n) \/ \E p \in Profiles : IssueNonce(n, p)
  \/ \E v \in Requests : \/ VerifyStep(v) \/ VerifyDies(v)
                         \/ \E p \in Profiles, n \in Nonces, w \in Wallets, confirm \in BOOLEAN :
                              ConsumeNonce(v, p, n, w, confirm)
LinksSpec == LinksInit /\ [][LinksNext]_linkVars

-----------------------------------------------------------------------------
\* A nonce proves one wallet, however many requests bring it at a time.
NonceOnce ==
  \A w, x \in Wallets : w # x /\ links[w] # Nobody /\ links[x] # Nobody => links[w].nonce # links[x].nonce

=============================================================================
